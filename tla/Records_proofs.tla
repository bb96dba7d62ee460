---------------------------- MODULE Records_proofs ----------------------------
(***************************************************************************)
(* Proofs about what is kept in records: the requests, the evidence, the   *)
(* memory and the snapshots of a site; the claims about a requirement; and *)
(* the ledger of observations.  They hold for any number of handlers,      *)
(* processes, servers, documents and rows.                                 *)
(***************************************************************************)
EXTENDS SiteActions, ClaimGraph, Ledger, SetTheorems, TLAPS

-------------------------------------------------------------------------------
(* What is done about a site.                                              *)

(* A document, as it is stored or as a handler holds it.                   *)
SiteItems == ({"user"} \cup Rfis) \X Details
Status == {"NONE", "DRAFT", "APPROVED", "SENT", "RESPONSE_RECEIVED"}
Rfi == [status : Status, contact : BOOLEAN, approved : BOOLEAN, answer : SiteItems \cup {Nothing}]
Document == [rfis : [Rfis -> Rfi], evidence : SUBSET SiteItems, memory : SUBSET SiteItems, snapshot : Nat]

(* What is said of the stored document holds of every copy of one.         *)
RfiOK(rfi, evidence) ==
    /\ rfi.status \in {"APPROVED", "SENT", "RESPONSE_RECEIVED"} <=> rfi.approved
    /\ rfi.approved => rfi.contact
    /\ rfi.answer # Nothing <=> rfi.status = "RESPONSE_RECEIVED"
    /\ rfi.answer # Nothing => rfi.answer \in evidence

DocumentOK(doc) ==
    /\ doc \in Document
    /\ \A r \in Rfis : RfiOK(doc.rfis[r], doc.evidence)
    /\ doc.memory \subseteq doc.evidence

InGraph(doc) == doc.memory \subseteq graphMemory

HeldCopy == [op : {"await"}, copy : Document]

SiteInv ==
    /\ DocumentOK(siteDocument)
    /\ waiting \in [Waiters -> {Idle} \cup HeldCopy]
    /\ \A w \in Waiters : waiting[w] # Idle => DocumentOK(waiting[w].copy)
    /\ snapshots \in Nat /\ deaths \in Nat
    /\ deaths = 0 => InGraph(siteDocument) /\ \A w \in Waiters : waiting[w] # Idle => InGraph(waiting[w].copy)

-------------------------------------------------------------------------------
(* The steps of a request, in their order.                                 *)
LEMMA RankFacts ==
    ASSUME NEW rfi
    PROVE  /\ rfi.status = "NONE" => Rank(rfi) = 1
           /\ rfi.status = "DRAFT" => Rank(rfi) = 2
           /\ rfi.status = "APPROVED" => Rank(rfi) = 3
           /\ rfi.status = "SENT" => Rank(rfi) = 4
           /\ rfi.status = "RESPONSE_RECEIVED" => Rank(rfi) = 5
BY DEF Rank, Ranks

(* A request changes within the order, and what it lacks it may not send.  *)
LEMMA ChangedOK ==
    ASSUME DocumentOK(siteDocument), NEW r \in Rfis, NEW rfi \in Rfi, RfiOK(rfi, siteDocument.evidence)
    PROVE  /\ DocumentOK(Changed(r, rfi))
           /\ Changed(r, rfi).memory = siteDocument.memory /\ Changed(r, rfi).evidence = siteDocument.evidence
           /\ Changed(r, rfi).rfis[r] = rfi
           /\ \A q \in Rfis : q # r => Changed(r, rfi).rfis[q] = siteDocument.rfis[q]
<1> DEFINE doc == Changed(r, rfi)
<1>1. siteDocument \in Document /\ siteDocument.rfis \in [Rfis -> Rfi]
  BY DEF DocumentOK, Document
<1>2. doc = [siteDocument EXCEPT !.rfis = [siteDocument.rfis EXCEPT ![r] = rfi]]
  BY DEF Changed
<1> HIDE DEF doc
<1>3. [siteDocument.rfis EXCEPT ![r] = rfi] \in [Rfis -> Rfi]
  BY <1>1
<1>4. /\ doc \in Document /\ doc.rfis = [siteDocument.rfis EXCEPT ![r] = rfi]
      /\ doc.evidence = siteDocument.evidence /\ doc.memory = siteDocument.memory
  BY <1>1, <1>2, <1>3 DEF Document
<1>5. \A q \in Rfis : doc.rfis[q] = IF q = r THEN rfi ELSE siteDocument.rfis[q]
  BY <1>1, <1>4
<1>6. DocumentOK(doc)
  BY <1>4, <1>5 DEF DocumentOK
<1> QED
  BY <1>4, <1>5, <1>6 DEF doc

(* Evidence is added to what there is.                                     *)
LEMMA WithEvidenceOK ==
    ASSUME NEW doc, DocumentOK(doc), NEW item \in SiteItems
    PROVE  /\ DocumentOK(WithEvidence(doc, item))
           /\ item \in WithEvidence(doc, item).evidence
           /\ doc.evidence \subseteq WithEvidence(doc, item).evidence
           /\ WithEvidence(doc, item).memory = doc.memory
           /\ WithEvidence(doc, item).rfis = doc.rfis
<1>1. doc \in Document
  BY DEF DocumentOK
<1>2. /\ WithEvidence(doc, item) \in Document
      /\ WithEvidence(doc, item).evidence = doc.evidence \cup {item}
      /\ WithEvidence(doc, item).memory = doc.memory
      /\ WithEvidence(doc, item).rfis = doc.rfis
  BY <1>1 DEF WithEvidence, Document
<1> QED
  BY <1>2 DEF DocumentOK, RfiOK

(* The memory takes only evidence.                                         *)
LEMMA WithMemoryOK ==
    ASSUME NEW doc, DocumentOK(doc), NEW item \in doc.evidence
    PROVE  /\ DocumentOK(WithMemory(doc, item))
           /\ WithMemory(doc, item).evidence = doc.evidence
           /\ WithMemory(doc, item).memory = doc.memory \cup {item}
           /\ WithMemory(doc, item).rfis = doc.rfis
<1>1. doc \in Document /\ item \in SiteItems
  BY DEF DocumentOK, Document
<1>2. /\ WithMemory(doc, item) \in Document
      /\ WithMemory(doc, item).evidence = doc.evidence
      /\ WithMemory(doc, item).memory = doc.memory \cup {item}
      /\ WithMemory(doc, item).rfis = doc.rfis
  BY <1>1 DEF WithMemory, Document
<1> QED
  BY <1>2 DEF DocumentOK

(* An answer is never taken for none.                                      *)
LEMMA ItemsAreNotNothing ==
    ASSUME NEW item \in SiteItems
    PROVE  item # Nothing
<1> DEFINE from == {"user"} \cup Rfis
<1>1. item \in from \X Details
  BY DEF SiteItems
<1> HIDE DEF from
<1>2. item = <<item[1], item[2]>>
  BY <1>1
<1>3. Len(<<item[1], item[2]>>) = 2 /\ Len(<< >>) = 0
  OBVIOUS
<1> QED
  BY <1>2, <1>3 DEF Nothing

(* A request that was sent gets its answer.                                *)
LEMMA AnsweredOK ==
    ASSUME NEW doc, DocumentOK(doc), NEW r \in Rfis, doc.rfis[r].status = "SENT",
           NEW item \in doc.evidence
    PROVE  /\ DocumentOK(Answered(doc, r, item))
           /\ Answered(doc, r, item).evidence = doc.evidence
           /\ Answered(doc, r, item).memory = doc.memory
           /\ Answered(doc, r, item).rfis[r].status = "RESPONSE_RECEIVED"
           /\ \A q \in Rfis : q # r => Answered(doc, r, item).rfis[q] = doc.rfis[q]
<1> DEFINE rfi == [doc.rfis[r] EXCEPT !.status = "RESPONSE_RECEIVED", !.answer = item]
           new == Answered(doc, r, item)
<1>1. /\ doc \in Document /\ doc.rfis \in [Rfis -> Rfi] /\ doc.rfis[r] \in Rfi /\ item \in SiteItems
      /\ RfiOK(doc.rfis[r], doc.evidence)
  BY DEF DocumentOK, Document
<1>2. item # Nothing
  BY <1>1, ItemsAreNotNothing
<1>3. rfi \in Rfi /\ rfi.status = "RESPONSE_RECEIVED" /\ RfiOK(rfi, doc.evidence)
  BY <1>1, <1>2 DEF Rfi, Status, RfiOK
<1>4. new = [doc EXCEPT !.rfis = [doc.rfis EXCEPT ![r] = rfi]]
  BY <1>1 DEF Answered, Document, Rfi
<1> HIDE DEF rfi, new
<1>5. [doc.rfis EXCEPT ![r] = rfi] \in [Rfis -> Rfi]
  BY <1>1, <1>3
<1>6. /\ new \in Document /\ new.rfis = [doc.rfis EXCEPT ![r] = rfi]
      /\ new.evidence = doc.evidence /\ new.memory = doc.memory
  BY <1>1, <1>4, <1>5 DEF Document
<1>7. \A q \in Rfis : new.rfis[q] = IF q = r THEN rfi ELSE doc.rfis[q]
  BY <1>1, <1>6
<1>8. DocumentOK(new)
  BY <1>3, <1>6, <1>7 DEF DocumentOK
<1> QED
  BY <1>3, <1>6, <1>7, <1>8 DEF new

-------------------------------------------------------------------------------
(* What a save that starts from the stored document may make of it.        *)
Improves(doc, item) ==
    /\ DocumentOK(doc)
    /\ siteDocument.evidence \subseteq doc.evidence
    /\ \A q \in Rfis : doc.rfis[q] = siteDocument.rfis[q] \/ Rank(siteDocument.rfis[q]) <= Rank(doc.rfis[q])
    /\ doc.memory \subseteq siteDocument.memory \cup {item}

(* Nothing goes back and nothing is lost: there is nothing to explain.     *)
LEMMA NothingLost ==
    ASSUME SiteInv,
           siteDocument.evidence \subseteq siteDocument'.evidence,
           \A q \in Rfis : siteDocument'.rfis[q] = siteDocument.rfis[q]
                            \/ Rank(siteDocument.rfis[q]) <= Rank(siteDocument'.rfis[q]),
           DocumentOK(siteDocument')
    PROVE  LossIsToOldCopy
<1>1. \A q \in Rfis : siteDocument.rfis[q].status \in Status /\ siteDocument'.rfis[q].status \in Status
  BY DEF SiteInv, DocumentOK, Document, Rfi
<1>2. \A q \in Rfis : Rank(siteDocument.rfis[q]) \in 1..5 /\ Rank(siteDocument'.rfis[q]) \in 1..5
  <2> TAKE q \in Rfis
  <2>1. Rank(siteDocument.rfis[q]) \in 1..5
    BY <1>1, RankFacts DEF Status
  <2>2. Rank(siteDocument'.rfis[q]) \in 1..5
    BY <1>1, RankFacts DEF Status
  <2> QED
    BY <2>1, <2>2
<1>3. \A q \in Rfis : ~(Rank(siteDocument'.rfis[q]) < Rank(siteDocument.rfis[q]))
  <2> TAKE q \in Rfis
  <2>1. CASE siteDocument'.rfis[q] = siteDocument.rfis[q]
    BY <2>1, <1>2
  <2>2. CASE Rank(siteDocument.rfis[q]) <= Rank(siteDocument'.rfis[q])
    BY <2>2, <1>2
  <2> QED
    BY <2>1, <2>2
<1> QED
  BY <1>3 DEF LossIsToOldCopy

(* A save of one request.                                                  *)
LEMMA SaveRfiStep ==
    ASSUME SiteInv, NEW r \in Rfis, NEW rfi \in Rfi, RfiOK(rfi, siteDocument.evidence),
           Rank(siteDocument.rfis[r]) <= Rank(rfi), SaveRfi(r, rfi)
    PROVE  SiteInv' /\ LossIsToOldCopy
<1>1. /\ DocumentOK(siteDocument') /\ siteDocument'.memory = siteDocument.memory
      /\ siteDocument'.evidence = siteDocument.evidence /\ siteDocument'.rfis[r] = rfi
      /\ \A q \in Rfis : q # r => siteDocument'.rfis[q] = siteDocument.rfis[q]
  <2>1. DocumentOK(siteDocument) /\ siteDocument' = Changed(r, rfi)
    BY DEF SiteInv, SaveRfi
  <2> QED
    BY <2>1, ChangedOK
<1>2. SiteInv'
  BY <1>1 DEF SiteInv, SaveRfi, InGraph
<1>3. LossIsToOldCopy
  <2>1. \A q \in Rfis : siteDocument'.rfis[q] = siteDocument.rfis[q]
                         \/ Rank(siteDocument.rfis[q]) <= Rank(siteDocument'.rfis[q])
    BY <1>1
  <2> QED
    BY <1>1, <2>1, NothingLost
<1> QED
  BY <1>2, <1>3

(* The four steps of a request before its answer.                          *)
LEMMA RfiStep ==
    ASSUME SiteInv, NEW r \in Rfis,
           CreateRfiDraft(r) \/ UpdateRfiDraft(r) \/ ApproveRfi(r) \/ MarkRfiSent(r)
    PROVE  SiteInv' /\ LossIsToOldCopy
<1> DEFINE old == siteDocument.rfis[r]
<1>1. old \in Rfi /\ RfiOK(old, siteDocument.evidence)
  BY DEF SiteInv, DocumentOK, Document
<1>2. CASE CreateRfiDraft(r)
  <2> DEFINE rfi == [NoRfi EXCEPT !.status = "DRAFT"]
  <2>1. rfi \in Rfi /\ RfiOK(rfi, siteDocument.evidence) /\ rfi.status = "DRAFT"
    BY DEF NoRfi, Rfi, Status, RfiOK, Nothing
  <2>2. SaveRfi(r, rfi) /\ old.status = "NONE"
    BY <1>2 DEF CreateRfiDraft
  <2> HIDE DEF rfi
  <2>3. Rank(old) = 1 /\ Rank(rfi) = 2
    BY <2>1, <2>2, RankFacts
  <2> QED
    BY <2>1, <2>2, <2>3, SaveRfiStep
<1>3. CASE UpdateRfiDraft(r)
  <2>1. PICK contact \in BOOLEAN : SaveRfi(r, [old EXCEPT !.contact = contact])
    BY <1>3 DEF UpdateRfiDraft
  <2> DEFINE rfi == [old EXCEPT !.contact = contact]
  <2>2. old.status = "DRAFT"
    BY <1>3 DEF UpdateRfiDraft
  <2>3. rfi \in Rfi /\ RfiOK(rfi, siteDocument.evidence) /\ rfi.status = "DRAFT"
    BY <1>1, <2>2 DEF Rfi, Status, RfiOK
  <2>4. SaveRfi(r, rfi)
    BY <2>1
  <2> HIDE DEF rfi
  <2>5. Rank(old) = 2 /\ Rank(rfi) = 2
    BY <2>2, <2>3, RankFacts
  <2> QED
    BY <2>3, <2>4, <2>5, SaveRfiStep
<1>4. CASE ApproveRfi(r)
  <2> DEFINE rfi == [old EXCEPT !.status = "APPROVED", !.approved = TRUE]
  <2>1. old.status = "DRAFT" /\ old.contact /\ SaveRfi(r, rfi)
    BY <1>4 DEF ApproveRfi, MayApprove
  <2>2. rfi \in Rfi /\ RfiOK(rfi, siteDocument.evidence) /\ rfi.status = "APPROVED"
    BY <1>1, <2>1 DEF Rfi, Status, RfiOK
  <2> HIDE DEF rfi
  <2>3. Rank(old) = 2 /\ Rank(rfi) = 3
    BY <2>1, <2>2, RankFacts
  <2> QED
    BY <2>1, <2>2, <2>3, SaveRfiStep
<1>5. CASE MarkRfiSent(r)
  <2> DEFINE rfi == [old EXCEPT !.status = "SENT"]
  <2>1. old.status = "APPROVED" /\ SaveRfi(r, rfi)
    BY <1>5 DEF MarkRfiSent, MaySend
  <2>2. rfi \in Rfi /\ RfiOK(rfi, siteDocument.evidence) /\ rfi.status = "SENT"
    BY <1>1, <2>1 DEF Rfi, Status, RfiOK
  <2> HIDE DEF rfi
  <2>3. Rank(old) = 3 /\ Rank(rfi) = 4
    BY <2>1, <2>2, RankFacts
  <2> QED
    BY <2>1, <2>2, <2>3, SaveRfiStep
<1> QED
  BY <1>2, <1>3, <1>4, <1>5

(* The saves of a handler, all of them or only the first ones.             *)
LEMMA PerformStep ==
    ASSUME SiteInv, NEW stored, NEW item \in SiteItems, Len(stored) \in DOMAIN stored,
           \A i \in DOMAIN stored : Improves(stored[i], item), Perform(stored, item)
    PROVE  SiteInv' /\ LossIsToOldCopy
<1>1. Improves(siteDocument', item)
  BY DEF Perform
<1>2. LossIsToOldCopy
  BY <1>1, NothingLost DEF Improves
<1>3. CASE deaths' = deaths
  <2>1. /\ graphMemory' = IF item \in siteDocument.memory THEN graphMemory ELSE graphMemory \cup {item}
        /\ UNCHANGED <<waiting, siteChanges, snapshots, deaths>>
    BY <1>3 DEF Perform, SiteInv
  <2>2. siteDocument'.memory \subseteq siteDocument.memory \cup {item} /\ DocumentOK(siteDocument')
    BY <1>1 DEF Improves
  <2>3. deaths = 0 => InGraph(siteDocument)'
    BY <2>1, <2>2 DEF SiteInv, InGraph
  <2>4. deaths = 0 => \A w \in Waiters : waiting[w] # Idle => InGraph(waiting[w].copy)'
    BY <2>1 DEF SiteInv, InGraph
  <2> QED
    BY <1>2, <2>1, <2>2, <2>3, <2>4 DEF SiteInv
<1>4. CASE deaths' # deaths
  <2>1. /\ deaths' = deaths + 1 /\ waiting' = [w \in Waiters |-> Idle]
        /\ UNCHANGED <<siteChanges, graphMemory, snapshots>>
    BY <1>4 DEF Perform
  <2>2. DocumentOK(siteDocument')
    BY <1>1 DEF Improves
  <2>3. waiting' \in [Waiters -> {Idle} \cup HeldCopy] /\ \A w \in Waiters : waiting'[w] = Idle
    BY <2>1
  <2>4. snapshots' \in Nat /\ deaths' \in Nat /\ deaths' # 0
    BY <2>1 DEF SiteInv
  <2> QED
    BY <1>2, <2>2, <2>3, <2>4 DEF SiteInv
<1> QED
  BY <1>3, <1>4

(* Evidence of a user: stored, then remembered.                            *)
LEMMA EvidenceStep ==
    ASSUME SiteInv, NEW d \in Details, AddUserEvidence(d)
    PROVE  SiteInv' /\ LossIsToOldCopy
<1> DEFINE item == <<"user", d>>
           saved == WithEvidence(siteDocument, item)
           kept == WithMemory(saved, item)
<1>1. item \in SiteItems /\ DocumentOK(siteDocument)
  BY DEF SiteItems, SiteInv
<1>2. EvidenceSaves(item) = <<saved, kept>> /\ Perform(EvidenceSaves(item), item)
  BY DEF EvidenceSaves, AddUserEvidence
<1> HIDE DEF item
<1>3. /\ DocumentOK(saved) /\ item \in saved.evidence /\ siteDocument.evidence \subseteq saved.evidence
      /\ saved.memory = siteDocument.memory /\ saved.rfis = siteDocument.rfis
  BY <1>1, WithEvidenceOK
<1> HIDE DEF saved
<1>4. /\ DocumentOK(kept) /\ kept.evidence = saved.evidence
      /\ kept.memory = saved.memory \cup {item} /\ kept.rfis = saved.rfis
  BY <1>3, WithMemoryOK
<1> HIDE DEF kept
<1>5. Improves(saved, item)
  BY <1>3 DEF Improves
<1>6. Improves(kept, item)
  BY <1>3, <1>4 DEF Improves
<1> DEFINE stored == <<saved, kept>>
<1>7. DOMAIN stored = 1..2 /\ Len(stored) = 2 /\ stored[1] = saved /\ stored[2] = kept
  OBVIOUS
<1>8. Perform(stored, item)
  BY <1>2
<1> HIDE DEF stored
<1>9. Len(stored) \in DOMAIN stored /\ \A i \in DOMAIN stored : i = 1 \/ i = 2
  BY <1>7
<1>10. \A i \in DOMAIN stored : Improves(stored[i], item)
  BY <1>5, <1>6, <1>7, <1>9
<1> QED
  BY <1>1, <1>8, <1>9, <1>10, PerformStep

(* A response: stored as evidence, set on its request, then remembered.    *)
LEMMA ResponseStep ==
    ASSUME SiteInv, NEW r \in Rfis, NEW d \in Details, RecordRfiResponse(r, d)
    PROVE  SiteInv' /\ LossIsToOldCopy
<1> DEFINE item == <<r, d>>
           saved == WithEvidence(siteDocument, item)
           answered == Answered(saved, r, item)
           kept == WithMemory(answered, item)
<1>1. item \in SiteItems /\ DocumentOK(siteDocument) /\ siteDocument.rfis[r].status = "SENT"
  BY DEF SiteItems, SiteInv, RecordRfiResponse
<1>2. ResponseSaves(r, item) = <<saved, answered, kept>> /\ Perform(ResponseSaves(r, item), item)
  BY DEF ResponseSaves, RecordRfiResponse
<1> HIDE DEF item
<1>3. /\ DocumentOK(saved) /\ item \in saved.evidence /\ siteDocument.evidence \subseteq saved.evidence
      /\ saved.memory = siteDocument.memory /\ saved.rfis = siteDocument.rfis
  BY <1>1, WithEvidenceOK
<1> HIDE DEF saved
<1>4. /\ DocumentOK(answered) /\ answered.evidence = saved.evidence
      /\ answered.memory = saved.memory /\ answered.rfis[r].status = "RESPONSE_RECEIVED"
      /\ \A q \in Rfis : q # r => answered.rfis[q] = saved.rfis[q]
  <2>1. saved.rfis[r].status = "SENT"
    BY <1>1, <1>3
  <2> QED
    BY <1>3, <2>1, AnsweredOK
<1> HIDE DEF answered
<1>5. /\ DocumentOK(kept) /\ kept.evidence = answered.evidence
      /\ kept.memory = answered.memory \cup {item} /\ kept.rfis = answered.rfis
  <2>1. item \in answered.evidence
    BY <1>3, <1>4
  <2> QED
    BY <1>4, <2>1, WithMemoryOK
<1> HIDE DEF kept
<1>6. Improves(saved, item)
  BY <1>3 DEF Improves
<1>7. \A q \in Rfis : answered.rfis[q] = siteDocument.rfis[q]
                       \/ Rank(siteDocument.rfis[q]) <= Rank(answered.rfis[q])
  <2> TAKE q \in Rfis
  <2>1. CASE q = r
    <3>1. Rank(siteDocument.rfis[r]) = 4 /\ Rank(answered.rfis[r]) = 5
      BY <1>1, <1>4, RankFacts
    <3> QED
      BY <2>1, <3>1
  <2>2. CASE q # r
    BY <1>3, <1>4, <2>2
  <2> QED
    BY <2>1, <2>2
<1>8. Improves(answered, item)
  BY <1>3, <1>4, <1>7 DEF Improves
<1>9. Improves(kept, item)
  BY <1>3, <1>4, <1>5, <1>7 DEF Improves
<1> DEFINE stored == <<saved, answered, kept>>
<1>10. /\ DOMAIN stored = 1..3 /\ Len(stored) = 3
       /\ stored[1] = saved /\ stored[2] = answered /\ stored[3] = kept
  OBVIOUS
<1>11. Perform(stored, item)
  BY <1>2
<1> HIDE DEF stored
<1>12. Len(stored) \in DOMAIN stored /\ \A i \in DOMAIN stored : i = 1 \/ i = 2 \/ i = 3
  BY <1>10
<1>13. \A i \in DOMAIN stored : Improves(stored[i], item)
  BY <1>6, <1>8, <1>9, <1>10, <1>12
<1> QED
  BY <1>1, <1>11, <1>12, <1>13, PerformStep

-------------------------------------------------------------------------------
(* Whoever awaits holds a copy of a document that was stored.              *)
LEMMA HeldFacts ==
    ASSUME SiteInv, NEW w \in Waiters
    PROVE  /\ waiting[w] = Idle \/ waiting[w] \in HeldCopy
           /\ waiting[w].op = "await" =>
                /\ waiting[w] # Idle /\ DocumentOK(waiting[w].copy) /\ waiting[w].copy \in Document
                /\ deaths = 0 => InGraph(waiting[w].copy)
<1>1. waiting[w] = Idle \/ waiting[w] \in HeldCopy
  BY DEF SiteInv
<1>2. waiting[w].op = "await" => waiting[w] # Idle
  BY DEF Idle
<1> QED
  BY <1>1, <1>2 DEF SiteInv, DocumentOK

LEMMA AwaitStep ==
    ASSUME SiteInv, NEW w \in Waiters, Await(w)
    PROVE  SiteInv' /\ LossIsToOldCopy
<1> DEFINE held == [op |-> "await", copy |-> siteDocument]
<1>1. held \in HeldCopy /\ held.copy = siteDocument /\ DocumentOK(siteDocument)
  BY DEF HeldCopy, SiteInv, DocumentOK
<1>2. /\ waiting' = [waiting EXCEPT ![w] = held] /\ siteDocument' = siteDocument
      /\ graphMemory' = graphMemory /\ deaths' = deaths /\ snapshots' = snapshots
  BY DEF Await
<1> HIDE DEF held
<1>3. waiting' \in [Waiters -> {Idle} \cup HeldCopy]
  BY <1>1, <1>2 DEF SiteInv
<1>4. \A v \in Waiters : waiting'[v] = IF v = w THEN held ELSE waiting[v]
  BY <1>2 DEF SiteInv
<1>5. SiteInv'
  BY <1>1, <1>2, <1>3, <1>4 DEF SiteInv, InGraph, DocumentOK
<1>6. LossIsToOldCopy
  BY <1>1, <1>2, NothingLost
<1> QED
  BY <1>5, <1>6

(* A wait that ends with its copy, or nothing, saved.                      *)
LEMMA WaitEnds ==
    ASSUME SiteInv, NEW w \in Waiters, waiting' = [waiting EXCEPT ![w] = Idle],
           DocumentOK(siteDocument'), deaths = 0 => InGraph(siteDocument)',
           graphMemory' = graphMemory, deaths' = deaths, snapshots' \in Nat
    PROVE  SiteInv'
<1>1. waiting' \in [Waiters -> {Idle} \cup HeldCopy]
  BY DEF SiteInv
<1>2. \A v \in Waiters : waiting'[v] = IF v = w THEN Idle ELSE waiting[v]
  BY DEF SiteInv
<1>3. \A v \in Waiters : waiting'[v] # Idle => DocumentOK(waiting'[v].copy)
  BY <1>2 DEF SiteInv
<1>4. deaths = 0 => \A v \in Waiters : waiting'[v] # Idle => InGraph(waiting[v].copy)'
  BY <1>2 DEF SiteInv, InGraph
<1> QED
  BY <1>1, <1>3, <1>4 DEF SiteInv

(* An old copy saved explains what is lost; the document's own loses none. *)
LEMMA CopySaved ==
    ASSUME SiteInv, NEW w \in Waiters, waiting[w].op = "await",
           NEW snapshot \in Nat, siteDocument' = [waiting[w].copy EXCEPT !.snapshot = snapshot],
           waiting' = [waiting EXCEPT ![w] = Idle]
    PROVE  /\ DocumentOK(siteDocument') /\ siteDocument'.memory = waiting[w].copy.memory
           /\ LossIsToOldCopy
<1> DEFINE copy == waiting[w].copy
<1>1. copy \in Document /\ DocumentOK(copy) /\ waiting[w] # Idle
  BY HeldFacts
<1>2. /\ siteDocument' = [copy EXCEPT !.snapshot = snapshot]
      /\ waiting'[w] = Idle
  BY DEF SiteInv
<1>3. /\ siteDocument' \in Document /\ siteDocument'.rfis = copy.rfis /\ siteDocument'.evidence = copy.evidence
      /\ siteDocument'.memory = copy.memory /\ siteDocument'.snapshot = snapshot
  BY <1>1, <1>2 DEF Document
<1>4. DocumentOK(siteDocument')
  BY <1>1, <1>3 DEF DocumentOK
<1>5. CASE copy = siteDocument
  <2>1. siteDocument.evidence \subseteq siteDocument'.evidence
    BY <1>3, <1>5
  <2>2. \A q \in Rfis : siteDocument'.rfis[q] = siteDocument.rfis[q]
    BY <1>3, <1>5
  <2> QED
    BY <1>3, <1>4, <2>1, <2>2, NothingLost
<1>6. CASE copy # siteDocument
  <2>1. siteDocument' = [copy EXCEPT !.snapshot = siteDocument'.snapshot]
    BY <1>2, <1>3
  <2>2. /\ waiting[w] /= Idle /\ waiting'[w] = Idle
        /\ waiting[w].copy /= siteDocument
        /\ siteDocument' = [waiting[w].copy EXCEPT !.snapshot = siteDocument'.snapshot]
    BY <1>1, <1>2, <1>6, <2>1
  <2> HIDE DEF copy
  <2>3. LossIsToOldCopy
    BY <2>2 DEF LossIsToOldCopy
  <2> QED
    BY <1>3, <1>4, <2>3 DEF copy
<1> QED
  BY <1>5, <1>6

LEMMA SaveAnswerStep ==
    ASSUME SiteInv, NEW w \in Waiters, SaveAnswer(w)
    PROVE  SiteInv' /\ LossIsToOldCopy
<1>1. /\ waiting[w].op = "await" /\ siteDocument' = waiting[w].copy
      /\ waiting' = [waiting EXCEPT ![w] = Idle]
      /\ graphMemory' = graphMemory /\ deaths' = deaths /\ snapshots' = snapshots
  BY DEF SaveAnswer
<1>2. deaths = 0 => InGraph(waiting[w].copy)
  BY <1>1, HeldFacts
<1>3. waiting[w].copy \in Document
  BY <1>1, HeldFacts
<1> DEFINE snapshot == waiting[w].copy.snapshot
<1>4. snapshot \in Nat /\ siteDocument' = [waiting[w].copy EXCEPT !.snapshot = snapshot]
  BY <1>1, <1>3 DEF Document
<1> HIDE DEF snapshot
<1>5. DocumentOK(siteDocument') /\ siteDocument'.memory = waiting[w].copy.memory /\ LossIsToOldCopy
  BY <1>1, <1>4, CopySaved
<1>6. deaths = 0 => InGraph(siteDocument)'
  BY <1>1, <1>2, <1>3, <1>5 DEF InGraph
<1>7. snapshots' \in Nat
  BY <1>1 DEF SiteInv
<1> QED
  BY <1>1, <1>5, <1>6, <1>7, WaitEnds

LEMMA SaveRefreshStep ==
    ASSUME SiteInv, NEW w \in Waiters, SaveRefresh(w)
    PROVE  SiteInv' /\ LossIsToOldCopy
<1>1. /\ waiting[w].op = "await" /\ snapshots' = snapshots + 1
      /\ graphMemory' = graphMemory
  BY DEF SaveRefresh
<1>2. snapshots' \in Nat
  BY <1>1 DEF SiteInv
<1>3. CASE /\ siteDocument' = [waiting[w].copy EXCEPT !.snapshot = snapshots']
           /\ waiting' = [waiting EXCEPT ![w] = Idle] /\ deaths' = deaths
  <2>1. DocumentOK(siteDocument') /\ siteDocument'.memory = waiting[w].copy.memory /\ LossIsToOldCopy
    BY <1>1, <1>2, <1>3, CopySaved
  <2>2. deaths = 0 => InGraph(waiting[w].copy)
    BY <1>1, HeldFacts
  <2>3. deaths = 0 => InGraph(siteDocument)'
    BY <1>1, <2>1, <2>2 DEF InGraph
  <2> QED
    BY <1>1, <1>2, <1>3, <2>1, <2>3, WaitEnds
<1>4. CASE /\ deaths' = deaths + 1 /\ waiting' = [v \in Waiters |-> Idle] /\ siteDocument' = siteDocument
  <2>1. DocumentOK(siteDocument') /\ siteDocument' = siteDocument
    BY <1>4 DEF SiteInv
  <2>2. deaths' \in Nat /\ deaths' # 0
    BY <1>4 DEF SiteInv
  <2>3. waiting' \in [Waiters -> {Idle} \cup HeldCopy] /\ \A v \in Waiters : waiting'[v] = Idle
    BY <1>4
  <2>4. SiteInv'
    BY <1>2, <2>1, <2>2, <2>3 DEF SiteInv
  <2>5. LossIsToOldCopy
    BY <2>1, NothingLost
  <2> QED
    BY <2>4, <2>5
<1> QED
  BY <1>3, <1>4 DEF SaveRefresh

LEMMA GiveUpStep ==
    ASSUME SiteInv, NEW w \in Waiters, GiveUp(w)
    PROVE  SiteInv' /\ LossIsToOldCopy
<1>1. /\ waiting' = [waiting EXCEPT ![w] = Idle] /\ siteDocument' = siteDocument
      /\ graphMemory' = graphMemory /\ deaths' = deaths /\ snapshots' = snapshots
  BY DEF GiveUp
<1>2. DocumentOK(siteDocument') /\ snapshots' \in Nat
  BY <1>1 DEF SiteInv
<1>3. deaths = 0 => InGraph(siteDocument)'
  BY <1>1 DEF SiteInv, InGraph
<1> QED
  BY <1>1, <1>2, <1>3, WaitEnds, NothingLost

-------------------------------------------------------------------------------
LEMMA SiteStarts == SiteInit => SiteInv
<1> SUFFICES ASSUME SiteInit PROVE SiteInv
  OBVIOUS
<1>1. NoRfi \in Rfi /\ RfiOK(NoRfi, {})
  BY DEF NoRfi, Rfi, Status, RfiOK
<1>2. /\ siteDocument = [rfis |-> [r \in Rfis |-> NoRfi], evidence |-> {}, memory |-> {}, snapshot |-> 0]
      /\ waiting = [w \in Waiters |-> Idle] /\ graphMemory = {} /\ snapshots = 0 /\ deaths = 0
  BY DEF SiteInit
<1>3. DocumentOK(siteDocument)
  BY <1>1, <1>2 DEF DocumentOK, Document
<1>4. InGraph(siteDocument) /\ \A w \in Waiters : waiting[w] = Idle
  BY <1>2 DEF InGraph
<1> QED
  BY <1>2, <1>3, <1>4 DEF SiteInv

LEMMA SiteKeeps ==
    ASSUME SiteInv, [SiteNext]_siteVars
    PROVE  SiteInv' /\ (LossIsToOldCopy \/ UNCHANGED siteVars)
<1>1. ASSUME NEW r \in Rfis,
             CreateRfiDraft(r) \/ UpdateRfiDraft(r) \/ ApproveRfi(r) \/ MarkRfiSent(r)
      PROVE  SiteInv' /\ LossIsToOldCopy
  BY <1>1, RfiStep
<1>2. ASSUME NEW r \in Rfis, NEW d \in Details, RecordRfiResponse(r, d)
      PROVE  SiteInv' /\ LossIsToOldCopy
  BY <1>2, ResponseStep
<1>3. ASSUME NEW d \in Details, AddUserEvidence(d) PROVE SiteInv' /\ LossIsToOldCopy
  BY <1>3, EvidenceStep
<1>4. ASSUME NEW w \in Waiters, Await(w)
      PROVE  SiteInv' /\ LossIsToOldCopy
  BY <1>4, AwaitStep
<1>5. ASSUME NEW w \in Waiters, SaveAnswer(w) PROVE SiteInv' /\ LossIsToOldCopy
  BY <1>5, SaveAnswerStep
<1>6. ASSUME NEW w \in Waiters, SaveRefresh(w) PROVE SiteInv' /\ LossIsToOldCopy
  BY <1>6, SaveRefreshStep
<1>7. ASSUME NEW w \in Waiters, GiveUp(w) PROVE SiteInv' /\ LossIsToOldCopy
  BY <1>7, GiveUpStep
<1>8. CASE UNCHANGED siteVars
  BY <1>8 DEF siteVars, SiteInv, InGraph, DocumentOK, RfiOK
<1> QED
  BY <1>1, <1>2, <1>3, <1>4, <1>5, <1>6, <1>7, <1>8 DEF SiteNext

(* What the invariant says of a request, step by step.                     *)
LEMMA RequestsAgree == SiteInv => RequestsAreInOrder
<1> SUFFICES ASSUME SiteInv, NEW r \in Rfis
             PROVE  LET rfi == siteDocument.rfis[r] IN
                      /\ Rank(rfi) >= 3 => rfi.approved /\ rfi.contact
                      /\ rfi.approved => Rank(rfi) >= 3
                      /\ rfi.answer /= Nothing <=> rfi.status = "RESPONSE_RECEIVED"
                      /\ rfi.answer /= Nothing => rfi.answer \in siteDocument.evidence
  BY DEF RequestsAreInOrder
<1> DEFINE rfi == siteDocument.rfis[r]
<1>1. rfi.status \in Status /\ RfiOK(rfi, siteDocument.evidence)
  BY DEF SiteInv, DocumentOK, Document, Rfi
<1> HIDE DEF rfi
<1>2. Rank(rfi) >= 3 <=> rfi.status \in {"APPROVED", "SENT", "RESPONSE_RECEIVED"}
  BY <1>1, RankFacts DEF Status
<1>3. /\ Rank(rfi) >= 3 => rfi.approved /\ rfi.contact
      /\ rfi.approved => Rank(rfi) >= 3
      /\ rfi.answer /= Nothing <=> rfi.status = "RESPONSE_RECEIVED"
      /\ rfi.answer /= Nothing => rfi.answer \in siteDocument.evidence
  BY <1>1, <1>2 DEF RfiOK
<1> QED
  BY <1>3 DEF rfi

LEMMA MemoryAgrees == SiteInv => MemoryIsGrounded
BY DEF SiteInv, DocumentOK, InGraph, MemoryIsGrounded

-------------------------------------------------------------------------------
(* A snapshot is linked to the first if some snapshots before it, the first    *)
(* among them, are each made from an earlier one by a stored refresh.          *)
LinksTo(path, n, refreshes) ==
    /\ path \in SUBSET (0..n) /\ 0 \in path /\ n \in path
    /\ \A q \in path \ {0} : \E m \in path : m < q /\ <<m, q>> \in refreshes
Linked(n, refreshes) == \E path : LinksTo(path, n, refreshes)

SnapshotOK(doc, made, refreshes) == doc.snapshot \in 0..made /\ Linked(doc.snapshot, refreshes)
SnapshotInv ==
    /\ snapshots \in 0..MaxSnapshots
    /\ SnapshotOK(siteDocument, snapshots, siteChanges)
    /\ \A w \in Waiters : waiting[w] # Idle => SnapshotOK(waiting[w].copy, snapshots, siteChanges)

LEMMA LinkedFacts ==
    ASSUME NEW refreshes
    PROVE  /\ Linked(0, refreshes)
           /\ \A n \in Nat : \A m \in 0..n - 1 : <<m, n>> \in refreshes /\ Linked(m, refreshes) => Linked(n, refreshes)
           /\ \A n \in Nat \ {0} : Linked(n, refreshes) => \E m \in 0..n - 1 : <<m, n>> \in refreshes /\ Linked(m, refreshes)
<1>1. Linked(0, refreshes)
  <2>1. LinksTo({0}, 0, refreshes)
    BY DEF LinksTo
  <2> QED BY <2>1 DEF Linked
<1>2. ASSUME NEW n \in Nat, NEW m \in 0..n - 1, <<m, n>> \in refreshes, Linked(m, refreshes) PROVE Linked(n, refreshes)
  <2>1. PICK path : LinksTo(path, m, refreshes)
    BY <1>2 DEF Linked
  <2>2. m \in Nat /\ m < n /\ path \in SUBSET (0..m) /\ 0 \in path /\ m \in path
    BY <1>2, <2>1 DEF LinksTo
  <2>3. path \cup {n} \in SUBSET (0..n)
    BY <2>2
  <2>4. \A q \in (path \cup {n}) \ {0} : \E p \in path \cup {n} : p < q /\ <<p, q>> \in refreshes
    BY <1>2, <2>1, <2>2 DEF LinksTo
  <2>5. LinksTo(path \cup {n}, n, refreshes)
    BY <2>2, <2>3, <2>4 DEF LinksTo
  <2> QED BY <2>5 DEF Linked
<1>3. ASSUME NEW n \in Nat \ {0}, Linked(n, refreshes)
      PROVE  \E m \in 0..n - 1 : <<m, n>> \in refreshes /\ Linked(m, refreshes)
  <2>1. PICK path : LinksTo(path, n, refreshes)
    BY <1>3 DEF Linked
  <2>2. PICK m \in path : m < n /\ <<m, n>> \in refreshes
    BY <2>1 DEF LinksTo
  <2>3. path \in SUBSET (0..n) /\ 0 \in path /\ m \in Nat /\ m \in 0..n - 1
    BY <2>1, <2>2 DEF LinksTo
  <2> DEFINE before == path \cap 0..m
  <2>4. before \in SUBSET (0..m) /\ 0 \in before /\ m \in before
    BY <2>2, <2>3
  <2>5. \A q \in before \ {0} : \E p \in before : p < q /\ <<p, q>> \in refreshes
    <3> TAKE q \in before \ {0}
    <3>1. PICK p \in path : p < q /\ <<p, q>> \in refreshes
      BY <2>1 DEF LinksTo
    <3>2. p \in 0..n /\ q \in 0..m
      BY <2>3
    <3>3. p \in before
      BY <2>3, <3>1, <3>2
    <3> QED BY <3>1, <3>3
  <2> HIDE DEF before
  <2>6. LinksTo(before, m, refreshes)
    BY <2>4, <2>5 DEF LinksTo
  <2> QED BY <2>2, <2>3, <2>6 DEF Linked
<1> QED BY <1>1, <1>2, <1>3

\* A snapshot that is linked is reached, whatever order the links are read in.
LEMMA LinkedIsReached == SnapshotInv => SnapshotIsExplained
<1> SUFFICES ASSUME SnapshotInv PROVE SnapshotIsExplained
  OBVIOUS
<1> DEFINE F(R) == [n \in 0..MaxSnapshots |->
                      n = 0 \/ \E m \in 0..n - 1 : <<m, n>> \in siteChanges /\ R[m]]
           Reached == CHOOSE R : R = F(R)
           links == [n \in 0..MaxSnapshots |-> Linked(n, siteChanges)]
<1>1. links = F(links)
  <2>1. \A n \in 0..MaxSnapshots :
          Linked(n, siteChanges) <=> n = 0 \/ \E m \in 0..n - 1 : <<m, n>> \in siteChanges /\ Linked(m, siteChanges)
    <3> TAKE n \in 0..MaxSnapshots
    <3>1. n = 0 \/ n \in Nat \ {0}
      BY SiteAssumption
    <3>2. n \in Nat
      BY <3>1
    <3> QED BY <3>1, <3>2, LinkedFacts, Zenon
  <2>2. \A n \in 0..MaxSnapshots : \A m \in 0..n - 1 : m \in 0..MaxSnapshots
    BY SiteAssumption
  <2>3. \A n \in 0..MaxSnapshots : \A m \in 0..n - 1 : links[m] = Linked(m, siteChanges)
    BY <2>2, Zenon
  <2> HIDE DEF links
  <2>4. \A n \in 0..MaxSnapshots :
          Linked(n, siteChanges) = (n = 0 \/ \E m \in 0..n - 1 : <<m, n>> \in siteChanges /\ links[m])
    <3> TAKE n \in 0..MaxSnapshots
    <3>1. Linked(n, siteChanges) <=> n = 0 \/ \E m \in 0..n - 1 : <<m, n>> \in siteChanges /\ links[m]
      BY <2>1, <2>3, Zenon
    <3>2. Linked(n, siteChanges) \in BOOLEAN
      BY DEF Linked
    <3> QED BY <3>1, <3>2, Zenon
  <2> QED BY <2>4, Zenon DEF links
<1>2. Reached = F(Reached)
  <2> HIDE DEF F, links
  <2> QED BY <1>1
<1>3. SnapshotIsExplained <=> Reached[siteDocument.snapshot]
  BY DEF SnapshotIsExplained
<1> HIDE DEF Reached
<1>4. \A n \in 0..MaxSnapshots :
        Reached[n] <=> n = 0 \/ \E m \in 0..n - 1 : <<m, n>> \in siteChanges /\ Reached[m]
  BY <1>2
<1>5. PICK path : LinksTo(path, siteDocument.snapshot, siteChanges)
  BY DEF SnapshotInv, SnapshotOK, Linked
<1>6. path \subseteq 0..MaxSnapshots /\ 0 \in path /\ siteDocument.snapshot \in path
  BY <1>5, SiteAssumption DEF LinksTo, SnapshotInv, SnapshotOK
<1>7. SUFFICES ASSUME ~Reached[siteDocument.snapshot] PROVE FALSE
  BY <1>3
<1> DEFINE lost == {q \in path : ~Reached[q]}
<1>8. lost \subseteq Nat /\ lost # {}
  <2>1. path \subseteq Nat
    BY <1>6, SiteAssumption
  <2>2. lost \subseteq path
    BY Zenon
  <2>3. siteDocument.snapshot \in lost
    BY <1>6, <1>7, Zenon
  <2> QED BY <2>1, <2>2, <2>3, Zenon
<1> HIDE DEF lost
<1>9. PICK q \in lost : \A p \in lost : q <= p
  BY <1>8, MinOfNaturals
<1>10. q \in path /\ q \in 0..MaxSnapshots /\ q # 0 /\ ~Reached[q]
  BY <1>4, <1>6, <1>9, SiteAssumption DEF lost
<1>11. PICK m \in path : m < q /\ <<m, q>> \in siteChanges
  BY <1>5, <1>10 DEF LinksTo
<1>12. m \in 0..q - 1 /\ m \notin lost
  BY <1>6, <1>8, <1>9, <1>10, <1>11
<1>13. Reached[m]
  BY <1>11, <1>12 DEF lost
<1> QED BY <1>4, <1>10, <1>11, <1>12, <1>13

LEMMA SnapshotStarts == SiteInit => SnapshotInv
BY LinkedFacts, SiteAssumption DEF SiteInit, SnapshotInv, SnapshotOK

\* No other step makes a snapshot or takes a link away.
LEMMA OthersKeepSnapshots ==
    ASSUME SnapshotInv, siteDocument'.snapshot = siteDocument.snapshot \/ \E w \in Waiters : waiting[w] # Idle /\ siteDocument' = waiting[w].copy,
           \A w \in Waiters : waiting'[w] = Idle \/ waiting'[w] = waiting[w] \/ waiting'[w].copy = siteDocument,
           UNCHANGED <<siteChanges, snapshots>>
    PROVE  SnapshotInv'
BY DEF SnapshotInv, SnapshotOK

LEMMA SavesKeepSnapshot ==
    ASSUME DocumentOK(siteDocument), SnapshotInv, waiting \in [Waiters -> {Idle} \cup HeldCopy],
           NEW stored, NEW item, Perform(stored, item), Len(stored) \in DOMAIN stored,
           \A i \in DOMAIN stored : stored[i].snapshot = siteDocument.snapshot
    PROVE  SnapshotInv'
<1>1. siteDocument'.snapshot = siteDocument.snapshot /\ UNCHANGED <<siteChanges, snapshots>>
  BY DEF Perform
<1>2. \A w \in Waiters : waiting'[w] = Idle \/ waiting'[w] = waiting[w]
  BY DEF Perform
<1> QED BY <1>1, <1>2, OthersKeepSnapshots

LEMMA SnapshotStep ==
    ASSUME SiteInv, SnapshotInv, [SiteNext]_siteVars
    PROVE  SnapshotInv'
<1> USE DEF Changed
<1>1. siteDocument \in Document /\ waiting \in [Waiters -> {Idle} \cup HeldCopy] /\ DocumentOK(siteDocument)
  BY DEF SiteInv, DocumentOK
<1>2. ASSUME NEW r \in Rfis, CreateRfiDraft(r) \/ UpdateRfiDraft(r) \/ ApproveRfi(r) \/ MarkRfiSent(r)
      PROVE  SnapshotInv'
  <2>1. PICK rfi : SaveRfi(r, rfi)
    BY <1>2 DEF CreateRfiDraft, UpdateRfiDraft, ApproveRfi, MarkRfiSent
  <2>2. siteDocument'.snapshot = siteDocument.snapshot
    BY <1>1, <2>1 DEF SaveRfi, Document
  <2> QED BY <2>1, <2>2, OthersKeepSnapshots DEF SaveRfi
<1>3. ASSUME NEW d \in Details, AddUserEvidence(d) PROVE SnapshotInv'
  <2> DEFINE item == <<"user", d>>
             saved == WithEvidence(siteDocument, item)
             kept == WithMemory(saved, item)
  <2>1. saved.snapshot = siteDocument.snapshot /\ kept.snapshot = siteDocument.snapshot
    BY <1>1 DEF WithEvidence, WithMemory, Document
  <2> HIDE DEF saved, kept
  <2>2. PICK stored : stored = <<saved, kept>>
    OBVIOUS
  <2>3. Perform(stored, item)
    BY <1>3, <2>2 DEF AddUserEvidence, EvidenceSaves, saved, kept
  <2>4. Len(stored) \in DOMAIN stored /\ \A i \in DOMAIN stored : stored[i].snapshot = siteDocument.snapshot
    BY <2>1, <2>2
  <2> QED BY <1>1, <2>3, <2>4, SavesKeepSnapshot
<1>4. ASSUME NEW r \in Rfis, NEW d \in Details, RecordRfiResponse(r, d) PROVE SnapshotInv'
  <2> DEFINE item == <<r, d>>
             saved == WithEvidence(siteDocument, item)
             answered == Answered(saved, r, item)
             kept == WithMemory(answered, item)
  <2>1. /\ saved.snapshot = siteDocument.snapshot /\ answered.snapshot = siteDocument.snapshot
        /\ kept.snapshot = siteDocument.snapshot
    BY <1>1 DEF WithEvidence, WithMemory, Answered, Document
  <2> HIDE DEF saved, answered, kept
  <2>2. PICK stored : stored = <<saved, answered, kept>>
    OBVIOUS
  <2>3. Perform(stored, item)
    BY <1>4, <2>2 DEF RecordRfiResponse, ResponseSaves, saved, answered, kept
  <2>4. Len(stored) \in DOMAIN stored /\ \A i \in DOMAIN stored : stored[i].snapshot = siteDocument.snapshot
    BY <2>1, <2>2
  <2> QED BY <1>1, <2>3, <2>4, SavesKeepSnapshot
<1>5. ASSUME NEW w \in Waiters, Await(w) PROVE SnapshotInv'
  <2>1. \A v \in Waiters : waiting'[v] = waiting[v] \/ waiting'[v].copy = siteDocument
    BY <1>1, <1>5 DEF Await
  <2> QED BY <1>5, <2>1, OthersKeepSnapshots DEF Await
<1>6. ASSUME NEW w \in Waiters, SaveAnswer(w) \/ GiveUp(w) PROVE SnapshotInv'
  <2>1. \A v \in Waiters : waiting'[v] = Idle \/ waiting'[v] = waiting[v]
    BY <1>1, <1>6 DEF SaveAnswer, GiveUp
  <2>2. UNCHANGED <<siteChanges, snapshots>>
    BY <1>6 DEF SaveAnswer, GiveUp
  <2>3. siteDocument' = siteDocument \/ (waiting[w] # Idle /\ siteDocument' = waiting[w].copy)
    BY <1>6 DEF SaveAnswer, GiveUp, Idle
  <2> QED BY <2>1, <2>2, <2>3, OthersKeepSnapshots
<1>7. ASSUME NEW w \in Waiters, SaveRefresh(w) PROVE SnapshotInv'
  <2> DEFINE m == waiting[w].copy.snapshot
  <2>1. /\ waiting[w].op = "await" /\ waiting[w] # Idle /\ snapshots < MaxSnapshots /\ snapshots' = snapshots + 1
        /\ siteChanges' = siteChanges \cup {<<m, snapshots'>>}
    BY <1>7 DEF SaveRefresh, RecordedRefresh, Idle
  <2>2. snapshots \in Nat /\ snapshots' \in 0..MaxSnapshots
    BY <2>1, SiteAssumption DEF SnapshotInv
  <2>3. m \in 0..snapshots /\ Linked(m, siteChanges)
    BY <2>1 DEF SnapshotInv, SnapshotOK
  <2> HIDE DEF m
  <2>4. \A n : Linked(n, siteChanges) => Linked(n, siteChanges')
    BY <2>1 DEF Linked, LinksTo
  <2>5. Linked(snapshots', siteChanges')
    <3>1. m \in 0..snapshots' - 1 /\ snapshots' \in Nat /\ <<m, snapshots'>> \in siteChanges'
      BY <2>1, <2>2, <2>3
    <3> QED BY <2>3, <2>4, <3>1, LinkedFacts
  <2>6. \A n \in 0..snapshots : n \in 0..snapshots'
    BY <2>1, <2>2
  <2>7. \A doc : SnapshotOK(doc, snapshots, siteChanges) => SnapshotOK(doc, snapshots', siteChanges')
    BY <2>4, <2>6 DEF SnapshotOK
  <2>8. siteDocument' = siteDocument \/ siteDocument' = [waiting[w].copy EXCEPT !.snapshot = snapshots']
    BY <1>7 DEF SaveRefresh
  <2>9. siteDocument'.snapshot = snapshots' \/ siteDocument' = siteDocument
    <3>1. waiting[w].copy \in Document
      BY <2>1, HeldFacts
    <3> QED BY <2>8, <3>1 DEF Document
  <2>10. SnapshotOK(siteDocument', snapshots', siteChanges')
    <3>1. snapshots' \in 0..snapshots'
      BY <2>2
    <3> QED BY <2>5, <2>7, <2>9, <3>1 DEF SnapshotOK, SnapshotInv
  <2>11. \A v \in Waiters : waiting'[v] = Idle \/ waiting'[v] = waiting[v]
    BY <1>1, <1>7 DEF SaveRefresh
  <2> QED BY <2>2, <2>7, <2>10, <2>11 DEF SnapshotInv
<1>8. CASE UNCHANGED siteVars
  BY <1>8 DEF siteVars, SnapshotInv
<1> QED BY <1>2, <1>3, <1>4, <1>5, <1>6, <1>7, <1>8 DEF SiteNext

-------------------------------------------------------------------------------
LEMMA SiteInvariance == SiteSpec => [](SiteInv /\ SnapshotInv)
<1>1. SiteInit => SiteInv /\ SnapshotInv
  BY SiteStarts, SnapshotStarts
<1>2. (SiteInv /\ SnapshotInv) /\ [SiteNext]_siteVars => (SiteInv /\ SnapshotInv)'
  BY SiteKeeps, SnapshotStep
<1> QED
  BY <1>1, <1>2, PTL DEF SiteSpec

(* Whatever is lost or saved over, a request is sent only after a person   *)
(* has approved it for a known recipient, and answered only by evidence    *)
(* that is stored.                                                         *)
THEOREM InOrder == SiteSpec => []RequestsAreInOrder
BY SiteInvariance, RequestsAgree, PTL

(* What the document remembers is evidence it has, and as long as the      *)
(* process has not died the graph has it too.                              *)
THEOREM Grounded == SiteSpec => []MemoryIsGrounded
BY SiteInvariance, MemoryAgrees, PTL

(* The snapshot of the candidate, and so of every copy that may still be   *)
(* saved, is reached from the first by refreshes whose changes are stored. *)
THEOREM Explained == SiteSpec => []SnapshotIsExplained
BY SiteInvariance, LinkedIsReached, PTL

(* A request goes back, or evidence is lost, only when a handler saves a   *)
(* copy that is older than the document.                                   *)
THEOREM LostToCopies == SiteSpec => [][LossIsToOldCopy]_siteVars
<1>1. (SiteInv /\ SnapshotInv) /\ [SiteNext]_siteVars => [LossIsToOldCopy]_siteVars
  BY SiteKeeps
<1> QED
  BY <1>1, SiteInvariance, PTL DEF SiteSpec

-------------------------------------------------------------------------------
(* The claims about a requirement.                                         *)
GraphDocuments == [snapshot : Int, outcome : {"PASS", "UNRESOLVED"},
              evidence : SUBSET Evidence, unsupported : BOOLEAN]
Reader == [op : {"read", "query"}, copy : GraphDocuments, alone : BOOLEAN, known : SUBSET Evidence]

ReadinessIn(cs) == {c \in ActiveIn(cs) : c.predicate = "has_readiness"}

(* A query under way: the readiness claims it will find rest on nothing    *)
(* that had changed, and while nobody else writes only its own is active.  *)
QueryOK(step) ==
    /\ step.known \subseteq graphChanges
    /\ step.op = "query" =>
         /\ \A c \in ReadinessIn(claims) : c.evidence \cap step.known = {}
         /\ step.alone => /\ ReadinessClaim(step.copy) \in DOMAIN claims
                          /\ ActiveIn(claims) \subseteq {ReadinessClaim(step.copy)}

OneOutcome == \A c, d \in ReadinessIn(claims) : c = d

GraphInv ==
    /\ graphDocument \in GraphDocuments /\ graphChanges \in SUBSET Evidence
    /\ busy = [p \in Processes |-> busy[p]]
    /\ \A p \in Processes : busy[p].op \in {"read", "query"} => busy[p] \in Reader /\ QueryOK(busy[p])
    /\ OneOutcome

-------------------------------------------------------------------------------
(* What a change of status leaves active.                                  *)
LEMMA WithStatusActive ==
    ASSUME NEW cs, NEW which, NEW status
    PROVE  /\ DOMAIN WithStatus(cs, which, status) = DOMAIN cs \cup which
           /\ status # "ACTIVE" => ActiveIn(WithStatus(cs, which, status)) = ActiveIn(cs) \ which
           /\ ActiveIn(WithStatus(cs, which, status)) \subseteq ActiveIn(cs) \cup which
BY DEF WithStatus, ActiveIn

(* A sync leaves the claim of its document, unless a change contests it.   *)
LEMMA SyncFacts ==
    ASSUME NEW d, SyncProject(d)
    PROVE  /\ ReadinessClaim(d) \in DOMAIN claims'
           /\ ActiveIn(claims') \subseteq {ReadinessClaim(d)}
           /\ \A c \in ActiveIn(claims') : c.evidence \cap graphChanges = {}
<1> DEFINE own == ReadinessClaim(d)
           upserted == WithStatus(claims, {own}, IF d.unsupported THEN "UNSUPPORTED" ELSE "ACTIVE")
           superseded == Superseded(upserted, own)
<1>1. claims' = Contested(superseded, graphChanges)
  BY DEF SyncProject
<1>2. own \in DOMAIN upserted
  BY DEF WithStatus
<1> HIDE DEF own, upserted
<1>3. DOMAIN superseded = DOMAIN upserted \cup (ActiveIn(upserted) \ {own})
  BY WithStatusActive DEF Superseded
<1>4. ActiveIn(superseded) = ActiveIn(upserted) \ (ActiveIn(upserted) \ {own})
  BY WithStatusActive DEF Superseded
<1> HIDE DEF superseded
<1> DEFINE hit == {c \in ActiveIn(superseded) : c.evidence \cap graphChanges /= {}}
<1>5. claims' = WithStatus(superseded, hit, "CONTESTED")
  BY <1>1 DEF Contested
<1> HIDE DEF hit
<1>6. DOMAIN claims' = DOMAIN superseded \cup hit /\ ActiveIn(claims') = ActiveIn(superseded) \ hit
  BY <1>5, WithStatusActive
<1>7. own \in DOMAIN claims' /\ ActiveIn(claims') \subseteq {own}
  BY <1>2, <1>3, <1>4, <1>6
<1>8. \A c \in ActiveIn(claims') : c.evidence \cap graphChanges = {}
  BY <1>6 DEF hit
<1> QED
  BY <1>7, <1>8 DEF own

(* An agent's claim is no readiness claim.                                 *)
LEMMA RecordFacts ==
    ASSUME NEW p, RecordValidatedClaim(p)
    PROVE  ReadinessIn(claims') \subseteq ReadinessIn(claims)
<1> DEFINE c == Assertion(busy[p].object)
           contested == WithStatus(claims, busy[p].conflicts, "CONTESTED")
           status == IF busy[p].conflicts = {} THEN "ACTIVE" ELSE "CONTESTED"
<1>1. claims' = contested \/ claims' = WithStatus(contested, {c}, status)
  BY DEF RecordValidatedClaim
<1>2. ActiveIn(contested) \subseteq ActiveIn(claims)
  BY DEF WithStatus, ActiveIn
<1>3. c.predicate = "asserts_outcome"
  BY DEF Assertion
<1> HIDE DEF c, contested, status
<1>4. ActiveIn(claims') \subseteq ActiveIn(contested) \cup {c}
  BY <1>1, WithStatusActive
<1> QED
  BY <1>2, <1>3, <1>4 DEF ReadinessIn

(* While p takes its step, who else reads is no longer alone.              *)
LEMMA ThenFacts ==
    ASSUME GraphInv, NEW p \in Processes, NEW step, Then(p, step)
    PROVE  /\ busy' = [q \in Processes |-> busy'[q]]
           /\ busy'[p] = step
           /\ \A q \in Processes : q # p /\ busy'[q].op \in {"read", "query"} =>
                /\ busy[q].op \in {"read", "query"} /\ busy'[q] \in Reader
                /\ busy'[q].op = busy[q].op /\ busy'[q].known = busy[q].known /\ ~busy'[q].alone
<1>1. /\ busy' = [q \in Processes |-> busy'[q]]
      /\ busy'[p] = step
      /\ \A q \in Processes : q # p =>
           busy'[q] = IF busy[q].op \in {"read", "query"} THEN [busy[q] EXCEPT !.alone = FALSE] ELSE busy[q]
  BY DEF Then
<1>2. ASSUME NEW q \in Processes, q # p, busy'[q].op \in {"read", "query"}
      PROVE  /\ busy[q].op \in {"read", "query"} /\ busy'[q] \in Reader
             /\ busy'[q].op = busy[q].op /\ busy'[q].known = busy[q].known /\ ~busy'[q].alone
  <2>1. busy[q].op \in {"read", "query"}
    BY <1>1, <1>2
  <2>2. busy[q] \in Reader /\ busy'[q] = [busy[q] EXCEPT !.alone = FALSE]
    BY <1>1, <1>2, <2>1 DEF GraphInv
  <2> QED
    BY <2>1, <2>2 DEF Reader
<1> QED
  BY <1>1, <1>2

(* Every step that is announced to the others.                             *)
LEMMA AnnouncedStep ==
    ASSUME GraphInv, NEW p \in Processes, NEW step, Then(p, step),
           graphDocument' \in GraphDocuments, graphChanges \subseteq graphChanges', graphChanges' \in SUBSET Evidence,
           OneOutcome',
           \A c \in ReadinessIn(claims') : c \in ReadinessIn(claims) \/ c.evidence \cap graphChanges = {},
           busy'[p].op \in {"read", "query"} => busy'[p] \in Reader /\ QueryOK(busy[p])'
    PROVE  GraphInv'
<1>1. /\ busy' = [q \in Processes |-> busy'[q]]
      /\ \A q \in Processes : q # p /\ busy'[q].op \in {"read", "query"} =>
           /\ busy[q].op \in {"read", "query"} /\ busy'[q] \in Reader
           /\ busy'[q].op = busy[q].op /\ busy'[q].known = busy[q].known /\ ~busy'[q].alone
  BY ThenFacts
<1>2. ASSUME NEW q \in Processes, busy'[q].op \in {"read", "query"}, q # p
      PROVE  busy'[q] \in Reader /\ QueryOK(busy[q])'
  <2>1. /\ busy[q].op \in {"read", "query"} /\ busy'[q] \in Reader
        /\ busy'[q].op = busy[q].op /\ busy'[q].known = busy[q].known /\ ~busy'[q].alone
    BY <1>1, <1>2
  <2>2. busy[q].known \subseteq graphChanges
        /\ (busy[q].op = "query" => \A c \in ReadinessIn(claims) : c.evidence \cap busy[q].known = {})
    BY <2>1 DEF GraphInv, QueryOK
  <2>3. busy'[q].known \subseteq graphChanges'
    BY <2>1, <2>2
  <2>4. busy'[q].op = "query" => \A c \in ReadinessIn(claims') : c.evidence \cap busy'[q].known = {}
    BY <2>1, <2>2
  <2> QED
    BY <2>1, <2>3, <2>4 DEF QueryOK
<1> QED
  BY <1>1, <1>2 DEF GraphInv

(* A step of one process that writes nothing the others see.               *)
LEMMA QuietStep ==
    ASSUME GraphInv, NEW p \in Processes, NEW step, busy' = [busy EXCEPT ![p] = step],
           UNCHANGED <<graphDocument, graphChanges, claims>>,
           step.op \in {"read", "query"} => step \in Reader /\ step.op = "read" /\ step.known = graphChanges
    PROVE  GraphInv'
<1>1. busy' = [q \in Processes |-> busy'[q]] /\ \A q \in Processes : busy'[q] = IF q = p THEN step ELSE busy[q]
  BY DEF GraphInv
<1>2. ASSUME NEW q \in Processes, busy'[q].op \in {"read", "query"}
      PROVE  busy'[q] \in Reader /\ QueryOK(busy[q])'
  <2>1. CASE q = p
    BY <1>1, <1>2, <2>1 DEF QueryOK
  <2>2. CASE q # p
    BY <1>1, <1>2, <2>2 DEF QueryOK, GraphInv
  <2> QED
    BY <2>1, <2>2
<1>3. OneOutcome'
  BY DEF GraphInv, OneOutcome
<1> QED
  BY <1>1, <1>2, <1>3 DEF GraphInv

-------------------------------------------------------------------------------
(* The documents that are saved.                                           *)
LEMMA CoveragesAreDocuments ==
    ASSUME NEW s \in Int, NEW d \in Coverages(s)
    PROVE  d \in GraphDocuments
BY DEF Coverages, GraphDocuments

LEMMA ClaimsKept ==
    ASSUME GraphInv, claims' = claims
    PROVE  OneOutcome' /\ \A c \in ReadinessIn(claims') : c \in ReadinessIn(claims)
BY DEF GraphInv, OneOutcome

LEMMA SyncedOne ==
    ASSUME NEW d, SyncProject(d)
    PROVE  OneOutcome' /\ \A c \in ReadinessIn(claims') : c.evidence \cap graphChanges = {}
<1>1. /\ ActiveIn(claims') \subseteq {ReadinessClaim(d)}
      /\ \A c \in ActiveIn(claims') : c.evidence \cap graphChanges = {}
  BY SyncFacts
<1> QED
  BY <1>1 DEF OneOutcome, ReadinessIn

LEMMA GraphNextKeeps ==
    ASSUME GraphInv, GraphNext
    PROVE  GraphInv'
<1> PICK p \in Processes :
      \/ SaveProject(p) \/ SaveRefreshed(p)
      \/ \E evidence \in SUBSET Evidence : SaveChanges(p, evidence)
      \/ SyncSaved(p) \/ ReadProject(p) \/ SyncRead(p) \/ FindClaims(p) \/ ProcessEnds(p)
      \/ RecordValidatedClaim(p)
      \/ p \in Agents /\ \E object \in {"PASS", "UNRESOLVED"} : FindConflicts(p, object)
  BY DEF GraphNext
<1>0. graphDocument \in GraphDocuments /\ graphDocument.snapshot \in Int /\ graphChanges \in SUBSET Evidence
  BY DEF GraphInv, GraphDocuments
<1>1. CASE SaveProject(p)
  <2>1. PICK d \in Coverages(graphDocument.snapshot) :
          graphDocument' = d /\ graphChanges' = graphChanges /\ claims' = claims /\ Then(p, [op |-> "save", copy |-> d])
    BY <1>1 DEF SaveProject
  <2>2. busy'[p].op = "save" /\ graphDocument' \in GraphDocuments
    BY <1>0, <2>1, ThenFacts, CoveragesAreDocuments
  <2> QED
    BY <1>0, <2>1, <2>2, ClaimsKept, AnnouncedStep
<1>2. ASSUME NEW evidence \in SUBSET Evidence, SaveChanges(p, evidence) PROVE GraphInv'
  <2>1. /\ graphDocument' = graphDocument /\ graphChanges' = graphChanges \cup evidence /\ claims' = claims
        /\ Then(p, [op |-> "refresh", snapshot |-> graphDocument.snapshot + 1])
    BY <1>2 DEF SaveChanges
  <2>2. busy'[p].op = "refresh"
    BY <2>1, ThenFacts
  <2>3. graphChanges \subseteq graphChanges' /\ graphChanges' \in SUBSET Evidence
    BY <1>0, <2>1
  <2> QED
    BY <1>0, <2>1, <2>2, <2>3, ClaimsKept, AnnouncedStep
<1>3. CASE SaveRefreshed(p)
  <2>0. PICK s \in 2..LastSnapshot :
          /\ \E d \in Coverages(s) : graphDocument' = d /\ Then(p, [op |-> "save", copy |-> d])
          /\ graphChanges' = graphChanges /\ claims' = claims
    BY <1>3 DEF SaveRefreshed
  <2>1. PICK d \in Coverages(s) :
          graphDocument' = d /\ graphChanges' = graphChanges /\ claims' = claims /\ Then(p, [op |-> "save", copy |-> d])
    BY <2>0
  <2>2. busy'[p].op = "save" /\ graphDocument' \in GraphDocuments
    BY <2>1, ThenFacts, CoveragesAreDocuments
  <2> QED
    BY <1>0, <2>1, <2>2, ClaimsKept, AnnouncedStep
<1>4. CASE SyncSaved(p)
  <2>1. SyncProject(busy[p].copy) /\ Then(p, AtRest) /\ graphDocument' = graphDocument /\ graphChanges' = graphChanges
    BY <1>4 DEF SyncSaved
  <2>2. busy'[p].op = "rest"
    BY <2>1, ThenFacts DEF AtRest
  <2>3. OneOutcome' /\ \A c \in ReadinessIn(claims') : c.evidence \cap graphChanges = {}
    BY <2>1, SyncedOne
  <2> QED
    BY <1>0, <2>1, <2>2, <2>3, AnnouncedStep
<1>5. CASE ReadProject(p)
  <2> DEFINE step == [op |-> "read", copy |-> graphDocument, alone |-> TRUE, known |-> graphChanges]
  <2>1. busy' = [busy EXCEPT ![p] = step] /\ UNCHANGED <<graphDocument, graphChanges, claims>>
    BY <1>5 DEF ReadProject
  <2>2. step \in Reader /\ step.op = "read" /\ step.known = graphChanges
    BY <1>0 DEF Reader
  <2> HIDE DEF step
  <2> QED
    BY <2>1, <2>2, QuietStep
<1>6. CASE SyncRead(p)
  <2> DEFINE step == [busy[p] EXCEPT !.op = "query"]
  <2>1. /\ SyncProject(busy[p].copy) /\ Then(p, step) /\ graphDocument' = graphDocument /\ graphChanges' = graphChanges
        /\ busy[p] \in Reader /\ QueryOK(busy[p])
    BY <1>6 DEF SyncRead, GraphInv
  <2>2. step \in Reader /\ step.op = "query" /\ step.copy = busy[p].copy /\ step.known = busy[p].known
    BY <2>1 DEF Reader
  <2> HIDE DEF step
  <2>3. busy'[p] = step
    BY <2>1, ThenFacts
  <2>4. OneOutcome' /\ \A c \in ReadinessIn(claims') : c.evidence \cap graphChanges = {}
    BY <2>1, SyncedOne
  <2>5. ReadinessClaim(step.copy) \in DOMAIN claims' /\ ActiveIn(claims') \subseteq {ReadinessClaim(step.copy)}
    BY <2>1, <2>2, SyncFacts
  <2>6. step.known \subseteq graphChanges
    BY <2>1, <2>2 DEF QueryOK
  <2>7. QueryOK(busy[p])'
    <3>1. \A c \in ReadinessIn(claims') : c.evidence \cap busy'[p].known = {}
      BY <2>3, <2>4, <2>6
    <3>2. ReadinessClaim(busy'[p].copy) \in DOMAIN claims' /\ ActiveIn(claims') \subseteq {ReadinessClaim(busy'[p].copy)}
      BY <2>3, <2>5
    <3>3. busy'[p].known \subseteq graphChanges'
      BY <2>1, <2>3, <2>6
    <3> QED
      BY <3>1, <3>2, <3>3 DEF QueryOK
  <2> QED
    BY <1>0, <2>1, <2>2, <2>3, <2>4, <2>7, AnnouncedStep
<1>7. CASE ProcessEnds(p)
  <2>1. busy' = [busy EXCEPT ![p] = AtRest] /\ UNCHANGED <<graphDocument, graphChanges, claims>>
    BY <1>7 DEF ProcessEnds
  <2>2. AtRest.op = "rest"
    BY DEF AtRest
  <2> QED
    BY <2>1, <2>2, QuietStep
<1>8. CASE RecordValidatedClaim(p)
  <2>1. Then(p, AtRest) /\ graphDocument' = graphDocument /\ graphChanges' = graphChanges
    BY <1>8 DEF RecordValidatedClaim
  <2>2. busy'[p].op = "rest"
    BY <2>1, ThenFacts DEF AtRest
  <2>3. ReadinessIn(claims') \subseteq ReadinessIn(claims)
    BY <1>8, RecordFacts
  <2>4. OneOutcome'
    BY <2>3 DEF GraphInv, OneOutcome
  <2> QED
    BY <1>0, <2>1, <2>2, <2>3, <2>4, AnnouncedStep
<1>9. ASSUME NEW object \in {"PASS", "UNRESOLVED"}, FindConflicts(p, object) PROVE GraphInv'
  <2> DEFINE step == [op |-> "record", object |-> object, conflicts |->
                {c \in ActiveIn(claims) : c.predicate = "asserts_outcome" /\ c.object /= object}]
  <2>1. busy' = [busy EXCEPT ![p] = step] /\ UNCHANGED <<graphDocument, graphChanges, claims>>
    BY <1>9 DEF FindConflicts
  <2>2. step.op = "record"
    OBVIOUS
  <2> HIDE DEF step
  <2> QED
    BY <2>1, <2>2, QuietStep
<1>10. CASE FindClaims(p)
  <2>1. busy' = [busy EXCEPT ![p] = AtRest] /\ UNCHANGED <<graphDocument, graphChanges, claims>>
    BY <1>10 DEF FindClaims
  <2>2. AtRest.op = "rest"
    BY DEF AtRest
  <2> QED
    BY <2>1, <2>2, QuietStep
<1> QED
  BY <1>1, <1>2, <1>3, <1>4, <1>5, <1>6, <1>7, <1>8, <1>9, <1>10

LEMMA GraphStarts ==
    ASSUME NEW documents \in SUBSET GraphDocuments, GraphInit(documents)
    PROVE  GraphInv
<1>1. /\ graphDocument \in GraphDocuments /\ graphChanges = {} /\ claims = [c \in {} |-> "ACTIVE"]
      /\ busy = [p \in Processes |-> AtRest]
  BY DEF GraphInit
<1>2. ActiveIn(claims) = {} /\ ReadinessIn(claims) = {}
  BY <1>1 DEF ActiveIn, ReadinessIn
<1>3. busy = [p \in Processes |-> busy[p]] /\ \A p \in Processes : busy[p].op = "rest"
  BY <1>1 DEF AtRest
<1> QED
  BY <1>1, <1>2, <1>3 DEF GraphInv, OneOutcome

LEMMA GraphKeeps == GraphInv /\ [GraphNext]_graphVars => GraphInv'
<1> SUFFICES ASSUME GraphInv, [GraphNext]_graphVars PROVE GraphInv'
  OBVIOUS
<1>1. CASE GraphNext
  BY <1>1, GraphNextKeeps
<1>2. CASE UNCHANGED graphVars
  BY <1>2 DEF graphVars, GraphInv, QueryOK, OneOutcome
<1> QED
  BY <1>1, <1>2

(* One active claim, and answers that are current.                         *)
LEMMA ClaimsStayCurrent == GraphInv => OutcomeIsCurrent
<1> SUFFICES ASSUME GraphInv PROVE OneActiveOutcome /\ AnswersAreCurrent
  BY DEF OutcomeIsCurrent
<1> DEFINE current == {c \in ActiveIn(claims) : c.predicate = "has_readiness"}
<1>1. \A c, d \in current : c = d
  BY DEF GraphInv, OneOutcome, ReadinessIn
<1> HIDE DEF current
<1>2. Cardinality(current) <= 1
  BY <1>1, AtMostOne
<1>3. AnswersAreCurrent
  BY DEF GraphInv, QueryOK, ReadinessIn, AnswersAreCurrent
<1> QED
  BY <1>2, <1>3 DEF current, OneActiveOutcome

(* Whatever the order in which old and new copies are synced: the graph    *)
(* never holds two readiness claims as active, a query nobody wrote beside *)
(* has the outcome of the document it read, and no query has an active     *)
(* readiness claim on evidence that had changed when it began.             *)
THEOREM StaysCurrent ==
    ASSUME NEW documents \in SUBSET GraphDocuments
    PROVE  GraphSpec(documents) => []OutcomeIsCurrent
<1>1. GraphInit(documents) => GraphInv
  BY GraphStarts
<1> QED
  BY <1>1, ClaimsStayCurrent, GraphKeeps, PTL DEF GraphSpec

-----------------------------------------------------------------------------
(* The ledger.                                                                 *)
Row == [key : Keys, version : Nat, dossier : {0, 1}, at : Nat, alone : BOOLEAN]
Observing == [doing : {"fetched"}, key : Keys, dossier : {0, 1}]
Counted == [doing : {"counted"}, key : Keys, dossier : {0, 1}, version : Nat, seen : SUBSET Nat]
Stamped == [doing : {"stamped"}, key : Keys, dossier : {0, 1}, version : Nat, seen : SUBSET Nat, at : Nat]
Checking == [doing : {"checking"}, left : SUBSET Nat]

LedgerTypes ==
  /\ instant \in Nat /\ live \in [Keys -> {0, 1}] /\ rows \in Seq(Row)
  /\ server \in [Servers -> {Resting} \cup Observing \cup Counted \cup Stamped \cup Checking]

\* What a server holds of the rows is still true of them: they never change.
Versioned(step, held) ==
  /\ \A i \in step.seen : i \in DOMAIN held /\ held[i].key = step.key /\ held[i].version < step.version
  /\ step.version = 1 \/ \E i \in step.seen : held[i].version + 1 = step.version
  /\ step.version \in 1..Len(held) + 1
Dated(step, held, now) == step.at <= now /\ \A i \in step.seen : held[i].at <= step.at
StepHolds(step, held, now) ==
  /\ step.doing \in {"counted", "stamped"} => Versioned(step, held)
  /\ step.doing = "stamped" => Dated(step, held, now)
  /\ step.doing = "checking" => step.left \subseteq DOMAIN held
StepsHold == \A s \in Servers : StepHolds(server[s], rows, instant)

RowsAreStamped == \A i \in DOMAIN rows : rows[i].at <= instant /\ rows[i].version \in 1..i

\* The versions of a key whose observations never overlapped count its rows, and
\* so the last one is their number.
UpTo(k, i) == {j \in RowsOf(k) : j <= i}
KeyCounts(k) ==
  (\A i \in RowsOf(k) : rows[i].alone) =>
    /\ \A i \in RowsOf(k) : rows[i].version = Cardinality(UpTo(k, i))
    /\ \A i, j \in RowsOf(k) : i < j => rows[i].at <= rows[j].at
    /\ Cardinality(RowsOf(k)) \in {0} \cup Versions(RowsOf(k))
KeysCount == \A k \in Keys : KeyCounts(k)

LedgerInv == LedgerTypes /\ StepsHold /\ RowsAreStamped /\ KeysCount /\ DriftIsReal

-----------------------------------------------------------------------------
LEMMA RowsAreFinite ==
    ASSUME LedgerTypes, NEW k
    PROVE  /\ RowsOf(k) \subseteq DOMAIN rows /\ DOMAIN rows = 1..Len(rows) /\ Len(rows) \in Nat
           /\ IsFiniteSet(RowsOf(k)) /\ Cardinality(RowsOf(k)) \in Nat
           /\ \A i : IsFiniteSet(UpTo(k, i)) /\ Cardinality(UpTo(k, i)) \in Nat
                     /\ Cardinality(UpTo(k, i)) <= Cardinality(RowsOf(k))
<1>1. RowsOf(k) \subseteq DOMAIN rows /\ DOMAIN rows = 1..Len(rows) /\ Len(rows) \in Nat
  BY DEF LedgerTypes, RowsOf
<1>2. IsFiniteSet(RowsOf(k)) /\ Cardinality(RowsOf(k)) \in Nat
  <2>1. IsFiniteSet(1..Len(rows))
    BY <1>1, FS_Interval
  <2>2. RowsOf(k) \in SUBSET 1..Len(rows)
    BY <1>1
  <2>3. IsFiniteSet(RowsOf(k))
    BY <2>1, <2>2, FS_Subset
  <2> QED BY <2>3, FS_CardinalityType
<1>3. \A i : UpTo(k, i) \in SUBSET RowsOf(k)
  BY DEF UpTo
<1> QED BY <1>1, <1>2, <1>3, FS_Subset, FS_CardinalityType

LEMMA RowsAreTyped ==
    ASSUME LedgerTypes
    PROVE  \A i \in DOMAIN rows : /\ i \in Nat /\ rows[i] \in Row
                                  /\ rows[i].version \in Nat /\ rows[i].at \in Nat
<1>1. \A i \in DOMAIN rows : i \in Nat /\ rows[i] \in Row
  BY DEF LedgerTypes
<1> QED BY <1>1 DEF Row

\* The last version of some rows is one of theirs, and none is later.
LEMMA LastVersionIs ==
    ASSUME LedgerTypes, RowsAreStamped, NEW is \in SUBSET DOMAIN rows
    PROVE  /\ LastVersion(is) \in {0} \cup Versions(is) /\ LastVersion(is) \in 0..Len(rows)
           /\ \A w \in Versions(is) : w <= LastVersion(is)
<1> DEFINE V == {0} \cup Versions(is)
<1>1. V \subseteq 0..Len(rows) /\ V # {} /\ Len(rows) \in Nat
  BY DEF LedgerTypes, RowsAreStamped, Versions
<1>2. \E v \in V : \A w \in V : w <= v
  BY <1>1, MaxOfNaturals
<1>3. LastVersion(is) \in V /\ \A w \in Versions(is) : w <= LastVersion(is)
  BY <1>2 DEF LastVersion
<1> QED BY <1>1, <1>3

LEMMA LastVersionCounts ==
    ASSUME LedgerInv, NEW k \in Keys, \A i \in RowsOf(k) : rows[i].alone
    PROVE  LastVersion(RowsOf(k)) = Cardinality(RowsOf(k))
<1> DEFINE n == Cardinality(RowsOf(k))
<1>1. n \in {0} \cup Versions(RowsOf(k)) /\ n \in Nat
  BY RowsAreFinite DEF LedgerInv, KeysCount, KeyCounts
<1>2. \A w \in Versions(RowsOf(k)) : w <= n
  BY RowsAreFinite DEF LedgerInv, KeysCount, KeyCounts, Versions
<1>3. /\ LastVersion(RowsOf(k)) \in {0} \cup Versions(RowsOf(k)) /\ LastVersion(RowsOf(k)) \in Nat
      /\ \A w \in Versions(RowsOf(k)) : w <= LastVersion(RowsOf(k))
  BY LastVersionIs, RowsAreFinite DEF LedgerInv
<1>4. n <= LastVersion(RowsOf(k)) /\ LastVersion(RowsOf(k)) <= n
  BY <1>1, <1>2, <1>3
<1> QED BY <1>1, <1>3, <1>4

LEMMA VersionsAreCounted == LedgerInv => VersionsCount
<1> SUFFICES ASSUME LedgerInv, NEW k \in Keys, \A i \in RowsOf(k) : rows[i].alone
             PROVE  /\ \A i \in RowsOf(k) : rows[i].version = Cardinality({j \in RowsOf(k) : j <= i})
                    /\ \A i, j \in RowsOf(k) : i < j => rows[i].at <= rows[j].at
                    /\ Cardinality(State \cap RowsOf(k)) <= 1
  BY DEF VersionsCount
<1>1. /\ \A i \in RowsOf(k) : rows[i].version = Cardinality(UpTo(k, i))
      /\ \A i, j \in RowsOf(k) : i < j => rows[i].at <= rows[j].at
  BY DEF LedgerInv, KeysCount, KeyCounts
<1>2. \A i \in State \cap RowsOf(k) : i \in RowsOf(k) /\ rows[i].version = Cardinality(RowsOf(k))
  BY LastVersionCounts DEF State, Latest, RowsOf
<1>3. \A i \in State \cap RowsOf(k) : UpTo(k, i) = RowsOf(k)
  <2> TAKE i \in State \cap RowsOf(k)
  <2>1. UpTo(k, i) \in SUBSET RowsOf(k) /\ Cardinality(UpTo(k, i)) = Cardinality(RowsOf(k))
    BY <1>1, <1>2 DEF UpTo
  <2> QED BY <2>1, RowsAreFinite, FS_Subset DEF LedgerInv
<1>4. \A i, j \in State \cap RowsOf(k) : i = j
  <2> TAKE i, j \in State \cap RowsOf(k)
  <2>1. i \in UpTo(k, j) /\ j \in UpTo(k, i)
    BY <1>3
  <2>2. i \in Nat /\ j \in Nat
    BY RowsAreFinite DEF LedgerInv
  <2> QED BY <2>1, <2>2 DEF UpTo
<1> QED BY <1>1, <1>4, AtMostOne DEF UpTo

-----------------------------------------------------------------------------
LEMMA LedgerStarts == LedgerInit => LedgerInv
<1> SUFFICES ASSUME LedgerInit PROVE LedgerInv
  OBVIOUS
<1>1. rows = <<>> /\ instant = 0 /\ drift = {} /\ DOMAIN rows = {}
  BY DEF LedgerInit
<1>2. LedgerTypes
  BY DEF LedgerInit, LedgerTypes
<1>3. StepsHold
  BY DEF LedgerInit, StepsHold, StepHolds, Resting
<1>4. KeysCount
  <2>1. \A k : RowsOf(k) = {}
    BY <1>1 DEF RowsOf
  <2>2. \A k : Cardinality(RowsOf(k)) = 0
    BY <2>1, FS_EmptySet
  <2> QED BY <2>1, <2>2 DEF KeysCount, KeyCounts
<1> QED BY <1>1, <1>2, <1>3, <1>4 DEF LedgerInv, RowsAreStamped, DriftIsReal

\* A step that leaves the rows as they are, and what each server holds of them
\* true, keeps the invariant; and no replay changes.
LEMMA RowsStay ==
    ASSUME LedgerInv, LedgerTypes', UNCHANGED rows, instant <= instant', DriftIsReal', StepsHold'
    PROVE  LedgerInv' /\ PastIsFinal
<1>1. RowsAreStamped'
  <2>1. instant \in Nat /\ instant' \in Nat
    BY DEF LedgerInv, LedgerTypes
  <2> QED BY <2>1, RowsAreTyped DEF LedgerInv, RowsAreStamped
<1>2. KeysCount'
  BY DEF LedgerInv, KeysCount, KeyCounts, RowsOf, UpTo, Versions
<1>3. \A t : Replay(t)' = Replay(t)
  BY DEF Replay, Latest, LastVersion, Versions
<1> QED BY <1>1, <1>2, <1>3 DEF LedgerInv, PastIsFinal

\* The step of one server, when the rows stay.
LEMMA DoKeeps ==
    ASSUME LedgerInv, NEW s \in Servers, NEW step, Do(s, step),
           step \in {Resting} \cup Observing \cup Counted \cup Stamped \cup Checking,
           StepHolds(step, rows, instant),
           UNCHANGED rows, DriftIsReal'
    PROVE  LedgerInv' /\ PastIsFinal
<1>1. LedgerTypes'
  BY DEF Do, LedgerInv, LedgerTypes
<1>2. instant' = instant /\ instant <= instant' /\ \A r \in Servers : server'[r] = IF r = s THEN step ELSE server[r]
  BY DEF Do, LedgerInv, LedgerTypes
<1>3. StepsHold'
  BY <1>2 DEF LedgerInv, StepsHold
<1> QED BY <1>1, <1>2, <1>3, RowsStay

LEMMA FetchDossierKeeps ==
    ASSUME LedgerInv, NEW s \in Servers, NEW k \in Keys, FetchDossier(s, k)
    PROVE  LedgerInv' /\ PastIsFinal
<1> DEFINE step == [doing |-> "fetched", key |-> k, dossier |-> live[k]]
<1>1. step \in Observing /\ StepHolds(step, rows, instant) /\ Do(s, step)
  BY DEF FetchDossier, Observing, LedgerInv, LedgerTypes, StepHolds
<1>2. UNCHANGED rows /\ DriftIsReal'
  BY DEF FetchDossier, LedgerInv, DriftIsReal, RowsOf
<1> QED BY <1>1, <1>2, DoKeeps

LEMMA CountVersionsKeeps ==
    ASSUME LedgerInv, NEW s \in Servers, CountVersions(s)
    PROVE  LedgerInv' /\ PastIsFinal
<1> DEFINE k == server[s].key
           step == [key |-> k, dossier |-> server[s].dossier,
                    doing |-> "counted", version |-> NextVersion(k), seen |-> RowsOf(k)]
<1>1. k \in Keys /\ server[s].dossier \in {0, 1}
  BY DEF CountVersions, LedgerInv, LedgerTypes, Resting, Observing, Counted, Stamped, Checking
<1>2. RowsOf(k) \in SUBSET DOMAIN rows /\ RowsOf(k) \in SUBSET Nat /\ Len(rows) \in Nat
  BY RowsAreFinite DEF LedgerInv
<1>3. /\ NextVersion(k) \in 1..Len(rows) + 1
      /\ \A i \in RowsOf(k) : rows[i].version < NextVersion(k)
      /\ NextVersion(k) = 1 \/ \E i \in RowsOf(k) : rows[i].version + 1 = NextVersion(k)
  <2>1. /\ LastVersion(RowsOf(k)) \in 0..Len(rows)
        /\ LastVersion(RowsOf(k)) = 0 \/ \E i \in RowsOf(k) : rows[i].version = LastVersion(RowsOf(k))
        /\ \A i \in RowsOf(k) : rows[i].version <= LastVersion(RowsOf(k))
    BY <1>2, LastVersionIs DEF LedgerInv, Versions
  <2>2. \A i \in RowsOf(k) : rows[i].version \in Nat
    BY <1>2, RowsAreTyped DEF LedgerInv
  <2> QED BY <2>1, <2>2, <1>2 DEF NextVersion
<1>4. step \in Counted
  BY <1>1, <1>2, <1>3 DEF Counted
<1>5. StepHolds(step, rows, instant)
  BY <1>2, <1>3 DEF StepHolds, Versioned, RowsOf
<1>6. Do(s, step) /\ UNCHANGED rows /\ DriftIsReal'
  BY DEF CountVersions, LedgerInv, DriftIsReal, RowsOf
<1> QED BY <1>4, <1>5, <1>6, DoKeeps

LEMMA StampKeeps ==
    ASSUME LedgerInv, NEW s \in Servers, Stamp(s)
    PROVE  LedgerInv' /\ PastIsFinal
<1> DEFINE old == server[s]
           step == [key |-> old.key, dossier |-> old.dossier, version |-> old.version, seen |-> old.seen,
                    doing |-> "stamped", at |-> instant]
<1>1. old \in Counted /\ StepHolds(old, rows, instant) /\ old.doing = "counted"
  BY DEF Stamp, LedgerInv, LedgerTypes, StepsHold, Resting, Observing, Counted, Stamped, Checking
<1>2. step \in Stamped
  BY <1>1 DEF Counted, Stamped, LedgerInv, LedgerTypes
<1>3. \A i \in old.seen : rows[i].at <= instant
  BY <1>1 DEF StepHolds, Versioned, LedgerInv, RowsAreStamped
<1>4. StepHolds(step, rows, instant)
  BY <1>1, <1>3 DEF StepHolds, Versioned, Dated, LedgerInv, LedgerTypes
<1>5. Do(s, step) /\ UNCHANGED rows /\ DriftIsReal'
  BY DEF Stamp, LedgerInv, DriftIsReal, RowsOf
<1> QED BY <1>2, <1>4, <1>5, DoKeeps

LEMMA BeginCheckKeeps ==
    ASSUME LedgerInv, NEW s \in Servers, BeginCheck(s)
    PROVE  LedgerInv' /\ PastIsFinal
<1> DEFINE step == [doing |-> "checking", left |-> State]
<1>1. State \subseteq DOMAIN rows /\ DOMAIN rows \subseteq Nat
  BY DEF State, Latest, LedgerInv, LedgerTypes
<1>2. step \in Checking /\ StepHolds(step, rows, instant)
  BY <1>1 DEF Checking, StepHolds
<1>3. Do(s, step) /\ UNCHANGED rows /\ DriftIsReal'
  BY DEF BeginCheck, LedgerInv, DriftIsReal, RowsOf
<1> QED BY <1>2, <1>3, DoKeeps

LEMMA CheckRowKeeps ==
    ASSUME LedgerInv, NEW s \in Servers, CheckRow(s)
    PROVE  LedgerInv' /\ PastIsFinal
<1>1. server[s] \in Checking /\ server[s].left \subseteq DOMAIN rows
  BY DEF CheckRow, LedgerInv, LedgerTypes, StepsHold, StepHolds, Resting, Observing, Counted, Stamped, Checking
<1>2. PICK i \in server[s].left :
        /\ Do(s, [server[s] EXCEPT !.left = @ \ {i}])
        /\ drift' = drift \cup
             IF Differs(i) THEN {[key |-> rows[i].key, old |-> rows[i].dossier, new |-> live[rows[i].key]]} ELSE {}
  BY DEF CheckRow
<1> DEFINE step == [server[s] EXCEPT !.left = @ \ {i}]
<1>3. step \in Checking /\ step.doing = "checking" /\ step.left \subseteq DOMAIN rows
  BY <1>1 DEF Checking
<1>4. StepHolds(step, rows, instant)
  BY <1>3 DEF StepHolds
<1>5. UNCHANGED rows
  BY DEF CheckRow
<1>6. DriftIsReal'
  <2>1. \A k : RowsOf(k)' = RowsOf(k)
    BY <1>5 DEF RowsOf
  <2>2. i \in RowsOf(rows[i].key)
    BY <1>1 DEF RowsOf
  <2> QED BY <1>2, <1>5, <2>1, <2>2 DEF LedgerInv, DriftIsReal, Differs
<1> QED BY <1>2, <1>3, <1>4, <1>5, <1>6, DoKeeps

LEMMA CeaseKeeps ==
    ASSUME LedgerInv, NEW s \in Servers, Cease(s)
    PROVE  LedgerInv' /\ PastIsFinal
<1>1. Do(s, Resting) /\ UNCHANGED rows /\ DriftIsReal' /\ StepHolds(Resting, rows, instant)
  BY DEF Cease, LedgerInv, DriftIsReal, RowsOf, StepHolds, Resting
<1> QED BY <1>1, DoKeeps

\* What a commit makes of the rows of a key.
LEMMA CommitAppends ==
    ASSUME LedgerInv, NEW s \in Servers, Commit(s)
    PROVE  LET n == Len(rows) + 1
               step == server[s] IN
             /\ step \in Stamped /\ StepHolds(step, rows, instant) /\ step.doing = "stamped"
             /\ rows' \in Seq(Row) /\ DOMAIN rows' = DOMAIN rows \cup {n} /\ n \notin DOMAIN rows /\ Len(rows') = n
             /\ n \in Nat
             /\ \A i \in DOMAIN rows : rows'[i] = rows[i] /\ i < n /\ i \in Nat
             /\ rows'[n].key = step.key /\ rows'[n].version = step.version /\ rows'[n].at = step.at
             /\ rows'[n].alone = (step.seen = RowsOf(step.key))
             /\ \A k : RowsOf(k)' = RowsOf(k) \cup IF k = step.key THEN {n} ELSE {}
<1> DEFINE n == Len(rows) + 1
           step == server[s]
           row == [key |-> step.key, version |-> step.version,
                   dossier |-> step.dossier, at |-> step.at, alone |-> step.seen = RowsOf(step.key)]
<1>1. step \in Stamped /\ StepHolds(step, rows, instant) /\ step.doing = "stamped"
  BY DEF Commit, LedgerInv, LedgerTypes, StepsHold, Resting, Observing, Counted, Stamped, Checking
<1>2. row \in Row
  BY <1>1 DEF Stamped, Row
<1>3. rows' = Append(rows, row) /\ rows \in Seq(Row)
  BY DEF Commit, LedgerInv, LedgerTypes
<1> HIDE DEF row
<1>4. /\ rows' \in Seq(Row) /\ DOMAIN rows' = DOMAIN rows \cup {n} /\ n \notin DOMAIN rows /\ Len(rows') = n
      /\ n \in Nat /\ rows'[n] = row
      /\ \A i \in DOMAIN rows : rows'[i] = rows[i] /\ i < n /\ i \in Nat
  BY <1>2, <1>3
<1>5. row.key = step.key /\ row.version = step.version /\ row.at = step.at
      /\ row.alone = (step.seen = RowsOf(step.key))
  BY DEF row
<1> HIDE DEF n, step
<1>6. \A k : RowsOf(k)' = RowsOf(k) \cup IF k = step.key THEN {n} ELSE {}
  BY <1>4, <1>5 DEF RowsOf
<1> QED BY <1>1, <1>4, <1>5, <1>6 DEF n, step

\* A commit appends the row of its key, and keeps what was held of the others.
LEMMA CommitKeeps ==
    ASSUME LedgerInv, NEW s \in Servers, Commit(s)
    PROVE  LedgerInv' /\ PastIsFinal
<1> DEFINE step == server[s]
<1>0. PICK n : n = Len(rows) + 1
  OBVIOUS
<1>1. /\ step \in Stamped /\ StepHolds(step, rows, instant) /\ step.doing = "stamped"
      /\ rows' \in Seq(Row) /\ DOMAIN rows' = DOMAIN rows \cup {n} /\ n \notin DOMAIN rows /\ Len(rows') = n
      /\ n \in Nat
      /\ \A i \in DOMAIN rows : rows'[i] = rows[i] /\ i < n /\ i \in Nat
      /\ rows'[n].key = step.key /\ rows'[n].version = step.version /\ rows'[n].at = step.at
      /\ rows'[n].alone = (step.seen = RowsOf(step.key))
      /\ \A k : RowsOf(k)' = RowsOf(k) \cup IF k = step.key THEN {n} ELSE {}
  BY <1>0, CommitAppends
<1>2. Do(s, Resting) /\ drift' = drift /\ instant' = instant /\ live' = live
  BY DEF Commit, Do
<1>3. \A r \in Servers : server'[r] = IF r = s THEN Resting ELSE server[r]
  BY <1>2 DEF Do, LedgerInv, LedgerTypes
<1>4. LedgerTypes'
  BY <1>1, <1>2 DEF Do, LedgerInv, LedgerTypes
<1>5. step.key \in Keys /\ step.version \in 1..n /\ step.at \in Nat /\ step.at <= instant
      /\ \A i \in step.seen : rows[i].at <= step.at
  BY <1>0, <1>1 DEF Stamped, StepHolds, Versioned, Dated
<1>51. /\ \A i \in step.seen : rows[i].version < step.version
       /\ step.version = 1 \/ \E i \in step.seen : rows[i].version + 1 = step.version
  BY <1>1 DEF StepHolds, Versioned
<1> HIDE DEF step
<1>6. \A is \in SUBSET DOMAIN rows : Versions(is)' = Versions(is) /\ LastVersion(is)' = LastVersion(is)
  <2> TAKE is \in SUBSET DOMAIN rows
  <2>1. Versions(is)' = Versions(is)
    BY <1>1 DEF Versions
  <2> QED BY <2>1 DEF LastVersion
<1>7. StepsHold'
  <2> SUFFICES ASSUME NEW r \in Servers PROVE StepHolds(server'[r], rows', instant')
    BY DEF StepsHold
  <2>1. CASE r = s
    BY <2>1, <1>3 DEF StepHolds, Resting
  <2>2. CASE r # s
    <3> DEFINE other == server[r]
    <3>1. server'[r] = other /\ StepHolds(other, rows, instant)
      BY <2>2, <1>3 DEF LedgerInv, StepsHold
    <3> HIDE DEF other
    <3>2. Versioned(other, rows) => Versioned(other, rows')
      <4>1. 1..Len(rows) + 1 \subseteq 1..Len(rows') + 1
        BY <1>0, <1>1
      <4> QED BY <4>1, <1>1 DEF Versioned
    <3>3. Versioned(other, rows) /\ Dated(other, rows, instant) => Dated(other, rows', instant')
      BY <1>1, <1>2 DEF Versioned, Dated
    <3>4. other.doing = "checking" => other.left \subseteq DOMAIN rows'
      BY <3>1, <1>1 DEF StepHolds
    <3> QED BY <3>1, <3>2, <3>3, <3>4 DEF StepHolds
  <2> QED BY <2>1, <2>2
<1>8. RowsAreStamped'
  BY <1>1, <1>2, <1>5 DEF LedgerInv, RowsAreStamped
<1>9. KeysCount'
  <2> SUFFICES ASSUME NEW k \in Keys, \A i \in RowsOf(k)' : rows'[i].alone
               PROVE  /\ \A i \in RowsOf(k)' : rows'[i].version = Cardinality(UpTo(k, i)')
                      /\ \A i, j \in RowsOf(k)' : i < j => rows'[i].at <= rows'[j].at
                      /\ Cardinality(RowsOf(k)') \in {0} \cup Versions(RowsOf(k))'
    BY DEF KeysCount, KeyCounts
  <2>1. /\ \A i \in RowsOf(k) : rows[i].alone /\ rows'[i] = rows[i] /\ i \in DOMAIN rows
        /\ RowsOf(k) \subseteq RowsOf(k)' /\ RowsOf(k) \in SUBSET DOMAIN rows
    BY <1>1 DEF RowsOf
  <2>2. /\ \A i \in RowsOf(k) : rows[i].version = Cardinality(UpTo(k, i))
        /\ \A i, j \in RowsOf(k) : i < j => rows[i].at <= rows[j].at
        /\ Cardinality(RowsOf(k)) \in {0} \cup Versions(RowsOf(k))
    BY <2>1 DEF LedgerInv, KeysCount, KeyCounts
  <2>3. \A i \in RowsOf(k) : UpTo(k, i)' = UpTo(k, i)
    BY <1>1, <2>1 DEF UpTo
  <2>4. CASE k # step.key
    <3>1. RowsOf(k)' = RowsOf(k)
      BY <2>4, <1>1
    <3>2. Versions(RowsOf(k))' = Versions(RowsOf(k))
      BY <3>1, <2>1 DEF Versions
    <3> QED BY <2>1, <2>2, <2>3, <3>1, <3>2
  <2>5. CASE k = step.key
    <3>1. RowsOf(k)' = RowsOf(k) \cup {n} /\ n \notin RowsOf(k) /\ rows'[n].alone
      BY <2>5, <1>1, <2>1
    <3>2. step.seen = RowsOf(k)
      BY <2>5, <3>1, <1>1
    <3>3. step.version = Cardinality(RowsOf(k)) + 1
      <4> DEFINE c == Cardinality(RowsOf(k))
      <4>1. c \in Nat /\ \A i \in RowsOf(k) : rows[i].version \in Nat /\ rows[i].version <= c
        BY <2>2, RowsAreFinite DEF LedgerInv
      <4>2. c = 0 \/ \E i \in RowsOf(k) : rows[i].version = c
        BY <2>2 DEF Versions
      <4> HIDE DEF c
      <4>3. step.version \in Nat /\ step.version >= 1
        BY <1>1, <1>5
      <4> QED BY <4>1, <4>2, <4>3, <3>2, <1>51 DEF c
    <3>4. Cardinality(RowsOf(k)') = Cardinality(RowsOf(k)) + 1 /\ Cardinality(RowsOf(k)) \in Nat
      BY <3>1, RowsAreFinite, FS_AddElement DEF LedgerInv
    <3>5. UpTo(k, n)' = RowsOf(k)'
      BY <3>1, <2>1, <1>1 DEF UpTo
    <3>6. rows'[n].version = Cardinality(RowsOf(k)')
      BY <1>1, <3>2, <3>3, <3>4
    <3>7. Cardinality(RowsOf(k)') \in Versions(RowsOf(k))'
      BY <3>1, <3>6 DEF Versions
    <3>8. \A i \in RowsOf(k) : rows'[i].at <= rows'[n].at /\ i < n /\ i \in Nat
      BY <1>1, <1>5, <2>1, <3>2
    <3>9. n \in Nat /\ \A i \in RowsOf(k)' : i \in RowsOf(k) \/ i = n
      BY <1>1, <3>1
    <3>10. \A i \in RowsOf(k)' : rows'[i].version = Cardinality(UpTo(k, i)')
      BY <2>1, <2>2, <2>3, <3>5, <3>6, <3>9
    <3>11. \A i, j \in RowsOf(k)' : i < j => rows'[i].at <= rows'[j].at
      BY <2>1, <2>2, <3>8, <3>9
    <3> QED BY <3>7, <3>10, <3>11
  <2> QED BY <2>4, <2>5
<1>10. DriftIsReal'
  <2>1. \A k : \A i \in RowsOf(k) : i \in RowsOf(k)' /\ rows'[i] = rows[i]
    BY <1>1 DEF RowsOf
  <2> QED BY <1>2, <2>1 DEF LedgerInv, DriftIsReal
<1>11. PastIsFinal
  <2> SUFFICES ASSUME NEW t \in 0..instant - 1, ~(step.at <= t) PROVE Replay(t)' = Replay(t)
    BY <1>1 DEF PastIsFinal, step
  <2>0. PICK past : past = {i \in DOMAIN rows : rows[i].at <= t}
    OBVIOUS
  <2>1. {i \in DOMAIN rows' : rows'[i].at <= t} = past
    BY <1>1, <2>0
  <2>2. past \in SUBSET DOMAIN rows
    BY <2>0
  <2>3. \A i \in past : {j \in past : rows'[j].key = rows'[i].key} = {j \in past : rows[j].key = rows[i].key}
    BY <2>2, <1>1
  <2>4. Latest(past)' = Latest(past) /\ Latest(past) \subseteq past
    <3>1. \A i \in past : LastVersion({j \in past : rows[j].key = rows[i].key})'
                          = LastVersion({j \in past : rows[j].key = rows[i].key})
      <4> TAKE i \in past
      <4>1. PICK same : same = {j \in past : rows[j].key = rows[i].key}
        OBVIOUS
      <4>2. LastVersion(same)' = LastVersion(same)
        BY <4>1, <2>2, <1>6
      <4>3. {j \in past : rows'[j].key = rows'[i].key} = same
        BY <4>1, <2>3
      <4>4. LastVersion({j \in past : rows[j].key = rows[i].key})' = LastVersion(same)'
        BY <4>3
      <4> QED BY <4>1, <4>2, <4>4
    <3>2. \A i \in past : rows'[i] = rows[i]
      BY <2>2, <1>1
    <3> QED BY <3>1, <3>2 DEF Latest
  <2>5. Replay(t) = {rows[i] : i \in Latest(past)} /\ Replay(t)' = {rows'[i] : i \in Latest(past)'}
    BY <2>0, <2>1 DEF Replay
  <2> QED BY <2>2, <2>4, <2>5, <1>1
<1> QED BY <1>4, <1>7, <1>8, <1>9, <1>10, <1>11 DEF LedgerInv

(* Every step of the ledger keeps the invariant and the past.                  *)
LEMMA LedgerKeeps ==
    ASSUME LedgerInv, [LedgerNext]_ledgerVars
    PROVE  LedgerInv' /\ PastIsFinal
<1>1. CASE InstantPasses
  <2>1. LedgerTypes' /\ instant <= instant' /\ UNCHANGED rows
    BY <1>1 DEF InstantPasses, LedgerInv, LedgerTypes
  <2>2. DriftIsReal'
    BY <1>1 DEF InstantPasses, LedgerInv, DriftIsReal, RowsOf
  <2>3. StepsHold'
    <3> SUFFICES ASSUME NEW s \in Servers, StepHolds(server[s], rows, instant)
                 PROVE  StepHolds(server[s], rows, instant')
      BY <1>1 DEF InstantPasses, LedgerInv, StepsHold
    <3>1. server[s].doing = "stamped" => server[s].at \in Nat
      BY DEF LedgerInv, LedgerTypes, Resting, Observing, Counted, Stamped, Checking
    <3>2. instant \in Nat /\ instant' = instant + 1
      BY <1>1 DEF InstantPasses, LedgerInv, LedgerTypes
    <3> QED BY <3>1, <3>2 DEF StepHolds, Dated
  <2> QED BY <2>1, <2>2, <2>3, RowsStay
<1>2. ASSUME NEW k \in Keys, ProviderChanges(k) PROVE LedgerInv' /\ PastIsFinal
  <2>1. LedgerTypes' /\ instant <= instant' /\ UNCHANGED rows
    BY <1>2 DEF ProviderChanges, LedgerInv, LedgerTypes
  <2>2. DriftIsReal'
    BY <1>2 DEF ProviderChanges, LedgerInv, DriftIsReal, RowsOf
  <2>3. StepsHold'
    BY <1>2 DEF ProviderChanges, LedgerInv, StepsHold
  <2> QED BY <2>1, <2>2, <2>3, RowsStay
<1>3. ASSUME NEW s \in Servers, NEW k \in Keys, FetchDossier(s, k) PROVE LedgerInv' /\ PastIsFinal
  BY <1>3, FetchDossierKeeps
<1>4. ASSUME NEW s \in Servers, CountVersions(s) \/ Stamp(s) \/ Commit(s) \/ BeginCheck(s) \/ CheckRow(s) \/ Cease(s)
      PROVE  LedgerInv' /\ PastIsFinal
  BY <1>4, CountVersionsKeeps, StampKeeps, CommitKeeps, BeginCheckKeeps, CheckRowKeeps, CeaseKeeps
<1>5. CASE UNCHANGED ledgerVars
  <2>1. LedgerTypes' /\ instant <= instant' /\ UNCHANGED rows /\ DriftIsReal'
    BY <1>5 DEF ledgerVars, LedgerInv, LedgerTypes, DriftIsReal, RowsOf
  <2>2. StepsHold'
    BY <1>5 DEF ledgerVars, LedgerInv, StepsHold
  <2> QED BY <2>1, <2>2, RowsStay
<1> QED BY <1>1, <1>2, <1>3, <1>4, <1>5 DEF LedgerNext
===============================================================================
