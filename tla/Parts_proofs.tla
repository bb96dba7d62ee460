----------------------------- MODULE Parts_proofs -----------------------------
(***************************************************************************)
(* Proofs about the other parts (product requests, project intelligence,   *)
(* worlds, tasks of a batch, site evaluation, the decision of a project),  *)
(* and of what the run of the parts checks, for every value of the         *)
(* constants.                                                              *)
(***************************************************************************)
EXTENDS MCParts, Records_proofs, SetTheorems, TLAPS

-----------------------------------------------------------------------------
(* Product requests.                                                           *)
OpenRequest ==
  [is : {"open"}, candidates : Seq(Places), location : Places \cup {Nowhere}, shown : Seq(Places),
   unanswered : Handlers \cup {Nowhere}, overlapped : BOOLEAN]
AtNothing == [awaits |-> "nothing"]
AtCall == [awaits : {"resolution", "quote", "snapshot"}, request : Requests, place : Places \cup {Nowhere}]

ProductTypes ==
  /\ product \in [Requests -> OpenRequest \cup {NoProduct, [is |-> "expired"]}]
  /\ handlers \in [Handlers -> {AtNothing} \cup AtCall]
Quoting(h, r) == handlers[h].awaits = "quote" /\ handlers[h].request = r

\* A handler that awaits a resolution or a quote has an open request.
CallsAreOpen ==
  \A h \in Handlers : handlers[h].awaits \in {"resolution", "quote"} =>
    /\ Open(handlers[h].request)
    /\ handlers[h].awaits = "quote" => handlers[h].place \in Places

\* The quote that was asked for last is of the selected place, and any other that
\* is under way overlaps one.
LastQuoteIsOfPlace ==
  \A h \in Handlers, r \in Requests : Quoting(h, r) =>
    \/ product[r].unanswered = h /\ handlers[h].place = product[r].location
    \/ product[r].unanswered # h /\ product[r].overlapped

\* What a request that awaits no answer has selected was shown.
WasShown(state) ==
  (state.unanswered = Nowhere /\ state.location # Nowhere) =>
    /\ \E i \in DOMAIN state.shown : state.shown[i] = state.location
    /\ ~state.overlapped => state.location = state.shown[Len(state.shown)]
SelectedWasShown == \A r \in Requests : Open(r) => WasShown(product[r])

ConfirmedStates ==
  \A c \in confirmed : c.state.location = c.place /\ c.place # Nowhere /\ WasShown(c.state)

ProductInv == ProductTypes /\ CallsAreOpen /\ LastQuoteIsOfPlace /\ SelectedWasShown /\ ConfirmedStates

LEMMA ProductStarts == ProductInit => ProductInv
BY DEF ProductInit, ProductInv, ProductTypes, CallsAreOpen, LastQuoteIsOfPlace, SelectedWasShown, ConfirmedStates,
       Quoting, Open, NoProduct, AtNothing

LEMMA OpenIsRecord ==
    ASSUME ProductTypes, NEW r \in Requests
    PROVE  /\ Open(r) <=> product[r] \in OpenRequest
           /\ product[r].is = "absent" <=> product[r] = NoProduct
BY DEF ProductTypes, Open, OpenRequest, NoProduct

LEMMA StartKeeps ==
    ASSUME ProductInv, NEW h \in Handlers, NEW r \in Requests, Start(h, r)
    PROVE  ProductInv'
<1> USE DEF ProductInv
<1>1. NewRequest \in OpenRequest /\ NewRequest.location = Nowhere
  BY DEF NewRequest, OpenRequest
<1>2. product' = [product EXCEPT ![r] = NewRequest] /\ handlers[h].awaits = "nothing" /\ ~Open(r)
  BY DEF Start, Free, Open
<1>3. \/ handlers' = [handlers EXCEPT ![h] = [awaits |-> "resolution", request |-> r, place |-> Nowhere]]
      \/ handlers' = handlers
  BY DEF Start, Awaiting
<1>4. ProductTypes'
  BY <1>1, <1>2, <1>3 DEF ProductTypes, AtCall
<1>5. \A q \in Requests : q # r => product'[q] = product[q]
  BY <1>2 DEF ProductTypes
<1>5a. product'[r] = NewRequest
  BY <1>2 DEF ProductTypes
<1>6. \A g \in Handlers : handlers'[g].awaits = "quote" => handlers'[g] = handlers[g] /\ handlers[g].request # r
  BY <1>2, <1>3 DEF ProductTypes, CallsAreOpen
<1>7. CallsAreOpen'
  BY <1>1, <1>2, <1>3, <1>5, <1>5a, <1>6 DEF CallsAreOpen, Open, ProductTypes, OpenRequest, AtNothing
<1>8. LastQuoteIsOfPlace'
  BY <1>5, <1>6 DEF LastQuoteIsOfPlace, Quoting
<1>9. SelectedWasShown'
  BY <1>1, <1>5, <1>5a DEF SelectedWasShown, Open, WasShown
<1>10. ConfirmedStates'
  BY DEF ConfirmedStates, Start
<1> QED BY <1>4, <1>7, <1>8, <1>9, <1>10

LEMMA BeginQuoteKeeps ==
    ASSUME ProductInv, NEW h \in Handlers, NEW r \in Requests, Open(r), NEW p \in Places,
           ~\E q \in Requests : Quoting(h, q),
           BeginQuote(h, r, p, product[r]), UNCHANGED confirmed
    PROVE  ProductInv'
<1> USE DEF ProductInv
<1> DEFINE next == [Selection(product[r], p) EXCEPT
                      !.unanswered = h,
                      !.overlapped = @ \/ \E g \in Handlers : handlers[g].awaits = "quote" /\ handlers[g].request = r]
<1>1. product[r] \in OpenRequest
  BY OpenIsRecord
<1>2. next \in OpenRequest /\ next.location = p /\ next.unanswered = h
      /\ (product[r].overlapped \/ (\E g \in Handlers : Quoting(g, r)) => next.overlapped)
  BY <1>1 DEF OpenRequest, Selection, Quoting
<1> HIDE DEF next
<1>3. product' = [product EXCEPT ![r] = next]
      /\ handlers' = [handlers EXCEPT ![h] = [awaits |-> "quote", request |-> r, place |-> p]]
  BY DEF BeginQuote, next, Awaiting
<1>4. ProductTypes'
  BY <1>2, <1>3 DEF ProductTypes, AtCall
<1>5. product'[r] = next /\ \A q \in Requests : q # r => product'[q] = product[q]
  BY <1>3 DEF ProductTypes
<1>6. /\ handlers'[h] = [awaits |-> "quote", request |-> r, place |-> p]
      /\ \A g \in Handlers : g # h => handlers'[g] = handlers[g]
  BY <1>3 DEF ProductTypes
<1>7. CallsAreOpen'
  <2>1. Open(r)' /\ \A q \in Requests : Open(q) => Open(q)'
    BY <1>2, <1>5 DEF Open, OpenRequest
  <2> SUFFICES ASSUME NEW g \in Handlers, handlers'[g].awaits \in {"resolution", "quote"}, g # h
               PROVE  Open(handlers[g].request)' /\ handlers'[g] = handlers[g]
    BY <1>6, <2>1 DEF CallsAreOpen
  <2>2. handlers'[g] = handlers[g]
    BY <1>6
  <2>3. handlers[g].request \in Requests /\ Open(handlers[g].request)
    BY <2>2 DEF CallsAreOpen, ProductTypes, AtCall, AtNothing
  <2> QED BY <2>1, <2>2, <2>3
<1>8. LastQuoteIsOfPlace'
  <2> SUFFICES ASSUME NEW g \in Handlers, NEW q \in Requests, Quoting(g, q)'
               PROVE  \/ product'[q].unanswered = g /\ handlers'[g].place = product'[q].location
                      \/ product'[q].unanswered # g /\ product'[q].overlapped
    BY DEF LastQuoteIsOfPlace
  <2>1. CASE g = h
    BY <2>1, <1>2, <1>5, <1>6 DEF Quoting
  <2>2. CASE g # h /\ q = r
    BY <2>2, <1>2, <1>5, <1>6 DEF Quoting
  <2>3. CASE g # h /\ q # r
    BY <2>3, <1>5, <1>6 DEF Quoting, LastQuoteIsOfPlace
  <2> QED BY <2>1, <2>2, <2>3
<1>9. SelectedWasShown'
  <2>1. WasShown(next)
    BY <1>2, ProductAssumption DEF WasShown
  <2> QED BY <2>1, <1>5 DEF SelectedWasShown, Open, WasShown
<1>10. ConfirmedStates'
  BY DEF ConfirmedStates
<1> QED BY <1>4, <1>7, <1>8, <1>9, <1>10

\* A handler that ends its call.
LEMMA ReturnKeeps ==
    ASSUME ProductInv, NEW h \in Handlers, Return(h), UNCHANGED <<product, confirmed>>
    PROVE  ProductInv'
<1> USE DEF ProductInv
<1>1. handlers' = [handlers EXCEPT ![h] = AtNothing]
  BY DEF Return, AtNothing
<1>2. handlers'[h] = AtNothing /\ \A g \in Handlers : g # h => handlers'[g] = handlers[g]
  BY <1>1 DEF ProductTypes
<1>3. ProductTypes'
  BY <1>1 DEF ProductTypes
<1>4. CallsAreOpen'
  BY <1>2 DEF CallsAreOpen, Open, AtNothing
<1>5. LastQuoteIsOfPlace'
  BY <1>2 DEF LastQuoteIsOfPlace, Quoting, AtNothing
<1>6. SelectedWasShown' /\ ConfirmedStates'
  BY DEF SelectedWasShown, Open, WasShown, ConfirmedStates
<1> QED BY <1>3, <1>4, <1>5, <1>6

LEMMA ResolveKeeps ==
    ASSUME ProductInv, NEW h \in Handlers, Resolve(h)
    PROVE  ProductInv'
<1> DEFINE r == handlers[h].request
<1>1. r \in Requests /\ handlers[h].awaits = "resolution" /\ Open(r) /\ product[r] \in OpenRequest
  BY OpenIsRecord DEF ProductInv, ProductTypes, Resolve, CallsAreOpen, AtCall, AtNothing
<1>2. ~\E q \in Requests : Quoting(h, q)
  BY <1>1 DEF Quoting
<1>3. CASE \E p \in Places : BeginQuote(h, r, p, product[r])
  BY <1>1, <1>2, <1>3, BeginQuoteKeeps DEF Resolve
<1>4. ASSUME NEW ambiguous \in {<<>>} \cup (Places \X Places),
             product' = [product EXCEPT ![r].candidates = ambiguous], Return(h)
      PROVE  ProductInv'
  <2> DEFINE next == [product[r] EXCEPT !.candidates = ambiguous]
  <2>1. ambiguous \in Seq(Places)
    <3>1. CASE ambiguous = <<>>
      BY <3>1
    <3>2. CASE ambiguous \in Places \X Places
      <4>1. PICK p \in Places, q \in Places : ambiguous = <<p, q>>
        BY <3>2
      <4> QED BY <4>1
    <3> QED BY <3>1, <3>2
  <2>2. next \in OpenRequest /\ \A f \in {"location", "shown", "unanswered", "overlapped", "is"} : next[f] = product[r][f]
    BY <1>1, <2>1 DEF OpenRequest
  <2>3. next.location = product[r].location /\ next.shown = product[r].shown /\ next.is = product[r].is
        /\ next.unanswered = product[r].unanswered /\ next.overlapped = product[r].overlapped
    BY <2>2
  <2> HIDE DEF next, r
  <2>4. product' = [product EXCEPT ![r] = next] /\ handlers' = [handlers EXCEPT ![h] = AtNothing]
    BY <1>4 DEF next, Return, AtNothing
  <2>5. product'[r] = next /\ \A q \in Requests : q # r => product'[q] = product[q]
    BY <1>1, <2>4 DEF ProductInv, ProductTypes
  <2>6. handlers'[h] = AtNothing /\ \A g \in Handlers : g # h => handlers'[g] = handlers[g]
    BY <2>4 DEF ProductInv, ProductTypes
  <2>7. ProductTypes'
    BY <1>1, <2>2, <2>4 DEF ProductInv, ProductTypes
  <2>8. \A q \in Requests : Open(q)' <=> Open(q)
    BY <2>3, <2>5, <1>1 DEF Open
  <2>9. CallsAreOpen'
    <3> SUFFICES ASSUME NEW g \in Handlers, handlers'[g].awaits \in {"resolution", "quote"}
                 PROVE  Open(handlers[g].request)' /\ handlers'[g] = handlers[g]
      BY DEF CallsAreOpen, ProductInv
    <3>1. g # h /\ handlers'[g] = handlers[g]
      BY <2>6 DEF AtNothing
    <3>2. handlers[g].request \in Requests /\ Open(handlers[g].request)
      BY <3>1 DEF CallsAreOpen, ProductInv, ProductTypes, AtCall, AtNothing
    <3> QED BY <3>1, <3>2, <2>8
  <2>10. LastQuoteIsOfPlace'
    BY <2>3, <2>5, <2>6 DEF LastQuoteIsOfPlace, ProductInv, Quoting, AtNothing
  <2>11. SelectedWasShown'
    BY <2>3, <2>5, <2>8 DEF SelectedWasShown, ProductInv, WasShown
  <2>12. ConfirmedStates'
    BY DEF ConfirmedStates, ProductInv, Resolve
  <2> QED BY <2>7, <2>9, <2>10, <2>11, <2>12 DEF ProductInv
<1>5. \/ \E p \in Places : BeginQuote(h, r, p, product[r])
      \/ \E ambiguous \in {<<>>} \cup (Places \X Places) :
           product' = [product EXCEPT ![r].candidates = ambiguous] /\ Return(h)
  BY DEF Resolve
<1> QED BY <1>3, <1>4, <1>5

LEMMA ShowQuoteKeeps ==
    ASSUME ProductInv, NEW h \in Handlers, ShowQuote(h)
    PROVE  ProductInv'
<1> DEFINE r == handlers[h].request
           place == handlers[h].place
           next == [product[r] EXCEPT !.shown = Append(@, place), !.unanswered = IF @ = h THEN Nowhere ELSE @]
<1>1. r \in Requests /\ Quoting(h, r) /\ place \in Places /\ Open(r) /\ product[r] \in OpenRequest
  BY OpenIsRecord DEF ProductInv, ProductTypes, ShowQuote, CallsAreOpen, AtCall, AtNothing, Quoting
<1>2. product' = [product EXCEPT ![r] = next] /\ handlers' = [handlers EXCEPT ![h] = AtNothing]
  BY <1>1 DEF ShowQuote, Return, AtNothing
<1>3. /\ next \in OpenRequest /\ next.is = product[r].is
      /\ next.location = product[r].location /\ next.overlapped = product[r].overlapped
      /\ next.shown = Append(product[r].shown, place)
      /\ next.unanswered = IF product[r].unanswered = h THEN Nowhere ELSE product[r].unanswered
  <2>1. product[r].shown \in Seq(Places) /\ Append(product[r].shown, place) \in Seq(Places)
    BY <1>1 DEF OpenRequest
  <2>2. product[r].unanswered \in Handlers \cup {Nowhere}
    BY <1>1 DEF OpenRequest
  <2>3. next = [product[r] EXCEPT !.shown = Append(product[r].shown, place),
                                  !.unanswered = IF product[r].unanswered = h THEN Nowhere ELSE product[r].unanswered]
    OBVIOUS
  <2> HIDE DEF next, r, place
  <2> QED BY <1>1, <2>1, <2>2, <2>3 DEF OpenRequest
<1>4. \/ product[r].unanswered = h /\ place = product[r].location
      \/ product[r].unanswered # h /\ product[r].overlapped
  BY <1>1 DEF LastQuoteIsOfPlace, ProductInv
<1>5. WasShown(product[r]) /\ product[r].shown \in Seq(Places)
  BY <1>1 DEF ProductInv, SelectedWasShown, OpenRequest
<1> HIDE DEF next, r, place
<1>6. WasShown(next)
  <2>1. /\ next.shown[Len(next.shown)] = place /\ Len(next.shown) \in DOMAIN next.shown
        /\ \A i \in DOMAIN product[r].shown : i \in DOMAIN next.shown /\ next.shown[i] = product[r].shown[i]
    BY <1>1, <1>3, <1>5
  <2>2. CASE product[r].unanswered = h
    BY <2>1, <2>2, <1>3, <1>4 DEF WasShown
  <2>3. CASE product[r].unanswered # h
    BY <2>1, <2>3, <1>3, <1>4, <1>5 DEF WasShown
  <2> QED BY <2>2, <2>3
<1>7. product'[r] = next /\ \A q \in Requests : q # r => product'[q] = product[q]
  BY <1>1, <1>2 DEF ProductInv, ProductTypes
<1>8. handlers'[h] = AtNothing /\ \A g \in Handlers : g # h => handlers'[g] = handlers[g]
  BY <1>2 DEF ProductInv, ProductTypes
<1>9. ProductTypes'
  BY <1>1, <1>2, <1>3 DEF ProductInv, ProductTypes
<1>10. \A q \in Requests : Open(q)' <=> Open(q)
  BY <1>3, <1>7, <1>1 DEF Open
<1>11. CallsAreOpen'
  <2> SUFFICES ASSUME NEW g \in Handlers, handlers'[g].awaits \in {"resolution", "quote"}
               PROVE  Open(handlers[g].request)' /\ handlers'[g] = handlers[g]
    BY DEF CallsAreOpen, ProductInv
  <2>1. handlers'[g] = handlers[g]
    BY <1>8 DEF AtNothing
  <2>2. handlers[g].request \in Requests /\ Open(handlers[g].request)
    BY <2>1 DEF CallsAreOpen, ProductInv, ProductTypes, AtCall, AtNothing
  <2> QED BY <2>1, <2>2, <1>10
<1>12. LastQuoteIsOfPlace'
  <2> SUFFICES ASSUME NEW g \in Handlers, NEW q \in Requests, Quoting(g, q)'
               PROVE  \/ product'[q].unanswered = g /\ handlers'[g].place = product'[q].location
                      \/ product'[q].unanswered # g /\ product'[q].overlapped
    BY DEF LastQuoteIsOfPlace
  <2>1. g # h /\ handlers'[g] = handlers[g] /\ Quoting(g, q)
    BY <1>8 DEF Quoting, AtNothing
  <2>2. \/ product[q].unanswered = g /\ handlers[g].place = product[q].location
        \/ product[q].unanswered # g /\ product[q].overlapped
    BY <2>1 DEF LastQuoteIsOfPlace, ProductInv
  <2>3. CASE q = r
    BY <2>1, <2>2, <2>3, <1>3, <1>4, <1>7, ProductAssumption
  <2>4. CASE q # r
    BY <2>1, <2>2, <2>4, <1>7
  <2> QED BY <2>3, <2>4
<1>13. SelectedWasShown'
  BY <1>6, <1>7, <1>10 DEF SelectedWasShown, ProductInv
<1>14. ConfirmedStates'
  BY DEF ConfirmedStates, ProductInv, ShowQuote
<1> QED BY <1>9, <1>11, <1>12, <1>13, <1>14 DEF ProductInv

LEMMA ConfirmKeeps ==
    ASSUME ProductInv, NEW h \in Handlers, NEW r \in Requests, Confirm(h, r)
    PROVE  ProductInv'
<1>1. /\ product[r] \in OpenRequest /\ WasShown(product[r])
      /\ product[r].location # Nowhere /\ product[r].location \in Places
  BY OpenIsRecord DEF Confirm, ProductInv, SelectedWasShown, OpenRequest
<1>2. handlers' = [handlers EXCEPT ![h] = [awaits |-> "snapshot", request |-> r, place |-> product[r].location]]
  BY DEF Confirm, Awaiting
<1>3. /\ handlers'[h].awaits = "snapshot"
      /\ \A g \in Handlers : g # h => handlers'[g] = handlers[g]
  BY <1>2 DEF ProductInv, ProductTypes
<1>4. ProductTypes'
  BY <1>1, <1>2 DEF Confirm, ProductInv, ProductTypes, AtCall
<1>5. CallsAreOpen'
  BY <1>3 DEF Confirm, ProductInv, CallsAreOpen, Open
<1>6. LastQuoteIsOfPlace'
  BY <1>3 DEF Confirm, ProductInv, LastQuoteIsOfPlace, Quoting
<1>7. SelectedWasShown'
  BY DEF Confirm, ProductInv, SelectedWasShown, Open
<1>8. ConfirmedStates'
  BY <1>1 DEF Confirm, ProductInv, ConfirmedStates
<1> QED BY <1>4, <1>5, <1>6, <1>7, <1>8 DEF ProductInv

LEMMA ProcessRestartsKeeps ==
    ASSUME ProductInv, ProcessRestarts
    PROVE  ProductInv'
<1>1. \A r \in Requests : ~Open(r)' /\ product'[r] \in OpenRequest \cup {NoProduct, [is |-> "expired"]}
  BY DEF ProcessRestarts, Open, ProductInv, ProductTypes
<1>2. \A h \in Handlers : handlers'[h] = AtNothing
  BY DEF ProcessRestarts, AtNothing
<1>3. ProductTypes'
  BY <1>1, <1>2 DEF ProductTypes, ProcessRestarts, AtNothing
<1> QED
  BY <1>1, <1>2, <1>3 DEF ProductInv, CallsAreOpen, LastQuoteIsOfPlace, SelectedWasShown, ConfirmedStates, Quoting,
     ProcessRestarts, AtNothing

LEMMA SelectKeeps ==
    ASSUME ProductInv, NEW h \in Handlers, NEW r \in Requests, NEW i \in 1..2, Select(h, r, i)
    PROVE  ProductInv'
<1>1. product[r] \in OpenRequest /\ i \in DOMAIN product[r].candidates
  BY OpenIsRecord DEF Select, ProductInv
<1>2. product[r].candidates[i] \in Places
  BY <1>1 DEF OpenRequest
<1>3. ~\E q \in Requests : Quoting(h, q)
  BY DEF Select, Quoting, Free
<1> QED BY <1>2, <1>3, BeginQuoteKeeps DEF Select

(* Every step of the product page keeps the invariant. *)
LEMMA ProductKeeps == ProductInv /\ [ProductNext]_productVars => ProductInv'
<1> SUFFICES ASSUME ProductInv, [ProductNext]_productVars PROVE ProductInv'
  OBVIOUS
<1>1. CASE ProcessRestarts
  BY <1>1, ProcessRestartsKeeps
<1>2. ASSUME NEW h \in Handlers, Resolve(h) \/ ShowQuote(h) \/ EndCall(h) PROVE ProductInv'
  BY <1>2, ResolveKeeps, ShowQuoteKeeps, ReturnKeeps DEF EndCall
<1>3. ASSUME NEW h \in Handlers, NEW r \in Requests,
             Start(h, r) \/ Confirm(h, r) \/ \E i \in 1..2 : Select(h, r, i)
      PROVE  ProductInv'
  BY <1>3, StartKeeps, ConfirmKeeps, SelectKeeps
<1>4. CASE UNCHANGED productVars
  BY <1>4 DEF productVars, ProductInv, ProductTypes, CallsAreOpen, LastQuoteIsOfPlace, SelectedWasShown,
     ConfirmedStates, Quoting, Open
<1> QED BY <1>1, <1>2, <1>3, <1>4 DEF ProductNext

LEMMA ProductShows == ProductInv => ConfirmedPlaceWasShown
BY DEF ProductInv, ConfirmedStates, WasShown, ConfirmedPlaceWasShown

-----------------------------------------------------------------------------
(* Project intelligence.                                                       *)
EvidenceRecord == [value : {"meets", "breaks", "missing"}, expires : Int]
Dossier == [Fields -> EvidenceRecord]
Verdicts == {"PASS", "FAIL", "UNRESOLVED"}
GapRecord == [site : Sites, requirement : AllRequirements, status : {"OPEN", "STALE", "RESOLVED"}]

\* The outcomes that are stored were found on the evidence there is, some time ago.
EvaluatedOnce(evs, outcomes, reqs, now) ==
  \A s \in Sites, r \in reqs : \E t \in 0..now : outcomes[s][r] = Evaluation(evs[s], r, t)

\* The view is what build_project_intelligence makes of the document as it is,
\* but for the clock.
ViewOf(view, reqs, site, evs, outcomes, ext, t) ==
  /\ view.built = TRUE /\ view.site = site /\ view.at = t
  /\ view.coverage = [r \in reqs |-> CoverageItem(r, evs[site], outcomes[site][r], ext[site], t)]
  /\ view.state = ProjectState(view.coverage, view.open)
  /\ \A r \in reqs : ~view.coverage[r].provable => view.open # {}
  /\ view.gaps \subseteq GapRecord
  /\ \A g \in view.gaps : g \in view.open \/ g.status = "RESOLVED"

\* A document, the one that is saved or a copy an operation holds.
IsSound(p, reqs, now) ==
  /\ p.evidence \in [Sites -> Dossier] /\ p.evaluated \in [Sites -> [reqs -> Verdicts]]
  /\ p.external \in [Sites -> SUBSET AllRequirements] /\ p.active \in Sites
  /\ EvaluatedOnce(p.evidence, p.evaluated, reqs, now)
  /\ \E t \in 0..now : ViewOf(p.intelligence, reqs, p.active, p.evidence, p.evaluated, p.external, t)

IsOperation(o, reqs, now) ==
  \/ o = NotAwaiting
  \/ /\ o.op \in {"sources", "other", "refresh"} /\ IsSound(o.copy, reqs, now)
     /\ o.op # "other" => o.site \in Sites
     /\ o.op = "refresh" => o.base \in Dossier /\ o.fields \subseteq Fields

IntelligenceTypes ==
  /\ moment \in Nat /\ requirements \subseteq AllRequirements /\ made \in Nat
  /\ onRecord \in [Sites -> SUBSET Dossier] /\ awaiting = [c \in Callers |-> awaiting[c]]
CopiesAreSound ==
  /\ IsSound(document, requirements, moment)
  /\ \A c \in Callers : IsOperation(awaiting[c], requirements, moment)

\* A change belongs to a snapshot a refresh has made.
ChangesArePast == \A change \in recorded : change.to \in Nat /\ change.to <= made

IntelligenceInv == IntelligenceTypes /\ CopiesAreSound /\ ChangesArePast

-----------------------------------------------------------------------------
LEMMA PolicyFields == \A r \in AllRequirements : Policies[r].fields \subseteq Fields
BY DEF AllRequirements, Policies, Fields

LEMMA EvaluationIsVerdict == \A ev, r, t : Evaluation(ev, r, t) \in Verdicts
BY DEF Evaluation, Verdicts, Unknown

LEMMA ItemIs ==
    ASSUME NEW r, NEW ev, NEW outcome, NEW ext, NEW t
    PROVE  LET item == CoverageItem(r, ev, outcome, ext, t) IN
             /\ item.provable = Provable(r, ev, outcome, ext, t)
             /\ item.status = IF Provable(r, ev, outcome, ext, t) THEN outcome ELSE Unknown
BY DEF CoverageItem

KnownGaps(previous) == previous.built \in BOOLEAN /\ (previous.built => previous.gaps \subseteq GapRecord)

LEMMA ViewIsBuilt ==
    ASSUME NEW reqs \in SUBSET AllRequirements, NEW site \in Sites, NEW evs, NEW outcomes, NEW ext, NEW t,
           NEW previous, KnownGaps(previous)
    PROVE  /\ ViewOf(Built(reqs, site, evs, outcomes, ext, previous, t), reqs, site, evs, outcomes, ext, t)
           /\ previous.built => AreKept(previous.gaps, Built(reqs, site, evs, outcomes, ext, previous, t))
<1> DEFINE coverage == [r \in reqs |-> CoverageItem(r, evs[site], outcomes[site][r], ext[site], t)]
           before == IF previous.built THEN previous.gaps ELSE {}
           open == OpenGaps(before, site, coverage)
           closed == ClosedGaps(before, open)
           view == Built(reqs, site, evs, outcomes, ext, previous, t)
<1>1. /\ view.built = TRUE /\ view.site = site /\ view.at = t /\ view.coverage = coverage /\ view.open = open
      /\ view.gaps = open \cup closed /\ view.state = ProjectState(coverage, open)
  BY DEF Built
<1>2. before \subseteq GapRecord /\ DOMAIN coverage = reqs
  BY DEF KnownGaps
<1> HIDE DEF view, coverage, before
<1>3. open \subseteq GapRecord
  <2>1. \A r : GapStatus(before, site, r, coverage[r]) \in {"OPEN", "STALE", "RESOLVED"}
    <3> TAKE r
    <3> DEFINE had == {g \in before : g.site = site /\ g.requirement = r}
    <3>1. had # {} => (CHOOSE g \in had : TRUE) \in had
      OBVIOUS
    <3>2. had # {} => (CHOOSE g \in had : TRUE).status \in {"OPEN", "STALE", "RESOLVED"}
      BY <3>1, <1>2 DEF GapRecord
    <3> HIDE DEF had
    <3>3. GapStatus(before, site, r, coverage[r]) =
            IF coverage[r].stale /= {} THEN "STALE" ELSE IF had /= {} THEN (CHOOSE g \in had : TRUE).status ELSE "OPEN"
      BY DEF GapStatus, had
    <3> QED BY <3>2, <3>3
  <2> QED BY <2>1, <1>2 DEF OpenGaps, GapRecord
<1>4. \A r \in reqs : ~coverage[r].provable => open # {}
  BY <1>2 DEF OpenGaps
<1>5. \A g \in closed : g \in GapRecord /\ g.status = "RESOLVED"
  BY <1>2 DEF ClosedGaps, GapRecord
<1>6. \A g \in before : \E h \in open \cup closed :
        h.site = g.site /\ h.requirement = g.requirement /\ (h \in open \/ h.status = "RESOLVED")
  <2> TAKE g \in before
  <2>1. CASE \E o \in open : o.site = g.site /\ o.requirement = g.requirement
    BY <2>1
  <2>2. CASE ~\E o \in open : o.site = g.site /\ o.requirement = g.requirement
    <3>1. [g EXCEPT !.status = "RESOLVED"] \in closed
      BY <2>2 DEF ClosedGaps
    <3>2. LET h == [g EXCEPT !.status = "RESOLVED"] IN
            h.site = g.site /\ h.requirement = g.requirement /\ h.status = "RESOLVED"
      BY <1>2 DEF GapRecord
    <3> QED BY <3>1, <3>2
  <2> QED BY <2>1, <2>2
<1> HIDE DEF open, closed
<1>7. ViewOf(view, reqs, site, evs, outcomes, ext, t)
  BY <1>1, <1>3, <1>4, <1>5 DEF ViewOf, coverage
<1>8. previous.built => before = previous.gaps
  BY DEF before
<1> QED BY <1>1, <1>6, <1>7, <1>8 DEF view, AreKept

-----------------------------------------------------------------------------
LEMMA SoundLater ==
    ASSUME NEW p, NEW reqs, NEW t \in Nat, NEW u \in Nat, t <= u, IsSound(p, reqs, t)
    PROVE  IsSound(p, reqs, u)
<1>1. 0..t \subseteq 0..u
  OBVIOUS
<1> QED BY <1>1 DEF IsSound, EvaluatedOnce

LEMMA SoundGaps ==
    ASSUME NEW p, NEW reqs, NEW t \in Nat, IsSound(p, reqs, t)
    PROVE  /\ p.intelligence.built = TRUE /\ KnownGaps(p.intelligence)
           /\ AreKept(p.intelligence.gaps, p.intelligence)
<1>1. p.intelligence.built = TRUE /\ KnownGaps(p.intelligence)
  BY DEF IsSound, ViewOf, KnownGaps
<1>2. \A g \in p.intelligence.gaps : g \in p.intelligence.open \/ g.status = "RESOLVED"
  BY DEF IsSound, ViewOf
<1> QED BY <1>1, <1>2 DEF AreKept

\* The view is built of what the document then has, and keeps the gaps there were.
LEMMA RebuiltIsSound ==
    ASSUME moment \in Nat, requirements \subseteq AllRequirements,
           NEW evs \in [Sites -> Dossier], NEW outcomes \in [Sites -> [requirements -> Verdicts]],
           NEW ext \in [Sites -> SUBSET AllRequirements], NEW site \in Sites, NEW selected,
           EvaluatedOnce(evs, outcomes, requirements, moment),
           NEW previous, KnownGaps(previous)
    PROVE  LET p == Rebuilt(evs, outcomes, ext, site, selected, previous) IN
             /\ IsSound(p, requirements, moment)
             /\ p.evidence = evs /\ p.active = site /\ p.evaluated = outcomes
             /\ ViewOf(p.intelligence, requirements, site, evs, outcomes, ext, moment)
             /\ previous.built = TRUE => AreKept(previous.gaps, p.intelligence)
<1> DEFINE p == Rebuilt(evs, outcomes, ext, site, selected, previous)
<1>1. /\ p.evidence = evs /\ p.evaluated = outcomes /\ p.external = ext /\ p.active = site /\ p.pinned = selected
      /\ p.intelligence = Built(requirements, site, evs, outcomes, ext, previous, moment)
  BY DEF Rebuilt
<1> HIDE DEF p
<1>2. /\ ViewOf(p.intelligence, requirements, site, evs, outcomes, ext, moment)
      /\ previous.built = TRUE => AreKept(previous.gaps, p.intelligence)
  BY <1>1, ViewIsBuilt
<1>3. moment \in 0..moment
  OBVIOUS
<1>4. IsSound(p, requirements, moment)
  BY <1>1, <1>2, <1>3 DEF IsSound
<1> QED BY <1>1, <1>2, <1>4 DEF p

\* What an outcome found on some evidence says of it later, while it is current.
LEMMA EvaluationLasts ==
    ASSUME NEW ev \in Dossier, NEW old \in Dossier, NEW r \in AllRequirements, NEW s \in Int, NEW t \in Int, s <= t,
           \A f \in Policies[r].fields : old[f] = ev[f] /\ Current(ev, f, t)
    PROVE  Evaluation(old, r, s) = Evaluation(ev, r, t) /\ \A f \in Policies[r].fields : Current(old, f, s)
<1>1. \A f \in Policies[r].fields : Current(old, f, s) /\ old[f] = ev[f]
  BY PolicyFields DEF Current, Present, Dossier, EvidenceRecord
<1> QED BY <1>1 DEF Evaluation

LEMMA ReadyIsEarned == IntelligenceInv => ReadyStateIsProved
<1> DEFINE view == document.intelligence
           site == document.active
           evs == document.evidence
           outcomes == document.evaluated
           ext == document.external
<1> SUFFICES ASSUME IntelligenceInv, view.state = "READY_FOR_CURRENT_DECISION", NEW r \in requirements
             PROVE  Evaluation(evs[view.site], r, view.at) = "PASS"
  BY DEF ReadyStateIsProved
<1>0. /\ outcomes \in [Sites -> [requirements -> Verdicts]] /\ site \in Sites
      /\ EvaluatedOnce(evs, outcomes, requirements, moment)
      /\ \E t \in 0..moment : ViewOf(view, requirements, site, evs, outcomes, ext, t)
  BY DEF IntelligenceInv, CopiesAreSound, IsSound
<1> HIDE DEF view, site, evs, outcomes, ext
<1>1. PICK t \in 0..moment : ViewOf(view, requirements, site, evs, outcomes, ext, t)
  BY <1>0
<1> DEFINE item == CoverageItem(r, evs[site], outcomes[site][r], ext[site], t)
<1>2. view.coverage[r] = item /\ r \in DOMAIN view.coverage /\ view.site = site /\ view.at = t
  BY <1>1 DEF ViewOf
<1>3. view.open = {} /\ item.status # "FAIL"
  BY <1>1, <1>2 DEF ViewOf, ProjectState
<1>4. item.provable
  BY <1>1, <1>2, <1>3 DEF ViewOf
<1>5. Provable(r, evs[site], outcomes[site][r], ext[site], t) /\ item.status = outcomes[site][r]
  BY <1>4, ItemIs
<1>6. outcomes[site][r] = "PASS"
  BY <1>0, <1>3, <1>5 DEF Provable, Verdicts, Unknown
<1>7. PICK s \in 0..moment : Evaluation(evs[site], r, s) = "PASS"
  BY <1>0, <1>6 DEF EvaluatedOnce
<1>8. /\ Policies[r].fields # {}
      /\ \A f \in Policies[r].fields : Current(evs[site], f, t)
      /\ ~\E f \in Policies[r].fields : evs[site][f].value = "breaks"
  BY <1>5, <1>7 DEF Provable, Evaluation, Unknown
<1> QED BY <1>2, <1>8 DEF Evaluation

-----------------------------------------------------------------------------
\* A document is saved at once, or at the end of an operation that awaited.
LEMMA SavedIsSound ==
    ASSUME IntelligenceInv, UNCHANGED <<moment, requirements>>, IntelligenceTypes', ChangesArePast',
           IsSound(document', requirements, moment),
           \A c \in Callers : awaiting'[c] = awaiting[c] \/ awaiting'[c] = NotAwaiting
    PROVE  IntelligenceInv'
BY DEF IntelligenceInv, CopiesAreSound, IsOperation

LEMMA WriteKeeps ==
    ASSUME IntelligenceInv, NEW site \in Sites, NEW selected,
           Write(Rebuilt(document.evidence, document.evaluated, document.external, site, selected,
                         document.intelligence))
    PROVE  IntelligenceInv' /\ GapsAreKept
<1>1. moment \in Nat /\ requirements \subseteq AllRequirements /\ IsSound(document, requirements, moment)
  BY DEF IntelligenceInv, IntelligenceTypes, CopiesAreSound
<1>2. KnownGaps(document.intelligence) /\ document.intelligence.built = TRUE
  BY <1>1, SoundGaps
<1>3. /\ document' = Rebuilt(document.evidence, document.evaluated, document.external, site, selected,
                             document.intelligence)
      /\ UNCHANGED <<moment, requirements, awaiting, onRecord, made, recorded>>
  BY DEF Write
<1>4. IsSound(document', requirements, moment) /\ AreKept(document.intelligence.gaps, document'.intelligence)
  <2> DEFINE q == Rebuilt(document.evidence, document.evaluated, document.external, site, selected,
                          document.intelligence)
  <2>1. /\ document.evidence \in [Sites -> Dossier] /\ document.evaluated \in [Sites -> [requirements -> Verdicts]]
        /\ document.external \in [Sites -> SUBSET AllRequirements]
        /\ EvaluatedOnce(document.evidence, document.evaluated, requirements, moment)
    BY <1>1 DEF IsSound
  <2>2. /\ IsSound(q, requirements, moment)
        /\ document.intelligence.built = TRUE => AreKept(document.intelligence.gaps, q.intelligence)
    BY <1>1, <1>2, <2>1, RebuiltIsSound
  <2> HIDE DEF q
  <2>3. document' = q
    BY <1>3 DEF q
  <2> QED BY <1>2, <2>2, <2>3
<1>5. IntelligenceTypes' /\ ChangesArePast'
  BY <1>3 DEF IntelligenceInv, IntelligenceTypes, ChangesArePast
<1> QED BY <1>3, <1>4, <1>5, SavedIsSound DEF GapsAreKept

LEMMA BeginKeeps ==
    ASSUME IntelligenceInv, NEW c \in Callers, NEW operation, Begin(c, operation),
           IsOperation(operation, requirements, moment)
    PROVE  IntelligenceInv' /\ GapsAreKept
<1>1. /\ awaiting' = [awaiting EXCEPT ![c] = operation]
      /\ UNCHANGED <<moment, requirements, document, onRecord, made, recorded>>
  BY DEF Begin
<1>2. \A q \in Callers : awaiting'[q] = IF q = c THEN operation ELSE awaiting[q]
  BY <1>1 DEF IntelligenceInv, IntelligenceTypes
<1>3. awaiting' = [q \in Callers |-> awaiting'[q]]
  BY <1>1 DEF IntelligenceInv, IntelligenceTypes
<1>4. IntelligenceTypes' /\ ChangesArePast'
  BY <1>1, <1>3 DEF IntelligenceInv, IntelligenceTypes, ChangesArePast
<1>5. CopiesAreSound'
  BY <1>1, <1>2 DEF IntelligenceInv, CopiesAreSound
<1>6. moment \in Nat /\ IsSound(document, requirements, moment)
  BY DEF IntelligenceInv, IntelligenceTypes, CopiesAreSound
<1>7. GapsAreKept
  BY <1>1, <1>6, SoundGaps DEF GapsAreKept
<1> QED BY <1>4, <1>5, <1>7 DEF IntelligenceInv

LEMMA BeginsKeep ==
    ASSUME IntelligenceInv, NEW c \in Callers,
           BeginOther(c) \/ \E s \in Sites : BeginSources(c, s) \/ BeginCandidateRefresh(c, s)
    PROVE  IntelligenceInv' /\ GapsAreKept
<1>0. IsSound(document, requirements, moment) /\ onRecord \in [Sites -> SUBSET Dossier]
  BY DEF IntelligenceInv, IntelligenceTypes, CopiesAreSound
<1>1. CASE BeginOther(c)
  <2>1. IsOperation([op |-> "other", copy |-> document], requirements, moment)
    BY <1>0 DEF IsOperation
  <2> QED BY <1>1, <2>1, BeginKeeps DEF BeginOther
<1>2. ASSUME NEW s \in Sites, BeginSources(c, s)
      PROVE  IntelligenceInv' /\ GapsAreKept
  <2>1. IsOperation([op |-> "sources", site |-> s, copy |-> document], requirements, moment)
    BY <1>0 DEF IsOperation
  <2> QED BY <1>2, <2>1, BeginKeeps DEF BeginSources
<1>3. ASSUME NEW s \in Sites, BeginCandidateRefresh(c, s)
      PROVE  IntelligenceInv' /\ GapsAreKept
  <2>1. PICK base \in onRecord[s] : \E fields \in SUBSET Fields :
          Begin(c, [op |-> "refresh", site |-> s, base |-> base, fields |-> fields, copy |-> document])
    BY <1>3 DEF BeginCandidateRefresh
  <2>2. PICK fields \in SUBSET Fields :
          Begin(c, [op |-> "refresh", site |-> s, base |-> base, fields |-> fields, copy |-> document])
    BY <2>1
  <2>3. IsOperation([op |-> "refresh", site |-> s, base |-> base, fields |-> fields, copy |-> document],
                    requirements, moment)
    BY <1>0 DEF IsOperation
  <2> QED BY <2>2, <2>3, BeginKeeps
<1> QED BY <1>1, <1>2, <1>3

LEMMA FinishKeeps ==
    ASSUME IntelligenceInv, NEW c \in Callers, awaiting[c] # NotAwaiting, NEW p, Finish(c, p),
           IsSound(p, requirements, moment),
           AreKept(document.intelligence.gaps, p.intelligence) \/ AreKept(awaiting[c].copy.intelligence.gaps, p.intelligence),
           onRecord' \in [Sites -> SUBSET Dossier], made' \in Nat, ChangesArePast'
    PROVE  IntelligenceInv' /\ GapsAreKept
<1>1. /\ document' = p /\ awaiting' = [awaiting EXCEPT ![c] = NotAwaiting]
      /\ UNCHANGED <<moment, requirements>>
  BY DEF Finish
<1>2. \A q \in Callers : awaiting'[q] = IF q = c THEN NotAwaiting ELSE awaiting[q]
  BY <1>1 DEF IntelligenceInv, IntelligenceTypes
<1>3. awaiting' = [q \in Callers |-> awaiting'[q]]
  BY <1>1 DEF IntelligenceInv, IntelligenceTypes
<1>4. IntelligenceTypes'
  BY <1>1, <1>3 DEF IntelligenceInv, IntelligenceTypes
<1>5. IntelligenceInv'
  BY <1>1, <1>2, <1>4, SavedIsSound
<1>6. GapsAreKept
  BY <1>1, <1>2 DEF GapsAreKept
<1> QED BY <1>5, <1>6

LEMMA EndSourcesKeeps ==
    ASSUME IntelligenceInv, NEW c \in Callers, EndSources(c)
    PROVE  IntelligenceInv' /\ GapsAreKept
<1> DEFINE p == awaiting[c].copy
           s == awaiting[c].site
<1>1. PICK found \in {{}, {"acreage", "export"}} :
        Finish(c, Rebuilt(p.evidence, p.evaluated, [p.external EXCEPT ![s] = found], p.active, p.pinned, p.intelligence))
  BY DEF EndSources
<1>2. /\ awaiting[c].op = "sources" /\ awaiting[c] # NotAwaiting
      /\ UNCHANGED <<onRecord, made, recorded>>
  BY DEF EndSources, NotAwaiting
<1>3. /\ moment \in Nat /\ requirements \subseteq AllRequirements
      /\ IsSound(p, requirements, moment) /\ s \in Sites
  BY <1>2 DEF IntelligenceInv, IntelligenceTypes, CopiesAreSound, IsOperation
<1> HIDE DEF p, s
<1>4. [p.external EXCEPT ![s] = found] \in [Sites -> SUBSET AllRequirements]
  <2>1. found \subseteq AllRequirements
    BY DEF AllRequirements, Policies
  <2> QED BY <1>3, <2>1 DEF IsSound
<1>5. KnownGaps(p.intelligence) /\ p.intelligence.built = TRUE
  BY <1>3, SoundGaps
<1> DEFINE q == Rebuilt(p.evidence, p.evaluated, [p.external EXCEPT ![s] = found], p.active, p.pinned, p.intelligence)
<1>6. IsSound(q, requirements, moment) /\ AreKept(p.intelligence.gaps, q.intelligence)
  <2>1. /\ p.evidence \in [Sites -> Dossier] /\ p.evaluated \in [Sites -> [requirements -> Verdicts]]
        /\ EvaluatedOnce(p.evidence, p.evaluated, requirements, moment) /\ p.active \in Sites
    BY <1>3 DEF IsSound
  <2> DEFINE ext == [p.external EXCEPT ![s] = found]
  <2>2. ext \in [Sites -> SUBSET AllRequirements]
    BY <1>4
  <2> HIDE DEF ext
  <2>3. LET w == Rebuilt(p.evidence, p.evaluated, ext, p.active, p.pinned, p.intelligence) IN
          /\ IsSound(w, requirements, moment)
          /\ p.intelligence.built = TRUE => AreKept(p.intelligence.gaps, w.intelligence)
    BY <1>3, <2>1, <2>2, <1>5, RebuiltIsSound
  <2> QED BY <1>5, <2>3 DEF ext
<1>7. onRecord' \in [Sites -> SUBSET Dossier] /\ made' \in Nat /\ ChangesArePast'
  BY <1>2 DEF IntelligenceInv, IntelligenceTypes, ChangesArePast
<1> HIDE DEF q
<1>8. Finish(c, q)
  BY <1>1 DEF q
<1> QED BY <1>2, <1>6, <1>7, <1>8, FinishKeeps DEF p

LEMMA EndOtherKeeps ==
    ASSUME IntelligenceInv, NEW c \in Callers, EndOther(c)
    PROVE  IntelligenceInv' /\ GapsAreKept
<1>1. /\ awaiting[c].op = "other" /\ awaiting[c] # NotAwaiting /\ Finish(c, awaiting[c].copy)
      /\ UNCHANGED <<onRecord, made, recorded>>
  BY DEF EndOther, NotAwaiting
<1>2. moment \in Nat /\ IsSound(awaiting[c].copy, requirements, moment)
  BY <1>1 DEF IntelligenceInv, IntelligenceTypes, CopiesAreSound, IsOperation
<1>3. AreKept(awaiting[c].copy.intelligence.gaps, awaiting[c].copy.intelligence)
  BY <1>2, SoundGaps
<1>4. onRecord' \in [Sites -> SUBSET Dossier] /\ made' \in Nat /\ ChangesArePast'
  BY <1>1 DEF IntelligenceInv, IntelligenceTypes, ChangesArePast
<1> QED BY <1>1, <1>2, <1>3, <1>4, FinishKeeps

LEMMA CallerGivesUpKeeps ==
    ASSUME IntelligenceInv, NEW c \in Callers, CallerGivesUp(c)
    PROVE  IntelligenceInv' /\ GapsAreKept
<1>1. /\ awaiting[c] # NotAwaiting /\ Finish(c, document) /\ UNCHANGED <<onRecord, made, recorded>>
  BY DEF CallerGivesUp
<1>2. moment \in Nat /\ IsSound(document, requirements, moment)
  BY DEF IntelligenceInv, IntelligenceTypes, CopiesAreSound
<1>3. AreKept(document.intelligence.gaps, document.intelligence)
  BY <1>2, SoundGaps
<1>4. onRecord' \in [Sites -> SUBSET Dossier] /\ made' \in Nat /\ ChangesArePast'
  BY <1>1 DEF IntelligenceInv, IntelligenceTypes, ChangesArePast
<1> QED BY <1>1, <1>2, <1>3, <1>4, FinishKeeps

LEMMA MomentPassesKeeps ==
    ASSUME IntelligenceInv, MomentPasses
    PROVE  IntelligenceInv' /\ GapsAreKept
<1>1. /\ moment \in Nat /\ moment' \in Nat /\ moment <= moment'
      /\ UNCHANGED <<requirements, document, awaiting, onRecord, made, recorded>>
  BY DEF MomentPasses, IntelligenceInv, IntelligenceTypes
<1>2. IntelligenceTypes' /\ ChangesArePast'
  BY <1>1 DEF IntelligenceInv, IntelligenceTypes, ChangesArePast
<1>3. \A p : IsSound(p, requirements, moment) => IsSound(p, requirements, moment')
  BY <1>1, SoundLater
<1>4. CopiesAreSound'
  BY <1>1, <1>3 DEF IntelligenceInv, CopiesAreSound, IsOperation
<1>5. GapsAreKept
  BY <1>1, SoundGaps DEF GapsAreKept, IntelligenceInv, CopiesAreSound
<1> QED BY <1>2, <1>4, <1>5 DEF IntelligenceInv

-----------------------------------------------------------------------------
LEMMA FetchedIsDossier ==
    ASSUME moment \in Nat, NEW base \in Dossier, NEW fields \in SUBSET Fields,
           NEW values \in [fields -> {"meets", "breaks", "missing"}]
    PROVE  Fetched(base, fields, values) \in Dossier
BY IntelligenceAssumption DEF Fetched, Dossier, EvidenceRecord, Absent

\* What a refresh saves: the site's new evidence, evaluated on it, in the copy.
LEMMA RefreshSaves ==
    ASSUME IntelligenceInv, NEW c \in Callers, EndCandidateRefresh(c)
    PROVE  LET p == awaiting[c].copy
               s == awaiting[c].site IN
             /\ IsSound(p, requirements, moment) /\ s \in Sites /\ awaiting[c].base \in Dossier
             /\ \E new \in Dossier :
                  /\ document'.evidence = [p.evidence EXCEPT ![s] = new]
                  /\ document'.evaluated = [p.evaluated EXCEPT ![s] = [r \in requirements |-> Evaluation(new, r, moment)]]
                  /\ ViewOf(document'.intelligence, requirements, document'.active, document'.evidence,
                            document'.evaluated, p.external, moment)
                  /\ onRecord' = [onRecord EXCEPT ![s] = @ \cup {new}]
                  /\ recorded' = recorded \cup
                       Changes(s, made', awaiting[c].base, new, p.intelligence, document'.intelligence)
             /\ made' = made + 1 /\ Finish(c, document')
             /\ IsSound(document', requirements, moment)
             /\ AreKept(p.intelligence.gaps, document'.intelligence)
<1> DEFINE p == awaiting[c].copy
           s == awaiting[c].site
           base == awaiting[c].base
           fields == awaiting[c].fields
           evs(new) == [p.evidence EXCEPT ![s] = new]
           outcomes(new) == [p.evaluated EXCEPT ![s] = [r \in requirements |-> Evaluation(new, r, moment)]]
           saved(new, site) == Rebuilt(evs(new), outcomes(new), p.external, site, p.pinned, p.intelligence)
<1>1. /\ moment \in Nat /\ requirements \subseteq AllRequirements
      /\ IsSound(p, requirements, moment) /\ s \in Sites /\ base \in Dossier /\ fields \in SUBSET Fields
  BY DEF EndCandidateRefresh, NotAwaiting, IntelligenceInv, IntelligenceTypes, CopiesAreSound, IsOperation
<1>2. PICK values \in [fields -> {"meets", "breaks", "missing"}],
           site \in IF p.pinned THEN {p.active} ELSE Sites :
        LET new == Fetched(base, fields, values) IN
          /\ Finish(c, saved(new, site))
          /\ onRecord' = [onRecord EXCEPT ![s] = @ \cup {new}]
          /\ made' = made + 1
          /\ recorded' = recorded \cup Changes(s, made', base, new, p.intelligence, document'.intelligence)
  BY DEF EndCandidateRefresh
<1> HIDE DEF p, s, base, fields
<1> DEFINE new == Fetched(base, fields, values)
<1>3. new \in Dossier
  BY <1>1, FetchedIsDossier
<1>4. site \in Sites
  BY <1>1, <1>2 DEF IsSound
<1> HIDE DEF new
<1>5. /\ evs(new) \in [Sites -> Dossier]
      /\ evs(new)[s] = new /\ \A q \in Sites : q # s => evs(new)[q] = p.evidence[q]
  BY <1>1, <1>3 DEF IsSound
<1>6. [r \in requirements |-> Evaluation(new, r, moment)] \in [requirements -> Verdicts]
  BY EvaluationIsVerdict
<1>7. /\ outcomes(new) \in [Sites -> [requirements -> Verdicts]]
      /\ outcomes(new)[s] = [r \in requirements |-> Evaluation(new, r, moment)]
      /\ \A q \in Sites : q # s => outcomes(new)[q] = p.evaluated[q]
  BY <1>1, <1>6 DEF IsSound
<1>8. EvaluatedOnce(evs(new), outcomes(new), requirements, moment)
  <2> SUFFICES ASSUME NEW q \in Sites, NEW r \in requirements
               PROVE  \E t \in 0..moment : outcomes(new)[q][r] = Evaluation(evs(new)[q], r, t)
    BY DEF EvaluatedOnce
  <2>1. CASE q = s
    <3>1. moment \in 0..moment
      BY <1>1
    <3> QED BY <2>1, <1>5, <1>7, <3>1
  <2>2. CASE q # s
    BY <2>2, <1>1, <1>5, <1>7 DEF IsSound, EvaluatedOnce
  <2> QED BY <2>1, <2>2
<1>9. KnownGaps(p.intelligence) /\ p.intelligence.built = TRUE
  BY <1>1, SoundGaps
<1>10. document' = saved(new, site) /\ Finish(c, document')
  BY <1>2 DEF Finish, new
<1>11. p.external \in [Sites -> SUBSET AllRequirements]
  BY <1>1 DEF IsSound
<1> DEFINE e == evs(new)
           o == outcomes(new)
<1> HIDE DEF evs, outcomes, e, o
<1>12. document' = Rebuilt(e, o, p.external, site, p.pinned, p.intelligence)
  BY <1>10 DEF e, o
<1>13. e \in [Sites -> Dossier] /\ o \in [Sites -> [requirements -> Verdicts]]
       /\ EvaluatedOnce(e, o, requirements, moment)
  BY <1>5, <1>7, <1>8 DEF e, o
<1>14. /\ IsSound(document', requirements, moment)
       /\ document'.evidence = e /\ document'.active = site /\ document'.evaluated = o
       /\ ViewOf(document'.intelligence, requirements, site, e, o, p.external, moment)
       /\ AreKept(p.intelligence.gaps, document'.intelligence)
  <2> DEFINE q == Rebuilt(e, o, p.external, site, p.pinned, p.intelligence)
  <2>1. /\ IsSound(q, requirements, moment)
        /\ q.evidence = e /\ q.active = site /\ q.evaluated = o
        /\ ViewOf(q.intelligence, requirements, site, e, o, p.external, moment)
        /\ p.intelligence.built = TRUE => AreKept(p.intelligence.gaps, q.intelligence)
    BY <1>1, <1>4, <1>9, <1>11, <1>13, RebuiltIsSound
  <2> HIDE DEF q
  <2>2. document' = q
    BY <1>12 DEF q
  <2> QED BY <1>9, <2>1, <2>2
<1>15. /\ onRecord' = [onRecord EXCEPT ![s] = @ \cup {new}] /\ made' = made + 1
       /\ recorded' = recorded \cup Changes(s, made', base, new, p.intelligence, document'.intelligence)
  BY <1>2 DEF new
<1>16. /\ document'.evidence = [p.evidence EXCEPT ![s] = new]
       /\ document'.evaluated = [p.evaluated EXCEPT ![s] = [r \in requirements |-> Evaluation(new, r, moment)]]
       /\ ViewOf(document'.intelligence, requirements, document'.active, document'.evidence,
                 document'.evaluated, p.external, moment)
  BY <1>14 DEF e, o, evs, outcomes
<1> QED BY <1>1, <1>3, <1>10, <1>14, <1>15, <1>16 DEF p, s, base

LEMMA EndCandidateRefreshKeeps ==
    ASSUME IntelligenceInv, NEW c \in Callers, EndCandidateRefresh(c)
    PROVE  IntelligenceInv' /\ GapsAreKept
<1> DEFINE p == awaiting[c].copy
           s == awaiting[c].site
<1>1. /\ s \in Sites /\ made' = made + 1 /\ Finish(c, document')
      /\ IsSound(document', requirements, moment) /\ AreKept(p.intelligence.gaps, document'.intelligence)
  BY RefreshSaves
<1>2. PICK new \in Dossier :
        /\ onRecord' = [onRecord EXCEPT ![s] = @ \cup {new}]
        /\ recorded' = recorded \cup
             Changes(s, made', awaiting[c].base, new, p.intelligence, document'.intelligence)
  BY RefreshSaves
<1>3. awaiting[c] # NotAwaiting
  BY DEF EndCandidateRefresh, NotAwaiting
<1>4. onRecord' \in [Sites -> SUBSET Dossier] /\ made' \in Nat /\ made \in Nat
  BY <1>1, <1>2 DEF IntelligenceInv, IntelligenceTypes
<1>5. ChangesArePast'
  <2>1. \A change \in Changes(s, made', awaiting[c].base, new, p.intelligence, document'.intelligence) :
          change.to = made'
    BY DEF Changes
  <2> QED BY <1>1, <1>2, <1>4, <2>1 DEF IntelligenceInv, ChangesArePast
<1> QED BY <1>1, <1>3, <1>4, <1>5, FinishKeeps

\* Where the status of a requirement has changed and what it rests on is current,
\* a field of it differs, and the refresh records that.
LEMMA RefreshRecords == IntelligenceInv => StatusChangeIsRecorded
<1> SUFFICES ASSUME IntelligenceInv, NEW c \in Callers, EndCandidateRefresh(c),
                    awaiting[c].copy.active = awaiting[c].site, document'.active = awaiting[c].site,
                    awaiting[c].base = awaiting[c].copy.evidence[awaiting[c].site], NEW r \in requirements,
                    awaiting[c].copy.intelligence.coverage[r].status /= document'.intelligence.coverage[r].status,
                    \A f \in Policies[r].fields : Current(document'.evidence[awaiting[c].site], f, moment)
             PROVE  \E change \in recorded' \ recorded : change.site = awaiting[c].site /\ r \in change.requirements
  BY DEF StatusChangeIsRecorded
<1> DEFINE p == awaiting[c].copy
           s == awaiting[c].site
           old == awaiting[c].base
           before == p.intelligence
           after == document'.intelligence
           evaluated == p.evaluated
           external == p.external
<1>1. /\ IsSound(p, requirements, moment) /\ s \in Sites /\ old \in Dossier /\ made' = made + 1
      /\ p.active = s /\ old = p.evidence[s]
      /\ before.coverage[r].status /= after.coverage[r].status
  BY RefreshSaves
<1>2. PICK new \in Dossier :
        /\ document'.evidence = [p.evidence EXCEPT ![s] = new]
        /\ document'.evaluated = [evaluated EXCEPT ![s] = [q \in requirements |-> Evaluation(new, q, moment)]]
        /\ ViewOf(after, requirements, s, document'.evidence, document'.evaluated, external, moment)
        /\ recorded' = recorded \cup Changes(s, made', old, new, before, after)
  BY RefreshSaves
<1>3. moment \in Nat /\ requirements \subseteq AllRequirements /\ made \in Nat
  BY DEF IntelligenceInv, IntelligenceTypes
<1>4. /\ document'.evidence[s] = new /\ document'.evaluated[s][r] = Evaluation(new, r, moment)
      /\ \A f \in Policies[r].fields : Current(new, f, moment)
  <2>1. p.evidence \in [Sites -> Dossier] /\ evaluated \in [Sites -> [requirements -> Verdicts]]
    BY <1>1 DEF IsSound
  <2>2. document'.evidence[s] = new
    BY <1>1, <1>2, <2>1
  <2> QED BY <1>1, <1>2, <2>1, <2>2
<1>5. \E t \in 0..moment : ViewOf(before, requirements, s, p.evidence, evaluated, external, t)
  BY <1>1 DEF IsSound
<1>6. \E u \in 0..moment : evaluated[s][r] = Evaluation(old, r, u)
  BY <1>1 DEF IsSound, EvaluatedOnce
<1> DEFINE outcome == evaluated[s][r]
           ext == external[s]
           evs == p.evidence
           evs2 == document'.evidence
           outcomes2 == document'.evaluated
<1>6a. old = evs[s] /\ evs2[s] = new /\ outcomes2[s][r] = Evaluation(new, r, moment)
       /\ \E t \in 0..moment : ViewOf(before, requirements, s, evs, evaluated, external, t)
       /\ ViewOf(after, requirements, s, evs2, outcomes2, external, moment)
  BY <1>1, <1>2, <1>4, <1>5
<1> HIDE DEF p, s, old, before, after, evaluated, external, evs, evs2, outcomes2
<1>7. PICK t \in 0..moment : before.coverage[r] = CoverageItem(r, old, outcome, ext, t)
  BY <1>6a DEF ViewOf
<1>8. PICK u \in 0..moment : outcome = Evaluation(old, r, u)
  BY <1>6
<1>9. /\ after.coverage[r] = CoverageItem(r, new, Evaluation(new, r, moment), ext, moment)
      /\ DOMAIN after.coverage = requirements
  BY <1>6a DEF ViewOf
<1>10. r \in AllRequirements
  BY <1>3
<1> HIDE DEF outcome, ext
<1>11. \E f \in Policies[r].fields : old[f] # new[f]
  <2> SUFFICES ASSUME \A f \in Policies[r].fields : old[f] = new[f] PROVE FALSE
    OBVIOUS
  <2>1. \A f \in Policies[r].fields : old[f] = new[f] /\ Current(new, f, moment)
    BY <1>4
  <2>2. /\ Evaluation(old, r, u) = Evaluation(new, r, moment)
        /\ \A f \in Policies[r].fields : Current(old, f, t)
    BY <1>1, <1>2, <1>3, <1>10, <2>1, EvaluationLasts
  <2>3. outcome = Evaluation(new, r, moment)
    BY <1>8, <2>2
  <2>4. Provable(r, old, outcome, ext, t) <=> Provable(r, new, outcome, ext, moment)
    BY <2>1, <2>2 DEF Provable
  <2>5. before.coverage[r].status = after.coverage[r].status
    BY <1>7, <1>9, <2>3, <2>4, ItemIs
  <2> QED BY <1>1, <2>5
<1>12. PICK f \in Policies[r].fields : old[f] # new[f]
  BY <1>11
<1>13. f \in Fields /\ new[f].value # "missing" /\ old[f] \in EvidenceRecord /\ new[f] \in EvidenceRecord
  BY <1>1, <1>2, <1>4, <1>10, PolicyFields DEF Current, Present, Dossier
<1>14. PICK kind \in AllKinds : kind \in Kinds(old[f], new[f])
  <2>1. old[f].value # new[f].value \/ old[f].expires # new[f].expires
    BY <1>12, <1>13 DEF EvidenceRecord
  <2> QED BY <1>13, <2>1 DEF Kinds, AllKinds
<1> DEFINE change == [site |-> s, to |-> made', field |-> f, kind |-> kind,
                      requirements |-> Dependents(f, before, after)]
<1>15. change \in Changes(s, made', old, new, before, after)
  <2>1. <<f, kind>> \in {d \in Fields \X AllKinds : d[2] \in Kinds(old[d[1]], new[d[1]])}
    BY <1>13, <1>14
  <2> QED BY <2>1 DEF Changes
<1>16. change \in recorded' \ recorded
  <2>1. change \in recorded'
    BY <1>2, <1>15
  <2>2. change.to = made + 1
    BY <1>1
  <2> QED BY <1>3, <2>1, <2>2 DEF IntelligenceInv, ChangesArePast
<1>17. r \in change.requirements /\ change.site = s
  BY <1>9, <1>12 DEF Dependents
<1> QED BY <1>16, <1>17 DEF s

LEMMA IntelligenceStarts ==
    ASSUME NEW records \in SUBSET Dossier
    PROVE  IntelligenceInit(records) => IntelligenceInv
<1> SUFFICES ASSUME IntelligenceInit(records) PROVE IntelligenceInv
  OBVIOUS
<1>1. /\ moment = 0 /\ requirements \subseteq AllRequirements /\ made = 0 /\ recorded = {}
      /\ awaiting = [c \in Callers |-> NotAwaiting]
  BY DEF IntelligenceInit, AllRequirements, Policies
<1> DEFINE outcomesOf(evs) == [s \in Sites |-> [r \in requirements |-> Evaluation(evs[s], r, 0)]]
           none == [s \in Sites |-> {}]
<1>2. PICK evs \in [Sites -> records], site \in Sites :
        /\ document = Rebuilt(evs, outcomesOf(evs), none, site, FALSE, NotBuilt)
        /\ onRecord = [s \in Sites |-> {evs[s]}]
  BY DEF IntelligenceInit
<1>3. evs \in [Sites -> Dossier] /\ none \in [Sites -> SUBSET AllRequirements]
  OBVIOUS
<1> DEFINE o == outcomesOf(evs)
<1>4. o \in [Sites -> [requirements -> Verdicts]]
  BY EvaluationIsVerdict
<1>5. EvaluatedOnce(evs, o, requirements, moment)
  <2>1. 0 \in 0..moment
    BY <1>1
  <2> QED BY <2>1 DEF EvaluatedOnce
<1>6. KnownGaps(NotBuilt) /\ moment \in Nat
  BY <1>1 DEF NotBuilt, KnownGaps
<1> HIDE DEF o, none
<1>7. document = Rebuilt(evs, o, none, site, FALSE, NotBuilt)
  BY <1>2 DEF o, none
<1>8. IsSound(document, requirements, moment)
  BY <1>1, <1>3, <1>4, <1>5, <1>6, <1>7, RebuiltIsSound
<1>9. IntelligenceTypes
  BY <1>1, <1>2, <1>3, <1>6 DEF IntelligenceTypes
<1> QED BY <1>1, <1>8, <1>9 DEF IntelligenceInv, CopiesAreSound, IsOperation, ChangesArePast

(* Every step keeps the invariant and drops nothing.                           *)
LEMMA IntelligenceKeeps ==
    ASSUME IntelligenceInv, [IntelligenceNext]_intelVars
    PROVE  IntelligenceInv' /\ ((GapsAreKept /\ StatusChangeIsRecorded) \/ UNCHANGED intelVars)
<1>1. CASE UNCHANGED intelVars
  BY <1>1 DEF intelVars, IntelligenceInv, IntelligenceTypes, CopiesAreSound, ChangesArePast
<1>2. CASE Recompute
  <2>1. document.active \in Sites
    BY DEF IntelligenceInv, CopiesAreSound, IsSound
  <2> QED BY <1>2, <2>1, WriteKeeps, RefreshRecords DEF Recompute
<1>3. CASE MomentPasses
  BY <1>3, MomentPassesKeeps, RefreshRecords
<1>4. ASSUME NEW s \in Sites, SelectSite(s)
      PROVE  IntelligenceInv' /\ GapsAreKept
  BY <1>4, WriteKeeps DEF SelectSite
<1>5. ASSUME NEW c \in Callers,
             \/ BeginOther(c) \/ EndOther(c) \/ EndSources(c) \/ EndCandidateRefresh(c) \/ CallerGivesUp(c)
             \/ \E s \in Sites : BeginSources(c, s) \/ BeginCandidateRefresh(c, s)
      PROVE  IntelligenceInv' /\ GapsAreKept
  BY <1>5, BeginsKeep, EndOtherKeeps, EndSourcesKeeps, EndCandidateRefreshKeeps, CallerGivesUpKeeps
<1> QED BY <1>1, <1>2, <1>3, <1>4, <1>5, RefreshRecords DEF IntelligenceNext

-------------------------------------------------------------------------------
(* Worlds.                                                                     *)
Known == Overture \cup {"terrain", "transmission"}
KnownWants(wanted) == \A layers \in wanted : layers \subseteq Known
KnownSources(sources) == \A src \in sources : src.up \subseteq Overture

\* Every layer that is available was built for the area.
BuiltFor(layers, aoi) == \A l \in DOMAIN layers : layers[l].available => layers[l].builtFor = aoi
WorldFits(world) == BuiltFor(world.layers, world.aoi)
WorldsFit == \A i \in DOMAIN worlds : WorldFits(worlds[i])
WorldsAreListed == \E S : worlds \in Seq(S)
RequestFits == request = NoRequest \/ /\ request.status = "building" /\ request.layers \subseteq Known
                                      /\ request.prefer \in BOOLEAN
                                      /\ BuiltFor(request.existing, request.aoi)
SceneIsStored == /\ DOMAIN scene = {"snapshot", "world", "status", "anchors"}
                 /\ scene.status = "DERIVED" => scene.world \in DOMAIN worlds

WorldInv ==
  /\ WorldsAreListed /\ WorldsFit /\ RequestFits /\ SceneIsStored
  /\ LayersFitTogether /\ FailuresAreNotKept /\ ElevationsAreOfTheirWorld

\* Which product is tried first: what the catalogue has decides, in the order
\* that was asked for.
LEMMA DiscoveredIs ==
    ASSUME NEW src, NEW prefer \in BOOLEAN
    PROVE  /\ ~src.catalog => \A forced \in BOOLEAN : Discovered(src, prefer, forced) = 10
           /\ 10 \in src.products => /\ Discovered(src, prefer, TRUE) = 10
                                     /\ Discovered(src, prefer, FALSE) \in {1, 10}
           /\ src.catalog /\ 1 \in src.products /\ (prefer \/ 10 \notin src.products)
                => Discovered(src, prefer, FALSE) = 1
BY DEF Discovered

LEMMA CoarseIs ==
    ASSUME NEW src, NEW prefer, NEW forced, Discovered(src, prefer, forced) = 10, TenMetres(src)
    PROVE  Attempt(src, prefer, forced) = "coarse"
BY DEF Attempt, TenMetres

LEMMA BuildTerrainIs ==
    ASSUME NEW src, NEW prefer \in BOOLEAN, NEW aoi
    PROVE  LET t == BuildTerrain(src, prefer, aoi) IN
             /\ t.available => t.builtFor = aoi
             /\ src.downloads /\ TerrainCanBeHad(src, prefer) => t.available
<1>1. LET t == BuildTerrain(src, prefer, aoi) IN t.available => t.builtFor = aoi
  BY DEF BuildTerrain, Unavailable
<1>2. ASSUME src.downloads, TerrainCanBeHad(src, prefer) PROVE Terrain(src, prefer) # "failed"
  <2>1. CASE OneMetre(src) /\ (prefer \/ 10 \notin src.products)
    <3>1. Discovered(src, prefer, FALSE) = 1
      BY <2>1, DiscoveredIs DEF OneMetre
    <3>2. Attempt(src, prefer, FALSE) = "fine"
      BY <1>2, <2>1, <3>1 DEF Attempt, OneMetre
    <3> QED BY <3>2 DEF Terrain
  <2>2. CASE TenMetres(src)
    <3>1. Discovered(src, prefer, TRUE) = 10 /\ Discovered(src, prefer, FALSE) \in {1, 10}
      BY <2>2, DiscoveredIs DEF TenMetres
    <3>2. Attempt(src, prefer, TRUE) = "coarse"
      BY <2>2, <3>1, CoarseIs
    <3>3. CASE Discovered(src, prefer, FALSE) = 10
      <4>1. Attempt(src, prefer, FALSE) = "coarse"
        BY <2>2, <3>3, CoarseIs
      <4> QED BY <4>1 DEF Terrain
    <3>4. CASE Discovered(src, prefer, FALSE) = 1
      <4>1. Attempt(src, prefer, FALSE) \in {"fine", "again"}
        BY <1>2, <3>4 DEF Attempt
      <4> QED BY <3>2, <4>1 DEF Terrain
    <3> QED BY <3>1, <3>3, <3>4
  <2> QED BY <1>2, <2>1, <2>2 DEF TerrainCanBeHad
<1> QED BY <1>1, <1>2 DEF BuildTerrain

\* The layers of a new world: of its area and release, and there if they can be had.
LEMMA BuiltLayersAre ==
    ASSUME NEW r, r.prefer \in BOOLEAN, NEW src, r.layers \subseteq Known, src.up \subseteq Overture,
           BuiltFor(r.existing, r.aoi), NEW l \in r.layers
    PROVE  LET built == BuiltLayers(r, src) IN
             /\ DOMAIN built = r.layers
             /\ built[l].available => /\ built[l].builtFor = r.aoi
                                      /\ l \in Overture => built[l].release = r.release
             /\ l \in src.up \/ (l = "terrain" /\ src.downloads /\ TerrainCanBeHad(src, r.prefer)) => built[l].available
<1> DEFINE layer == BuiltLayers(r, src)[l]
<1>1. DOMAIN BuiltLayers(r, src) = r.layers
  BY DEF BuiltLayers
<1>2. CASE l = "terrain"
  <2>1. layer = IF ReusableTerrain(r) THEN r.existing[l] ELSE BuildTerrain(src, r.prefer, r.aoi)
    BY <1>2 DEF BuiltLayers, Overture, Optional
  <2>2. ReusableTerrain(r) => r.existing[l].available /\ r.existing[l].builtFor = r.aoi
    BY <1>2 DEF ReusableTerrain, BuiltFor
  <2>3. l \notin Overture /\ l \notin src.up
    BY <1>2 DEF Overture, Optional
  <2>4. LET t == BuildTerrain(src, r.prefer, r.aoi) IN
          /\ t.available => t.builtFor = r.aoi
          /\ src.downloads /\ TerrainCanBeHad(src, r.prefer) => t.available
    BY BuildTerrainIs
  <2> QED BY <1>1, <2>1, <2>2, <2>3, <2>4
<1>3. CASE l \in Overture
  <2>1. layer = IF Reusable(r, l) THEN r.existing[l] ELSE BuildOverture(l, src, r.aoi, r.release)
    BY <1>3 DEF BuiltLayers, Overture, Optional
  <2>2. Reusable(r, l) => /\ r.existing[l].available /\ r.existing[l].builtFor = r.aoi
                          /\ r.existing[l].release = r.release
    BY DEF Reusable, BuiltFor
  <2>3. l # "terrain"
    BY <1>3 DEF Overture, Optional
  <2> QED BY <1>1, <2>1, <2>2, <2>3 DEF BuildOverture, Unavailable
<1>4. CASE l = "transmission"
  <2>1. layer = Unavailable
    BY <1>4 DEF BuiltLayers, Overture, Optional
  <2>2. l \notin Overture /\ l \notin src.up /\ l # "terrain"
    BY <1>4 DEF Overture, Optional
  <2> QED BY <1>1, <2>1, <2>2 DEF Unavailable
<1> QED BY <1>2, <1>3, <1>4 DEF Known

LEMMA LatestOfIs ==
    ASSUME WorldsAreListed, NEW is \in SUBSET DOMAIN worlds, is # {}
    PROVE  LatestOf(is) \in is
<1>1. DOMAIN worlds = 1..Len(worlds) /\ Len(worlds) \in Nat
  BY DEF WorldsAreListed
<1>2. \E i \in is : \A j \in is : j <= i
  BY <1>1, MaxOfNaturals
<1> QED BY <1>2 DEF LatestOf

LEMMA BeginWorldKeeps ==
    ASSUME WorldInv, NEW s \in Snapshots, NEW b, NEW layers, layers \subseteq Known, NEW prefer \in BOOLEAN,
           NEW release, BeginWorld(s, b, layers, prefer, release)
    PROVE  WorldInv'
<1> DEFINE aoi == Aoi(s, b)
<1>1. BuiltFor(Existing(s, aoi), aoi)
  <2> DEFINE own == {i \in DOMAIN worlds : worlds[i].snapshot = s}
             alike == {i \in DOMAIN worlds : worlds[i].aoi = aoi}
             from == IF own /= {} THEN own ELSE alike
  <2>1. Existing(s, aoi) = IF from /= {} /\ SameAoi(worlds[LatestOf(from)], aoi)
                           THEN worlds[LatestOf(from)].layers ELSE NoLayers
    BY DEF Existing
  <2>2. from \in SUBSET DOMAIN worlds
    OBVIOUS
  <2> HIDE DEF from, aoi
  <2>3. CASE from /= {} /\ SameAoi(worlds[LatestOf(from)], aoi)
    <3>1. WorldFits(worlds[LatestOf(from)])
      BY <2>2, <2>3, LatestOfIs DEF WorldInv, WorldsFit
    <3> QED BY <2>1, <2>3, <3>1 DEF SameAoi, WorldFits
  <2>4. BuiltFor(NoLayers, aoi)
    BY DEF BuiltFor, NoLayers
  <2> QED BY <2>1, <2>3, <2>4
<1>2. /\ request' = [status |-> "building", snapshot |-> s, aoi |-> aoi, layers |-> layers,
                     prefer |-> prefer, release |-> release, existing |-> Existing(s, aoi)]
      /\ UNCHANGED <<worlds, last, scene>>
  BY DEF BeginWorld
<1> HIDE DEF aoi
<1>3. RequestFits'
  BY <1>1, <1>2 DEF RequestFits
<1>4. /\ WorldsAreListed' /\ WorldsFit' /\ SceneIsStored' /\ LayersFitTogether'
      /\ FailuresAreNotKept' /\ ElevationsAreOfTheirWorld'
  BY <1>2 DEF WorldInv, WorldsAreListed, WorldsFit, SceneIsStored, LayersFitTogether,
              FailuresAreNotKept, ElevationsAreOfTheirWorld
<1> QED BY <1>3, <1>4 DEF WorldInv

LEMMA FinishWorldKeeps ==
    ASSUME WorldInv, NEW src, src.up \subseteq Overture, FinishWorld(src)
    PROVE  WorldInv'
<1> DEFINE built == BuiltLayers(request, src)
           world == [snapshot |-> request.snapshot, aoi |-> request.aoi, layers |-> built]
<1>1. /\ worlds' = IF world \in Range(worlds) THEN worlds ELSE Append(worlds, world)
      /\ last' = [request |-> request, sources |-> src, world |-> world]
      /\ request' = NoRequest /\ scene' = scene
  BY DEF FinishWorld
<1>2. /\ request.status = "building" /\ request.layers \subseteq Known /\ request.prefer \in BOOLEAN
      /\ BuiltFor(request.existing, request.aoi)
  BY DEF FinishWorld, WorldInv, RequestFits
<1>3. \A l \in request.layers :
        /\ DOMAIN built = request.layers
        /\ built[l].available => /\ built[l].builtFor = request.aoi
                                 /\ l \in Overture => built[l].release = request.release
        /\ l \in src.up \/ (l = "terrain" /\ src.downloads /\ TerrainCanBeHad(src, request.prefer)) => built[l].available
  BY <1>2, BuiltLayersAre
<1>4. DOMAIN built = request.layers
  BY DEF BuiltLayers
<1> HIDE DEF built
<1>5. WorldFits(world)
  BY <1>3, <1>4 DEF WorldFits, BuiltFor
<1>6. world.layers = built
  OBVIOUS
<1> HIDE DEF world
<1>7. /\ WorldsAreListed' /\ DOMAIN worlds \subseteq DOMAIN worlds'
      /\ \A i \in DOMAIN worlds : worlds'[i] = worlds[i]
      /\ \A i \in DOMAIN worlds' : i \in DOMAIN worlds \/ worlds'[i] = world
  <2>1. PICK S : worlds \in Seq(S)
    BY DEF WorldInv, WorldsAreListed
  <2>2. PICK T : T = S \cup {world}
    OBVIOUS
  <2>3. worlds \in Seq(T) /\ world \in T
    BY <2>1, <2>2
  <2>4. worlds' \in Seq(T)
    BY <1>1, <2>3
  <2> QED BY <1>1, <2>3, <2>4 DEF WorldsAreListed
<1>8. WorldsFit'
  BY <1>5, <1>7 DEF WorldInv, WorldsFit
<1>9. RequestFits' /\ SceneIsStored'
  BY <1>1, <1>7 DEF WorldInv, RequestFits, SceneIsStored
<1>10. ElevationsAreOfTheirWorld'
  BY <1>1, <1>7 DEF WorldInv, ElevationsAreOfTheirWorld, SceneIsStored
<1>11. LayersFitTogether'
  BY <1>1, <1>3, <1>6 DEF LayersFitTogether
<1>12. FailuresAreNotKept'
  BY <1>1, <1>3, <1>6 DEF FailuresAreNotKept
<1> QED BY <1>7, <1>8, <1>9, <1>10, <1>11, <1>12 DEF WorldInv

LEMMA AnchorSceneKeeps ==
    ASSUME WorldInv, NEW w \in DOMAIN worlds, NEW placed, AnchorScene(placed, w)
    PROVE  WorldInv'
<1> DEFINE terrain == worlds[w].layers["terrain"]
<1>1. scene' = IF terrain.available /\ terrain.datum
               THEN [scene EXCEPT !.world = w, !.status = "DERIVED", !.anchors = Anchors(placed, w)]
               ELSE [scene EXCEPT !.world = w, !.status = "UNRESOLVED", !.anchors = Kept(placed)]
  BY DEF AnchorScene
<1>2. UNCHANGED <<worlds, request, last>>
  BY DEF AnchorScene
<1>3. /\ WorldsAreListed' /\ WorldsFit' /\ RequestFits' /\ LayersFitTogether' /\ FailuresAreNotKept'
  BY <1>2 DEF WorldInv, WorldsAreListed, WorldsFit, RequestFits, LayersFitTogether, FailuresAreNotKept
<1>4. SceneIsStored' /\ ElevationsAreOfTheirWorld'
  BY <1>1, <1>2 DEF WorldInv, SceneIsStored, ElevationsAreOfTheirWorld, Anchors
<1> QED BY <1>3, <1>4 DEF WorldInv

(* Every step of create and of the scene keeps the worlds whole.               *)
LEMMA WorldKeeps ==
    ASSUME NEW wanted, NEW sources, KnownWants(wanted), KnownSources(sources),
           WorldInv, [WorldNext(wanted, sources)]_worldVars
    PROVE  WorldInv'
<1>1. CASE UNCHANGED worldVars
  BY <1>1 DEF worldVars, WorldInv, WorldsAreListed, WorldsFit, RequestFits, SceneIsStored, LayersFitTogether,
              FailuresAreNotKept, ElevationsAreOfTheirWorld
<1>2. ASSUME NEW s \in Snapshots, NEW b \in Buffers, NEW layers \in wanted, NEW prefer \in BOOLEAN,
             NEW release \in Releases, BeginWorld(s, b, layers, prefer, release)
      PROVE  WorldInv'
  BY <1>2, BeginWorldKeeps DEF KnownWants
<1>3. ASSUME NEW src \in sources, FinishWorld(src) PROVE WorldInv'
  BY <1>3, FinishWorldKeeps DEF KnownSources
<1>4. ASSUME NEW w \in DOMAIN worlds, NEW placed \in (SUBSET Objects) \ {{}}, AnchorScene(placed, w) PROVE WorldInv'
  BY <1>4, AnchorSceneKeeps
<1> QED BY <1>1, <1>2, <1>3, <1>4 DEF WorldNext

\* A store that fits, of sequences.
KnownStores(stored) == \A ws \in stored : (\E S : ws \in Seq(S)) /\ \A i \in DOMAIN ws : WorldFits(ws[i])
LEMMA WorldStarts ==
    ASSUME NEW stored, KnownStores(stored), WorldInit(stored)
    PROVE  WorldInv
BY DEF WorldInit, KnownStores, WorldInv, WorldsAreListed, WorldsFit, RequestFits, SceneIsStored, LayersFitTogether,
       FailuresAreNotKept, ElevationsAreOfTheirWorld, NoResult

-------------------------------------------------------------------------------
(* Tasks of a batch.                                                           *)
Listed(list) == \E S : list \in Seq(S)
KnownDocument(doc) ==
  /\ DOMAIN doc = {"since", "outcome", "needs", "evidence"}
  /\ \A e \in DOMAIN doc.evidence : doc.evidence[e].expires \in Nat
KnownDocuments(docs) == \A doc \in docs : KnownDocument(doc) /\ doc.since = 0
KnownPlans(plans) == \A tasks \in plans : Listed(tasks)

VersionsAreKept ==
  /\ hour \in Nat /\ Listed(versions) /\ Len(versions) >= 1
  /\ \A v \in DOMAIN versions : KnownDocument(versions[v]) /\ versions[v].since \in 0..hour
RunIsWellFormed ==
  /\ DOMAIN run = {"status", "tasks", "observed", "replans"}
  /\ Listed(run.tasks) /\ DOMAIN run.observed \subseteq DOMAIN run.tasks

\* Document v was the project's at time t; and a context was read from it then.
HeldAt(v, t) ==
  /\ v \in DOMAIN versions /\ t \in 0..hour
  /\ versions[v].since <= t /\ (v < Len(versions) => t <= versions[v + 1].since)
ReadAt(context, v, t) ==
  /\ HeldAt(v, t) /\ context.evidence = versions[v].evidence
  /\ context.outcome = OutcomeAt(versions[v], t) /\ context.now \in Nat /\ t <= context.now
WasRead(context) == \E v, t : ReadAt(context, v, t)

\* While a batch is under way its run is, with the tasks it had.
BatchIsCurrent ==
  batch = NoBatch \/
    /\ batch.under = "way" /\ DOMAIN batch = {"under", "agents", "context"}
    /\ run.status = "RUNNING" /\ DOMAIN batch.agents = Unobserved /\ Unobserved /= {}
    /\ WasRead(batch.context)

\* All claims of observed tasks that had to be verified are in the graph.
RecordedFor(t) == \A claim \in run.observed[t].claims : \E r \in taskClaims : r.claim.id = claim.id
VerifiedAreRecorded ==
  run.status /= "FAILED" =>
    \A t \in DOMAIN run.observed : run.tasks[t].success = "VERIFICATION_PASSED" => RecordedFor(t)
CompletedIsObserved == run.status = "COMPLETED" => Unobserved = {}

TaskInv ==
  /\ losses \in Nat /\ VersionsAreKept /\ RunIsWellFormed /\ BatchIsCurrent
  /\ VerifiedAreRecorded /\ CompletedIsObserved /\ ClaimsWereProved /\ ClaimsWereObserved

LEMMA CompletedRunsAreVerified == TaskInv => CompletedIsVerified
BY DEF TaskInv, CompletedIsVerified, VerifiedAreRecorded, CompletedIsObserved, RecordedFor, Unobserved, RunIsWellFormed

LEMMA TaskStarts ==
    ASSUME NEW docs, NEW plans, KnownDocuments(docs), KnownPlans(plans), TaskInit(docs, plans)
    PROVE  TaskInv
<1>1. PICK doc \in docs : versions = <<doc>>
  BY DEF TaskInit
<1>2. KnownDocument(doc) /\ doc.since = 0
  BY DEF KnownDocuments
<1>3. hour = 0 /\ Listed(versions) /\ Len(versions) = 1 /\ DOMAIN versions = {1} /\ versions[1] = doc
  <2>1. versions \in Seq({doc})
    BY <1>1
  <2> QED BY <1>1, <2>1 DEF TaskInit, Listed
<1>4. /\ run.status = "RUNNING" /\ run.tasks \in plans /\ DOMAIN run.observed = {}
      /\ DOMAIN run = {"status", "tasks", "observed", "replans"}
  BY DEF TaskInit
<1>5. batch = NoBatch /\ taskClaims = {} /\ losses = 0
  BY DEF TaskInit
<1>6. VersionsAreKept
  BY <1>2, <1>3 DEF VersionsAreKept
<1>7. RunIsWellFormed
  BY <1>4 DEF RunIsWellFormed, KnownPlans
<1> QED BY <1>4, <1>5, <1>6, <1>7 DEF TaskInv, BatchIsCurrent, VerifiedAreRecorded, CompletedIsObserved,
                                     ClaimsWereProved, ClaimsWereObserved

-----------------------------------------------------------------------------
\* What was so at a time stays so, as documents are added and time passes.
HistoryGrows ==
  /\ hour <= hour' /\ DOMAIN versions \subseteq DOMAIN versions'
  /\ \A v \in DOMAIN versions : versions'[v] = versions[v]
  /\ versions' = versions \/ /\ Len(versions') = Len(versions) + 1
                             /\ versions'[Len(versions')].since = hour

LEMMA HeldStays ==
    ASSUME VersionsAreKept, VersionsAreKept', HistoryGrows, NEW v, NEW t, HeldAt(v, t)
    PROVE  HeldAt(v, t)' /\ versions'[v] = versions[v] /\ v \in DOMAIN versions
<1>1. DOMAIN versions = 1..Len(versions) /\ Len(versions) \in Nat /\ hour \in Nat /\ hour' \in Nat
  BY DEF VersionsAreKept, Listed
<1>2. v \in DOMAIN versions /\ t \in 0..hour /\ versions[v].since <= t
  BY DEF HeldAt
<1>3. v \in DOMAIN versions' /\ t \in 0..hour' /\ versions'[v] = versions[v]
  BY <1>1, <1>2 DEF HistoryGrows
<1>4. ASSUME v < Len(versions') PROVE t <= versions'[v + 1].since
  <2>1. CASE v < Len(versions)
    <3>1. v + 1 \in DOMAIN versions /\ versions'[v + 1] = versions[v + 1]
      BY <2>1, <1>1, <1>2 DEF HistoryGrows
    <3> QED BY <2>1, <3>1 DEF HeldAt
  <2>2. CASE ~(v < Len(versions))
    <3>1. v + 1 = Len(versions') /\ versions'[Len(versions')].since = hour
      BY <2>2, <1>1, <1>2, <1>4 DEF HistoryGrows
    <3> QED BY <1>1, <1>2, <3>1
  <2> QED BY <2>1, <2>2
<1> QED BY <1>2, <1>3, <1>4 DEF HeldAt

LEMMA HistoryStays ==
    ASSUME TaskInv, VersionsAreKept', HistoryGrows
    PROVE  /\ \A context : WasRead(context) => WasRead(context)'
           /\ taskClaims' = taskClaims => ClaimsWereProved'
<1>1. ASSUME NEW context, WasRead(context) PROVE WasRead(context)'
  <2>1. PICK v, t : ReadAt(context, v, t)
    BY <1>1 DEF WasRead
  <2>2. HeldAt(v, t)' /\ versions'[v] = versions[v]
    BY <2>1, HeldStays DEF ReadAt, TaskInv
  <2>3. ReadAt(context, v, t)'
    BY <2>1, <2>2 DEF ReadAt, OutcomeAt
  <2> QED BY <2>3 DEF WasRead
<1>2. ASSUME taskClaims' = taskClaims PROVE ClaimsWereProved'
  <2> SUFFICES ASSUME NEW r \in taskClaims
               PROVE  \E v \in DOMAIN versions', t \in 0..hour' :
                        /\ versions'[v].since <= t /\ (v < Len(versions') => t <= versions'[v + 1].since)
                        /\ r.claim.cited /= {}
                        /\ \A e \in r.claim.cited :
                             /\ e \in DOMAIN versions'[v].evidence
                             /\ Fresh(versions'[v].evidence[e], t)
                             /\ r.claim.scope \in {"any", versions'[v].evidence[e].scope}
                        /\ r.claim.outcome \in {"PASS", "FAIL"} => OutcomeAt(versions'[v], t) = r.claim.outcome
    BY <1>2 DEF ClaimsWereProved
  <2>1. PICK v \in DOMAIN versions, t \in 0..hour :
          /\ versions[v].since <= t /\ (v < Len(versions) => t <= versions[v + 1].since)
          /\ r.claim.cited /= {}
          /\ \A e \in r.claim.cited :
               /\ e \in DOMAIN versions[v].evidence
               /\ Fresh(versions[v].evidence[e], t)
               /\ r.claim.scope \in {"any", versions[v].evidence[e].scope}
          /\ r.claim.outcome \in {"PASS", "FAIL"} => OutcomeAt(versions[v], t) = r.claim.outcome
    BY DEF TaskInv, ClaimsWereProved
  <2>2. HeldAt(v, t)
    BY <2>1 DEF HeldAt
  <2>3. HeldAt(v, t)' /\ versions'[v] = versions[v]
    BY <2>2, HeldStays DEF TaskInv
  <2>4. /\ v \in DOMAIN versions' /\ t \in 0..hour'
        /\ versions'[v].since <= t /\ (v < Len(versions') => t <= versions'[v + 1].since)
    BY <2>3 DEF HeldAt
  <2> QED BY <2>1, <2>3, <2>4
<1> QED BY <1>1, <1>2

-----------------------------------------------------------------------------
\* What the verifier lets through is proved by the document the batch has read.
LEMMA SupportedIsProved ==
    ASSUME TaskInv, batch # NoBatch, NEW claim, ~Unsupported(claim, Basis(batch.context))
    PROVE  \E v \in DOMAIN versions, t \in 0..hour :
             /\ versions[v].since <= t /\ (v < Len(versions) => t <= versions[v + 1].since)
             /\ claim.cited /= {}
             /\ \A e \in claim.cited :
                  /\ e \in DOMAIN versions[v].evidence
                  /\ Fresh(versions[v].evidence[e], t)
                  /\ claim.scope \in {"any", versions[v].evidence[e].scope}
             /\ claim.outcome \in {"PASS", "FAIL"} => OutcomeAt(versions[v], t) = claim.outcome
<1> DEFINE context == batch.context
<1>1. PICK v, t : ReadAt(context, v, t)
  BY DEF TaskInv, BatchIsCurrent, WasRead
<1>2. /\ v \in DOMAIN versions /\ t \in 0..hour /\ t \in Nat /\ context.now \in Nat /\ t <= context.now
      /\ versions[v].since <= t /\ (v < Len(versions) => t <= versions[v + 1].since)
      /\ context.evidence = versions[v].evidence /\ context.outcome = OutcomeAt(versions[v], t)
  BY <1>1 DEF ReadAt, HeldAt, TaskInv, VersionsAreKept
<1>3. /\ claim.cited /= {} /\ claim.cited \subseteq DOMAIN context.evidence
      /\ \A e \in claim.cited : /\ Fresh(context.evidence[e], context.now)
                                /\ claim.scope \in {"any", context.evidence[e].scope}
      /\ claim.outcome \in {"PASS", "FAIL"} => claim.outcome = context.outcome
  BY DEF Unsupported, Basis
<1> HIDE DEF context
<1>4. \A e \in claim.cited : Fresh(versions[v].evidence[e], t)
  <2> TAKE e \in claim.cited
  <2> DEFINE record == versions[v].evidence[e]
  <2>1. record.expires \in Nat /\ Fresh(record, context.now)
    BY <1>2, <1>3 DEF TaskInv, VersionsAreKept, KnownDocument
  <2> HIDE DEF record
  <2> QED BY <2>1, <1>2 DEF Fresh, record
<1> QED BY <1>2, <1>3, <1>4

LEMMA VerdictIs ==
    ASSUME NEW claim, NEW basis
    PROVE  Verdict(claim, basis) = "UNSUPPORTED" <=> Unsupported(claim, basis)
<1> DEFINE reviewed == \E record \in {basis.evidence[e] : e \in claim.cited} : record.review
<1>1. CASE Unsupported(claim, basis)
  BY <1>1 DEF Verdict
<1>2. CASE ~Unsupported(claim, basis) /\ reviewed
  <2>1. Verdict(claim, basis) = "NEEDS_HUMAN_REVIEW"
    BY <1>2 DEF Verdict
  <2> QED BY <1>2, <2>1
<1>3. CASE ~Unsupported(claim, basis) /\ ~reviewed
  <2>1. Verdict(claim, basis) \in {"PARTIALLY_VERIFIED", "VERIFIED"}
    BY <1>3 DEF Verdict
  <2> QED BY <1>3, <2>1
<1> QED BY <1>1, <1>2, <1>3

LEMMA DurableIs ==
    ASSUME NEW t
    PROVE  /\ \A r \in Durable(t) : /\ r.task = t /\ r.claim \in Observation(t).claims
                                    /\ ~Unsupported(r.claim, Basis(batch.context))
           /\ \A claim \in Observation(t).claims :
                ~Unsupported(claim, Basis(batch.context)) => [task |-> t, claim |-> claim] \in Durable(t)
<1>1. \A claim : Verdict(claim, Basis(batch.context)) = "UNSUPPORTED" <=> Unsupported(claim, Basis(batch.context))
  BY VerdictIs
<1> QED BY <1>1 DEF Durable

LEMMA RecordedAreProved ==
    ASSUME TaskInv, batch # NoBatch, NEW tasks, taskClaims' = RecordedWith(tasks), UNCHANGED <<hour, versions>>
    PROVE  ClaimsWereProved'
<1>1. \A r \in RecordedWith(tasks) : r \in taskClaims \/ ~Unsupported(r.claim, Basis(batch.context))
  BY DurableIs DEF RecordedWith
<1>2. ASSUME NEW r \in RecordedWith(tasks)
      PROVE  \E v \in DOMAIN versions, t \in 0..hour :
             /\ versions[v].since <= t /\ (v < Len(versions) => t <= versions[v + 1].since)
             /\ r.claim.cited /= {}
             /\ \A e \in r.claim.cited :
                  /\ e \in DOMAIN versions[v].evidence
                  /\ Fresh(versions[v].evidence[e], t)
                  /\ r.claim.scope \in {"any", versions[v].evidence[e].scope}
             /\ r.claim.outcome \in {"PASS", "FAIL"} => OutcomeAt(versions[v], t) = r.claim.outcome
  <2>1. CASE r \in taskClaims
    BY <2>1 DEF TaskInv, ClaimsWereProved
  <2>2. CASE ~Unsupported(r.claim, Basis(batch.context))
    BY <2>2, SupportedIsProved
  <2> QED BY <1>1, <2>1, <2>2
<1> QED BY <1>2 DEF ClaimsWereProved

\* An identifier that some task claims with support is recorded: by the first
\* task that does, unless it was before.
LEMMA RecordedById ==
    ASSUME NEW tasks \in SUBSET Nat, NEW t \in tasks, NEW claim \in Observation(t).claims,
           ~Unsupported(claim, Basis(batch.context))
    PROVE  \E r \in RecordedWith(tasks) : r.claim.id = claim.id
<1>1. CASE \E old \in taskClaims : old.claim.id = claim.id
  BY <1>1 DEF RecordedWith
<1>2. CASE ~\E old \in taskClaims : old.claim.id = claim.id
  <2> DEFINE all == UNION {Durable(u) : u \in tasks}
             claimants == {u \in tasks : \E r \in Durable(u) : r.claim.id = claim.id}
  <2>1. t \in claimants
    <3>1. [task |-> t, claim |-> claim] \in Durable(t)
      BY DurableIs
    <3> QED BY <3>1
  <2>2. claimants \subseteq Nat /\ claimants # {}
    BY <2>1
  <2> HIDE DEF claimants
  <2>3. Min(claimants) \in claimants /\ \A u \in claimants : Min(claimants) <= u
    BY <2>2, MinOfNaturals
  <2>4. PICK r \in Durable(Min(claimants)) : r.claim.id = claim.id
    BY <2>3 DEF claimants
  <2>5. Min(claimants) \in tasks /\ r.task = Min(claimants) /\ r \in all
    BY <2>3, <2>4, DurableIs DEF claimants
  <2>6. ASSUME NEW s \in all, s.claim.id = r.claim.id, s.task < r.task PROVE FALSE
    <3>1. PICK u \in tasks : s \in Durable(u)
      OBVIOUS
    <3>2. u \in claimants /\ s.task = u
      BY <3>1, <2>4, <2>6, DurableIs DEF claimants
    <3>3. Min(claimants) <= u /\ u < Min(claimants) /\ u \in Nat /\ Min(claimants) \in Nat
      BY <3>2, <2>2, <2>3, <2>5, <2>6
    <3> QED BY <3>3
  <2>7. ~\E old \in taskClaims : old.claim.id = r.claim.id
    BY <1>2, <2>4
  <2> QED BY <2>4, <2>5, <2>6, <2>7 DEF RecordedWith
<1> QED BY <1>1, <1>2

\* The loop stops at the first task that fails or asks.
LEMMA LastTaskIs ==
    ASSUME TaskInv, batch # NoBatch
    PROVE  /\ LastTask \in DOMAIN batch.agents /\ DOMAIN batch.agents \subseteq 1..Len(run.tasks)
           /\ LastTask \in Processed /\ Processed \in SUBSET Nat /\ Processed \subseteq DOMAIN batch.agents
           /\ \A t \in Processed : t = LastTask \/ Fate(t) = "goes on"
<1> DEFINE all == DOMAIN batch.agents
           ends == {t \in all : Fate(t) /= "goes on"}
<1>1. all = Unobserved /\ all /= {} /\ all \subseteq 1..Len(run.tasks) /\ Len(run.tasks) \in Nat
  BY DEF TaskInv, BatchIsCurrent, Unobserved, RunIsWellFormed, Listed
<1>2. LastTask = IF ends = {} THEN Max(all) ELSE Min(ends)
  BY DEF LastTask
<1>6. Processed = {t \in all : t <= LastTask}
  BY DEF Processed
<1> HIDE DEF all, ends
<1>10. PICK n \in Nat : n = Len(run.tasks) /\ all \subseteq 1..n
  BY <1>1
<1>11. \A t \in all : t \in Nat /\ t \in 0..n
  BY <1>10
<1>12. ends \subseteq all
  BY DEF ends
<1>3. Max(all) \in all /\ \A t \in all : t <= Max(all)
  <2>1. \E m \in all : \A k \in all : k <= m
    BY <1>1, <1>11, MaxOfNaturals
  <2> QED BY <2>1 DEF Max
<1>4. ends # {} => Min(ends) \in ends /\ \A t \in ends : Min(ends) <= t
  BY <1>11, <1>12, MinOfNaturals
<1>5. LastTask \in all /\ \A t \in all : t <= LastTask => t = LastTask \/ Fate(t) = "goes on"
  <2>1. CASE ends = {}
    BY <2>1, <1>2, <1>3 DEF ends
  <2>2. CASE ends # {}
    <3>1. LastTask \in ends /\ LastTask \in all /\ \A t \in ends : LastTask <= t
      BY <2>2, <1>2, <1>4, <1>12
    <3>2. ASSUME NEW t \in all, t <= LastTask, t # LastTask PROVE Fate(t) = "goes on"
      <4>1. t \in Nat /\ LastTask \in Nat
        BY <3>1, <3>2, <1>11, <1>12
      <4>2. t \notin ends
        BY <3>1, <3>2, <4>1
      <4> QED BY <4>2, <3>2 DEF ends
    <3> QED BY <3>1, <3>2
  <2> QED BY <2>1, <2>2
<1>7. LastTask \in Nat /\ LastTask <= LastTask
  <2> DEFINE one == LastTask
  <2>1. one \in Nat
    BY <1>5, <1>11
  <2> HIDE DEF one
  <2>2. one <= one
    BY <2>1
  <2> QED BY <2>1, <2>2 DEF one
<1>8. Processed \in SUBSET Nat
  BY <1>6, <1>11
<1> QED BY <1>1, <1>5, <1>6, <1>7, <1>8 DEF all

-----------------------------------------------------------------------------
\* Steps of a batch under way that leave the run, the project and the graph.
LEMMA BatchSteps ==
    ASSUME TaskInv, UNCHANGED <<versions, run, taskClaims, losses>>, hour' \in Nat, hour <= hour', BatchIsCurrent'
    PROVE  TaskInv'
<1>1. hour \in Nat /\ hour' \in Nat
  BY DEF TaskInv, VersionsAreKept
<1>2. VersionsAreKept'
  BY <1>1 DEF TaskInv, VersionsAreKept, Listed
<1>3. HistoryGrows
  BY DEF HistoryGrows
<1>4. ClaimsWereProved'
  BY <1>2, <1>3, HistoryStays
<1>5. /\ RunIsWellFormed' /\ VerifiedAreRecorded' /\ CompletedIsObserved' /\ ClaimsWereObserved' /\ losses' \in Nat
  BY DEF TaskInv, RunIsWellFormed, Listed, VerifiedAreRecorded, RecordedFor, CompletedIsObserved, Unobserved,
         ClaimsWereObserved
<1> QED BY <1>2, <1>4, <1>5 DEF TaskInv

LEMMA BeginBatchKeeps == TaskInv /\ BeginBatch => TaskInv'
<1> SUFFICES ASSUME TaskInv, BeginBatch PROVE TaskInv'
  OBVIOUS
<1>1. PICK now \in {hour, hour + 1} \cap 0..LastHour :
        /\ hour' = now
        /\ batch' = [under |-> "way", agents |-> [t \in Unobserved |-> [at |-> "first turn"]],
                     context |-> [evidence |-> LatestDocument.evidence,
                                  outcome |-> OutcomeAt(LatestDocument, hour), now |-> now]]
  BY Zenon DEF BeginBatch
<1>2. hour \in Nat /\ now \in Nat /\ hour <= now
  <2>1. hour \in Nat /\ (now = hour \/ now = hour + 1)
    BY <1>1 DEF TaskInv, VersionsAreKept
  <2> QED BY <2>1
<1>3. run.status = "RUNNING" /\ Unobserved # {} /\ UNCHANGED <<versions, run, taskClaims, losses>>
  BY DEF BeginBatch
<1>4. BatchIsCurrent'
  <2> DEFINE v == Len(versions)
             context == [evidence |-> LatestDocument.evidence, outcome |-> OutcomeAt(LatestDocument, hour), now |-> now]
  <2>1. v \in DOMAIN versions /\ versions[v].since \in 0..hour /\ LatestDocument = versions[v]
    BY DEF TaskInv, VersionsAreKept, Listed, LatestDocument
  <2>2. HeldAt(v, hour)
    BY <1>2, <2>1 DEF HeldAt
  <2>3. PICK w, t : w = v /\ t = hour
    OBVIOUS
  <2>4. w \in DOMAIN versions' /\ t \in 0..hour' /\ versions'[w].since <= t /\ w = Len(versions') /\ w \in Nat
    <3>1. v \in Nat /\ versions' = versions /\ hour' = now
      <4>1. v \in Nat
        BY DEF TaskInv, VersionsAreKept, Listed
      <4> QED BY <1>1, <1>3, <4>1
    <3>2. versions[v].since <= hour /\ hour \in 0..hour'
      BY <1>2, <2>1, <3>1
    <3> QED BY <2>1, <2>3, <3>1, <3>2
  <2>5. HeldAt(w, t)'
    BY <2>4 DEF HeldAt
  <2>6. batch'.context = context
    BY <1>1
  <2>7. /\ context.evidence = versions[w].evidence /\ context.outcome = OutcomeAt(versions[w], t)
        /\ context.now = now
    BY <2>1, <2>3
  <2> HIDE DEF context
  <2>8. ReadAt(batch.context, w, t)'
    BY <1>2, <1>3, <2>3, <2>5, <2>6, <2>7 DEF ReadAt, OutcomeAt
  <2>9. WasRead(batch.context)'
    BY <2>8 DEF WasRead
  <2>10. Unobserved' = Unobserved
    BY <1>3 DEF Unobserved
  <2> QED BY <1>1, <1>3, <2>9, <2>10 DEF BatchIsCurrent
<1> QED BY <1>1, <1>2, <1>3, <1>4, BatchSteps

\* An answer of a model, or a tool that has run.
LEMMA AgentKeeps ==
    ASSUME TaskInv, NEW t, NEW step, batch # NoBatch, Agent(t, step),
           UNCHANGED <<hour, versions, run, taskClaims, losses>>
    PROVE  TaskInv'
<1>1. batch.under = "way" /\ DOMAIN batch = {"under", "agents", "context"}
  BY DEF TaskInv, BatchIsCurrent
<1>2. /\ batch'.under = "way" /\ DOMAIN batch' = DOMAIN batch /\ batch'.context = batch.context
      /\ DOMAIN batch'.agents = DOMAIN batch.agents
  BY <1>1 DEF Agent
<1>3. BatchIsCurrent'
  BY <1>1, <1>2 DEF TaskInv, BatchIsCurrent, Unobserved, WasRead, ReadAt, HeldAt, OutcomeAt
<1>4. hour' \in Nat /\ hour <= hour'
  BY DEF TaskInv, VersionsAreKept
<1> QED BY <1>3, <1>4, BatchSteps

\* A batch that is given up, and a run that is set to fail or to wait or resumed.
LEMMA GivenUp ==
    ASSUME TaskInv, batch' = NoBatch, NEW status, status \notin {"COMPLETED"},
           run.status # "FAILED" \/ status = "FAILED",
           run' = [run EXCEPT !.status = status], UNCHANGED <<hour, versions, taskClaims, losses>>
    PROVE  TaskInv'
<1>1. /\ run'.status = status /\ run'.tasks = run.tasks /\ run'.observed = run.observed
      /\ DOMAIN run' = DOMAIN run /\ RunIsWellFormed
  BY DEF TaskInv, RunIsWellFormed
<1>2. RunIsWellFormed'
  BY <1>1 DEF RunIsWellFormed, Listed
<1>3. VerifiedAreRecorded' /\ CompletedIsObserved'
  BY <1>1 DEF TaskInv, VerifiedAreRecorded, CompletedIsObserved, RecordedFor
<1>4. ClaimsWereObserved' /\ BatchIsCurrent' /\ VersionsAreKept' /\ losses' \in Nat
  BY <1>1 DEF TaskInv, ClaimsWereObserved, BatchIsCurrent, VersionsAreKept, Listed
<1>5. ClaimsWereProved'
  BY DEF TaskInv, ClaimsWereProved
<1> QED BY <1>2, <1>3, <1>4, <1>5 DEF TaskInv

LEMMA EndBatchKeeps == TaskInv /\ EndBatch => TaskInv'
<1> SUFFICES ASSUME TaskInv, EndBatch PROVE TaskInv'
  OBVIOUS
<1>1. batch # NoBatch /\ batch' = NoBatch /\ taskClaims' = RecordedWith(Processed) /\ UNCHANGED <<hour, versions, losses>>
  BY DEF EndBatch, AllDone
<1>2. PICK gap \in {TRUE, batch.context.outcome = Unresolved} : run' = RunAfter(gap)
  BY Zenon DEF EndBatch
<1>3. /\ LastTask \in DOMAIN batch.agents /\ DOMAIN batch.agents = Unobserved
      /\ LastTask \in Processed /\ Processed \in SUBSET Nat /\ Processed \subseteq Unobserved
      /\ \A t \in Processed : t = LastTask \/ Fate(t) = "goes on"
  BY <1>1, LastTaskIs DEF TaskInv, BatchIsCurrent
<1>4. /\ DOMAIN run = {"status", "tasks", "observed", "replans"} /\ run.status = "RUNNING"
      /\ Listed(run.tasks) /\ DOMAIN run.observed \subseteq DOMAIN run.tasks
  BY <1>1 DEF TaskInv, RunIsWellFormed, BatchIsCurrent
<1> DEFINE observed == ObservedWith(Processed)
<1>5. /\ DOMAIN observed = DOMAIN run.observed \cup Processed
      /\ \A t \in Processed : observed[t] = Observation(t)
      /\ \A t \in DOMAIN run.observed : observed[t] = run.observed[t] /\ t \notin Processed
      /\ DOMAIN observed \subseteq DOMAIN run.tasks
  <2>1. \A t \in DOMAIN run.observed : t \notin Processed
    BY <1>3 DEF Unobserved
  <2> QED BY <2>1, <1>3, <1>4 DEF ObservedWith, Unobserved
<1>6. Fate(LastTask) \in {"raises", "asks", "goes on"}
  BY DEF Fate
<1> HIDE DEF observed
<1>7. /\ DOMAIN run' = DOMAIN run /\ run'.observed = observed
      /\ run'.status = CASE Fate(LastTask) = "raises" -> "FAILED"
                         [] Fate(LastTask) = "asks" -> "WAITING_FOR_DECISION"
                         [] Fate(LastTask) = "goes on" -> "RUNNING"
      /\ run'.tasks = run.tasks \/ \E task : run'.tasks = Append(run.tasks, task)
  <2> DEFINE tasks == IF Replanned(gap) = {} THEN run.tasks
                      ELSE Append(run.tasks, GapTask(run.tasks[Min(Replanned(gap))].role))
             replans == IF Replanned(gap) = {} THEN run.replans ELSE 1
             next == [run EXCEPT !.observed = observed, !.tasks = tasks, !.replans = replans]
  <2>1. tasks = run.tasks \/ \E task : tasks = Append(run.tasks, task)
    OBVIOUS
  <2>2. RunAfter(gap) = CASE Fate(LastTask) = "raises" -> FailedRun
                          [] Fate(LastTask) = "asks" -> [next EXCEPT !.status = "WAITING_FOR_DECISION"]
                          [] Fate(LastTask) = "goes on" -> next
    BY DEF RunAfter, observed
  <2>3. FailedRun = [run EXCEPT !.status = "FAILED", !.observed = observed]
    BY DEF FailedRun, observed
  <2> HIDE DEF tasks, replans
  <2>4. CASE Fate(LastTask) = "raises"
    BY <1>2, <1>4, <2>2, <2>3, <2>4
  <2>5. CASE Fate(LastTask) = "asks"
    BY <1>2, <1>4, <2>1, <2>2, <2>5
  <2>6. CASE Fate(LastTask) = "goes on"
    BY <1>2, <1>4, <2>1, <2>2, <2>6
  <2> QED BY <1>6, <2>4, <2>5, <2>6
<1>8. Listed(run'.tasks) /\ DOMAIN run.tasks \subseteq DOMAIN run'.tasks
      /\ \A t \in DOMAIN run.tasks : run'.tasks[t] = run.tasks[t]
  <2>1. CASE run'.tasks = run.tasks
    BY <1>4, <2>1
  <2>2. ASSUME NEW task, run'.tasks = Append(run.tasks, task)
        PROVE  /\ Listed(run'.tasks) /\ DOMAIN run.tasks \subseteq DOMAIN run'.tasks
               /\ \A t \in DOMAIN run.tasks : run'.tasks[t] = run.tasks[t]
    <3>1. PICK S : run.tasks \in Seq(S)
      BY <1>4 DEF Listed
    <3>2. PICK T : T = S \cup {task}
      OBVIOUS
    <3>3. run.tasks \in Seq(T) /\ task \in T
      BY <3>1, <3>2
    <3> QED BY <2>2, <3>3 DEF Listed
  <2> QED BY <1>7, <2>1, <2>2
<1>9. RunIsWellFormed'
  BY <1>4, <1>5, <1>7, <1>8 DEF RunIsWellFormed
<1>10. taskClaims \subseteq taskClaims'
  BY <1>1 DEF RecordedWith
<1>11. ClaimsWereObserved'
  <2> SUFFICES ASSUME losses = 0, NEW r \in RecordedWith(Processed)
               PROVE  r.task \in DOMAIN observed /\ r.claim \in observed[r.task].claims
    BY <1>1, <1>7 DEF ClaimsWereObserved
  <2>1. CASE r \in taskClaims
    BY <2>1, <1>5 DEF TaskInv, ClaimsWereObserved
  <2>2. ASSUME NEW t \in Processed, r \in Durable(t)
        PROVE  r.task \in DOMAIN observed /\ r.claim \in observed[r.task].claims
    BY <2>2, <1>5, DurableIs
  <2> QED BY <2>1, <2>2 DEF RecordedWith
<1>12. VerifiedAreRecorded'
  <2> SUFFICES ASSUME run'.status # "FAILED", NEW t \in DOMAIN observed,
                      run.tasks[t].success = "VERIFICATION_PASSED", NEW claim \in observed[t].claims
               PROVE  \E r \in taskClaims' : r.claim.id = claim.id
    BY <1>5, <1>7, <1>8 DEF VerifiedAreRecorded, RecordedFor
  <2>1. CASE t \in DOMAIN run.observed
    BY <2>1, <1>4, <1>5, <1>10 DEF TaskInv, VerifiedAreRecorded, RecordedFor
  <2>2. CASE t \in Processed
    <3>1. Fate(LastTask) # "raises"
      BY <1>7
    <3>2. Fate(t) # "raises"
      BY <2>2, <1>3, <3>1
    <3>3. Succeeds("VERIFICATION_PASSED", Observation(t), Basis(batch.context))
      BY <3>2 DEF Fate
    <3>4. ~ReplanRequired(Observation(t), Basis(batch.context))
      BY <3>3 DEF Succeeds
    <3>5. claim \in Observation(t).claims /\ ~Unsupported(claim, Basis(batch.context))
      BY <2>2, <1>5, <3>4 DEF ReplanRequired
    <3> QED BY <2>2, <1>1, <1>3, <3>5, RecordedById
  <2> QED BY <2>1, <2>2, <1>5
<1>13. CompletedIsObserved' /\ BatchIsCurrent' /\ VersionsAreKept' /\ losses' \in Nat
  <2>1. run'.status # "COMPLETED"
    BY <1>6, <1>7
  <2> QED BY <2>1, <1>1 DEF TaskInv, CompletedIsObserved, BatchIsCurrent, VersionsAreKept, Listed
<1> QED BY <1>1, <1>9, <1>11, <1>12, <1>13, RecordedAreProved DEF TaskInv

LEMMA WorkerEndsKeeps == TaskInv /\ WorkerEnds => TaskInv'
<1> SUFFICES ASSUME TaskInv, WorkerEnds PROVE TaskInv'
  OBVIOUS
<1>1. batch # NoBatch /\ batch' = NoBatch /\ losses' = losses + 1 /\ UNCHANGED <<hour, versions, run>>
  BY DEF WorkerEnds
<1>2. PICK tasks : taskClaims' = RecordedWith(tasks)
  BY Zenon DEF WorkerEnds
<1>3. taskClaims \subseteq taskClaims'
  BY <1>2 DEF RecordedWith
<1>4. losses' \in Nat /\ losses' # 0
  BY <1>1 DEF TaskInv
<1>5. VerifiedAreRecorded'
  BY <1>1, <1>3 DEF TaskInv, VerifiedAreRecorded, RecordedFor
<1>6. VersionsAreKept' /\ RunIsWellFormed' /\ BatchIsCurrent' /\ CompletedIsObserved' /\ ClaimsWereObserved'
  BY <1>1, <1>4 DEF TaskInv, VersionsAreKept, RunIsWellFormed, Listed, BatchIsCurrent, CompletedIsObserved,
                    Unobserved, ClaimsWereObserved
<1> QED BY <1>1, <1>2, <1>4, <1>5, <1>6, RecordedAreProved DEF TaskInv

LEMMA CompleteKeeps == TaskInv /\ Complete => TaskInv'
<1> SUFFICES ASSUME TaskInv, Complete PROVE TaskInv'
  OBVIOUS
<1>1. /\ batch' = NoBatch /\ run.status = "RUNNING" /\ Unobserved = {}
      /\ run'.tasks = run.tasks /\ run'.observed = run.observed /\ DOMAIN run' = DOMAIN run
      /\ UNCHANGED <<hour, versions, taskClaims, losses>>
  BY DEF Complete, TaskInv, RunIsWellFormed
<1>2. RunIsWellFormed'
  BY <1>1 DEF TaskInv, RunIsWellFormed, Listed
<1>3. VerifiedAreRecorded'
  BY <1>1 DEF TaskInv, VerifiedAreRecorded, RecordedFor
<1>4. CompletedIsObserved'
  BY <1>1 DEF CompletedIsObserved, Unobserved
<1>5. ClaimsWereObserved' /\ BatchIsCurrent' /\ VersionsAreKept' /\ losses' \in Nat
  BY <1>1 DEF TaskInv, ClaimsWereObserved, BatchIsCurrent, VersionsAreKept, Listed
<1>6. ClaimsWereProved'
  BY <1>1 DEF TaskInv, ClaimsWereProved
<1> QED BY <1>2, <1>3, <1>4, <1>5, <1>6 DEF TaskInv

LEMMA ProjectChangesKeeps ==
    ASSUME TaskInv, NEW doc, KnownDocument(doc), ProjectChanges(doc)
    PROVE  TaskInv'
<1> DEFINE new == [doc EXCEPT !.since = hour]
<1>1. versions' = Append(versions, new) /\ UNCHANGED <<hour, run, batch, taskClaims, losses>>
  BY DEF ProjectChanges
<1>2. KnownDocument(new) /\ new.since = hour
  BY DEF KnownDocument
<1> HIDE DEF new
<1>3. PICK S : versions \in Seq(S)
  BY DEF TaskInv, VersionsAreKept, Listed
<1>4. PICK T : T = S \cup {new}
  OBVIOUS
<1>5. versions \in Seq(T) /\ new \in T
  BY <1>3, <1>4
<1>6. /\ Listed(versions') /\ Len(versions') = Len(versions) + 1 /\ Len(versions) \in Nat
      /\ DOMAIN versions = 1..Len(versions) /\ DOMAIN versions' = 1..Len(versions')
      /\ versions'[Len(versions')] = new
      /\ \A v \in DOMAIN versions : versions'[v] = versions[v]
  BY <1>1, <1>5 DEF Listed
<1>7. hour' = hour /\ hour \in Nat
  BY <1>1 DEF TaskInv, VersionsAreKept
<1>8. HistoryGrows
  BY <1>2, <1>6, <1>7 DEF HistoryGrows
<1>9. VersionsAreKept'
  <2>1. \A v \in DOMAIN versions' : v \in DOMAIN versions \/ v = Len(versions')
    BY <1>6
  <2>2. \A v \in DOMAIN versions' : KnownDocument(versions'[v]) /\ versions'[v].since \in 0..hour'
    BY <1>2, <1>6, <1>7, <2>1 DEF TaskInv, VersionsAreKept
  <2>3. Len(versions') >= 1
    BY <1>6
  <2> QED BY <1>6, <1>7, <2>2, <2>3 DEF VersionsAreKept
<1>10. ClaimsWereProved'
  BY <1>1, <1>8, <1>9, HistoryStays
<1>11. BatchIsCurrent'
  <2>1. \A context : WasRead(context) => WasRead(context)'
    BY <1>8, <1>9, HistoryStays
  <2>2. CASE batch = NoBatch
    BY <1>1, <2>2 DEF BatchIsCurrent
  <2>3. CASE batch # NoBatch
    <3>1. PICK context : context = batch.context
      OBVIOUS
    <3>2. WasRead(context)
      BY <2>3, <3>1 DEF TaskInv, BatchIsCurrent
    <3>3. WasRead(context)'
      BY <2>1, <3>2
    <3>4. batch'.context = context
      BY <1>1, <3>1
    <3>5. WasRead(batch.context)'
      BY <3>3, <3>4 DEF WasRead, ReadAt
    <3> QED BY <1>1, <2>3, <3>5 DEF TaskInv, BatchIsCurrent, Unobserved
  <2> QED BY <2>2, <2>3
<1>12. /\ RunIsWellFormed' /\ VerifiedAreRecorded' /\ CompletedIsObserved' /\ ClaimsWereObserved' /\ losses' \in Nat
  BY <1>1 DEF TaskInv, RunIsWellFormed, Listed, VerifiedAreRecorded, RecordedFor, CompletedIsObserved, Unobserved,
              ClaimsWereObserved
<1> QED BY <1>9, <1>10, <1>11, <1>12 DEF TaskInv

LEMMA HourPassesKeeps == TaskInv /\ HourPasses => TaskInv'
<1> SUFFICES ASSUME TaskInv, HourPasses PROVE TaskInv'
  OBVIOUS
<1>1. hour \in Nat /\ hour' = hour + 1 /\ UNCHANGED <<versions, run, batch, taskClaims, losses>>
  BY DEF HourPasses, TaskInv, VersionsAreKept
<1>2. VersionsAreKept' /\ HistoryGrows
  BY <1>1 DEF TaskInv, VersionsAreKept, Listed, HistoryGrows
<1>3. BatchIsCurrent'
  <2>1. \A context : WasRead(context) => WasRead(context)'
    BY <1>2, HistoryStays
  <2>2. CASE batch = NoBatch
    BY <1>1, <2>2 DEF BatchIsCurrent
  <2>3. CASE batch # NoBatch
    <3>1. PICK context : context = batch.context
      OBVIOUS
    <3>2. WasRead(context)
      BY <2>3, <3>1 DEF TaskInv, BatchIsCurrent
    <3>3. WasRead(context)'
      BY <2>1, <3>2
    <3>4. batch'.context = context
      BY <1>1, <3>1
    <3>5. WasRead(batch.context)'
      BY <3>3, <3>4 DEF WasRead, ReadAt
    <3> QED BY <1>1, <2>3, <3>5 DEF TaskInv, BatchIsCurrent, Unobserved
  <2> QED BY <2>2, <2>3
<1> QED BY <1>1, <1>3, BatchSteps

(* Every step of a batch, of its worker and of the project keeps the claims.   *)
LEMMA TaskKeeps ==
    ASSUME NEW docs, NEW observations, NEW requests, KnownDocuments(docs),
           TaskInv, [TaskNext(docs, observations, requests)]_taskVars
    PROVE  TaskInv'
<1>1. CASE UNCHANGED taskVars
  <2>1. UNCHANGED <<hour, versions, run, batch, taskClaims, losses>>
    BY <1>1 DEF taskVars
  <2>2. hour' \in Nat /\ hour <= hour'
    BY <2>1 DEF TaskInv, VersionsAreKept
  <2>3. BatchIsCurrent'
    BY <2>1 DEF TaskInv, BatchIsCurrent, Unobserved, WasRead, ReadAt, HeldAt, OutcomeAt
  <2> QED BY <2>1, <2>2, <2>3, BatchSteps
<1>2. CASE BeginBatch \/ EndBatch \/ WorkerEnds \/ Complete \/ HourPasses
  BY <1>2, BeginBatchKeeps, EndBatchKeeps, WorkerEndsKeeps, CompleteKeeps, HourPassesKeeps
<1>3. CASE Resume
  <2>1. batch = NoBatch
    BY <1>3 DEF Resume, TaskInv, BatchIsCurrent
  <2> QED BY <1>3, <2>1, GivenUp DEF Resume
<1>4. ASSUME NEW doc \in docs, ProjectChanges(doc) PROVE TaskInv'
  BY <1>4, ProjectChangesKeeps DEF KnownDocuments
<1>5. ASSUME NEW t, NEW o, batch # NoBatch, Observe(t, o) PROVE TaskInv'
  BY <1>5, AgentKeeps DEF Observe
<1>6. ASSUME NEW t, NEW call, batch # NoBatch, UseTool(t, call) PROVE TaskInv'
  BY <1>6, AgentKeeps DEF UseTool
<1>7. ASSUME NEW t, Raise(t) PROVE TaskInv'
  BY <1>7, GivenUp DEF Raise
<1>8. ASSUME NEW t, batch # NoBatch, ModelUnavailable(t) PROVE TaskInv'
  <2>1. UNCHANGED <<hour, versions, run, taskClaims, losses>> /\ BatchIsCurrent'
    BY <1>8 DEF ModelUnavailable, BatchIsCurrent
  <2>2. hour' \in Nat /\ hour <= hour'
    BY <2>1 DEF TaskInv, VersionsAreKept
  <2> QED BY <2>1, <2>2, BatchSteps
<1> QED BY <1>1, <1>2, <1>3, <1>4, <1>5, <1>6, <1>7, <1>8 DEF TaskNext

-------------------------------------------------------------------------------
(* Site evaluation.                                                            *)
Dates == Nat \cup {None}
KnownParcel(parcel) ==
  /\ parcel \subseteq Int \X Int
  /\ \A c \in parcel : c[1] <= c[2]
  /\ \A c, d \in parcel : c = d \/ c[2] < d[1] \/ d[2] < c[1]
KnownSnapshot(s) ==
  /\ s.expires \in Nat /\ KnownParcel(s.parcel)
  /\ GeometryFields \cup {"wetland", "acreage", "zoning", "floodplain", "slope", "distance", "status"}
       \subseteq DOMAIN s.evidence
  /\ \A f \in DOMAIN s.evidence : s.evidence[f].expires \in Dates

\* The verdict there is was reached on this layout, at some time past.
VerdictIsOfLayout ==
  verdict = NoVerdict \/ \E t \in 0..clock : verdict = Evaluated(snapshot, layout, requested, t)
EvaluationInv == clock \in Nat /\ KnownSnapshot(snapshot) /\ VerdictIsOfLayout /\ ProposalFits

-----------------------------------------------------------------------------
LEMMA AcceptedEarlier ==
    ASSUME NEW s, KnownSnapshot(s), NEW f \in DOMAIN s.evidence, NEW scope, NEW exactly,
           NEW t \in Nat, NEW u \in Nat, t <= u, Accepted(s, f, scope, exactly, u)
    PROVE  Accepted(s, f, scope, exactly, t)
<1> DEFINE e == s.evidence[f].expires
<1>1. e # None /\ e > u /\ e \in Nat
  BY DEF Accepted, KnownSnapshot, Dates
<1>2. e > t
  <2> HIDE DEF e
  <2> QED BY <1>1
<1> QED BY <1>1, <1>2 DEF Accepted

LEMMA IssueLater ==
    ASSUME NEW s, KnownSnapshot(s), NEW t \in Nat, NEW u \in Nat, t <= u, GeometryIssue(s, t)
    PROVE  GeometryIssue(s, u)
<1>1. CASE ~s.exact
  BY <1>1 DEF GeometryIssue
<1>2. ASSUME NEW f \in GeometryFields,
             LET r == s.evidence[f] IN
               \/ r.status \notin {"ok", "unsaid"} \/ r.value = None
               \/ r.expires /= None /\ t >= r.expires
               \/ r.expires = None /\ t >= s.expires
      PROVE  GeometryIssue(s, u)
  <2>1. s.evidence[f].expires \in Dates /\ s.expires \in Nat
    BY DEF KnownSnapshot
  <2>2. s.evidence[f].expires /= None /\ t >= s.evidence[f].expires => u >= s.evidence[f].expires
    BY <2>1 DEF Dates
  <2>3. t >= s.expires => u >= s.expires
    BY <2>1
  <2> QED BY <1>2, <2>2, <2>3 DEF GeometryIssue
<1> QED BY <1>1, <1>2 DEF GeometryIssue

\* An outcome is lost to the age of its evidence, and otherwise stays.
LEMMA ObservedLater ==
    ASSUME NEW s, KnownSnapshot(s), NEW f \in DOMAIN s.evidence, NEW scope, NEW exactly, NEW failing,
           NEW t \in Nat, NEW u \in Nat, t <= u
    PROVE  Observed(s, f, scope, exactly, u, failing) \in {Observed(s, f, scope, exactly, t, failing), "UNRESOLVED"}
BY AcceptedEarlier DEF Observed

LEMMA OutcomeLater ==
    ASSUME NEW s, KnownSnapshot(s), NEW l, NEW c, NEW t \in Nat, NEW u \in Nat, t <= u
    PROVE  Outcome(c, s, l, u) \in {Outcome(c, s, l, t), "UNRESOLVED"}
<1>1. {"wetland", "acreage", "zoning", "floodplain", "slope", "distance", "status"} \subseteq DOMAIN s.evidence
  BY DEF KnownSnapshot
<1>2. GeometryIssue(s, t) => GeometryIssue(s, u)
  BY IssueLater
<1>3. WetlandThreshold(s, u) \in {WetlandThreshold(s, t), "UNRESOLVED"}
  BY <1>1, ObservedLater DEF WetlandThreshold
<1>4. ParcelAcreageRange(s, u) \in {ParcelAcreageRange(s, t), "UNRESOLVED"}
  BY <1>1, ObservedLater DEF ParcelAcreageRange
<1>5. ZoningAllowList(s, u) \in {ZoningAllowList(s, t), "UNRESOLVED"}
  BY <1>1, ObservedLater DEF ZoningAllowList
<1>6. PointFlood(s, u) \in {PointFlood(s, t), "UNRESOLVED"}
  BY <1>1, ObservedLater DEF PointFlood
<1>7. PointSlope(s, u) \in {PointSlope(s, t), "UNRESOLVED"}
  BY <1>1, ObservedLater DEF PointSlope
<1>8. ASSUME NEW with \in BOOLEAN PROVE PointDistance(s, u, with) \in {PointDistance(s, t, with), "UNRESOLVED"}
  <2> DEFINE near(w) == Observed(s, "distance", "NEAREST_FEATURE", FALSE, w, {2})
             status(w) == Observed(s, "status", "NEAREST_FEATURE", FALSE, w, {0})
             parts(w) == {near(w)} \cup IF with THEN {status(w)} ELSE {}
  <2>1. near(u) \in {near(t), "UNRESOLVED"} /\ status(u) \in {status(t), "UNRESOLVED"}
    BY <1>1, ObservedLater
  <2>2. \A w : PointDistance(s, w, with) = IF "UNRESOLVED" \in parts(w) THEN "UNRESOLVED" ELSE Judge("FAIL" \in parts(w))
    BY DEF PointDistance
  <2> HIDE DEF near, status
  <2>3. "UNRESOLVED" \in parts(u) \/ parts(u) = parts(t)
    BY <2>1
  <2> QED BY <2>2, <2>3
<1>9. CASE c \in Geometric
  BY <1>9, <1>2 DEF Outcome, Geometric
<1>10. CASE c \notin Geometric
  BY <1>10, <1>3, <1>4, <1>5, <1>6, <1>7, <1>8 DEF Outcome
<1> QED BY <1>9, <1>10

LEMMA PassMeansNoOther ==
    ASSUME NEW v
    PROVE  Overall(v) = "PASS" <=> \A c \in DOMAIN v : v[c] \notin {"FAIL", "UNRESOLVED"}
BY DEF Overall

\* A record that proves something of the scope at the time.
Sound(s, f, scope, t) ==
  /\ s.evidence[f].value \notin {None, Unusable} /\ s.evidence[f].status = "ok"
  /\ s.evidence[f].scope = scope /\ s.evidence[f].expires /= None /\ s.evidence[f].expires > t

LEMMA ObservedPasses ==
    ASSUME NEW s, NEW f, NEW scope, NEW t, NEW failing
    PROVE  /\ Observed(s, f, scope, TRUE, t, failing) # "UNRESOLVED" => Sound(s, f, scope, t) /\ s.exact
           /\ Observed(s, f, scope, FALSE, t, failing) # "UNRESOLVED" => Sound(s, f, scope, t)
BY DEF Observed, Accepted, Sound

\* What passes is proved.
LEMMA PassesAreProved == EvaluationInv => PassIsProved
<1> SUFFICES ASSUME EvaluationInv, NEW c \in requested, Outcome(c, snapshot, layout, clock) \notin {"FAIL", "UNRESOLVED"}
             PROVE  Proves(c, snapshot, clock)
  BY PassMeansNoOther DEF PassIsProved, Evaluated
<1>1. CASE c \in Geometric
  <2>1. ~GeometryIssue(snapshot, clock)
    BY <1>1 DEF Outcome, Geometric
  <2>2. \A f \in GeometryFields : snapshot.evidence[f].expires \in Dates
    BY DEF EvaluationInv, KnownSnapshot
  <2>3. clock \in Nat /\ snapshot.expires \in Nat
    BY DEF EvaluationInv, KnownSnapshot
  <2>4. snapshot.exact /\ \A f \in GeometryFields :
          \/ snapshot.evidence[f].expires /= None /\ snapshot.evidence[f].expires > clock
          \/ snapshot.evidence[f].expires = None /\ clock < snapshot.expires
    BY <2>1, <2>2, <2>3 DEF GeometryIssue, Dates
  <2> QED BY <1>1, <2>4 DEF Proves
<1>2. CASE c \notin Geometric
  <2>1. CASE c = "wetland_fraction"
    <3>1. WetlandThreshold(snapshot, clock) # "UNRESOLVED"
      BY <1>2, <2>1 DEF Outcome
    <3>2. Sound(snapshot, "wetland", "PARCEL", clock) /\ snapshot.exact
      BY <3>1, ObservedPasses DEF WetlandThreshold
    <3> QED BY <2>1, <3>2 DEF Proves, Sound
  <2>2. CASE c = "acreage_range"
    <3>1. ParcelAcreageRange(snapshot, clock) # "UNRESOLVED"
      BY <1>2, <2>2 DEF Outcome
    <3>2. Sound(snapshot, "acreage", "PARCEL", clock) /\ snapshot.exact
      BY <3>1, ObservedPasses DEF ParcelAcreageRange
    <3> QED BY <2>2, <3>2 DEF Proves, Sound
  <2>3. CASE c = "zoning_code_in"
    <3>1. ZoningAllowList(snapshot, clock) # "UNRESOLVED"
      BY <1>2, <2>3 DEF Outcome
    <3>2. Sound(snapshot, "zoning", "PARCEL", clock) /\ snapshot.exact
      BY <3>1, ObservedPasses DEF ZoningAllowList
    <3> QED BY <2>3, <3>2 DEF Proves, Sound
  <2>4. CASE c = "outside_floodplain"
    <3>1. PointFlood(snapshot, clock) # "UNRESOLVED"
      BY <1>2, <2>4 DEF Outcome
    <3>2. Sound(snapshot, "floodplain", "POINT", clock)
      BY <3>1, ObservedPasses DEF PointFlood
    <3> QED BY <2>4, <3>2 DEF Proves, Sound
  <2>5. CASE c = "point_slope"
    <3>1. PointSlope(snapshot, clock) # "UNRESOLVED"
      BY <1>2, <2>5 DEF Outcome
    <3>2. Sound(snapshot, "slope", "POINT", clock)
      BY <3>1, ObservedPasses DEF PointSlope
    <3> QED BY <2>5, <3>2 DEF Proves, Sound
  <2>6. CASE c = "line_distance"
    <3>1. PointDistance(snapshot, clock, TRUE) # "UNRESOLVED"
      BY <1>2, <2>6 DEF Outcome
    <3>2. /\ Observed(snapshot, "distance", "NEAREST_FEATURE", FALSE, clock, {2}) # "UNRESOLVED"
          /\ Observed(snapshot, "status", "NEAREST_FEATURE", FALSE, clock, {0}) # "UNRESOLVED"
      BY <3>1 DEF PointDistance
    <3>3. Sound(snapshot, "distance", "NEAREST_FEATURE", clock) /\ Sound(snapshot, "status", "NEAREST_FEATURE", clock)
      BY <3>2, ObservedPasses
    <3> QED BY <2>6, <3>3 DEF Proves, Sound
  <2>7. CASE c = "road_distance"
    <3>1. PointDistance(snapshot, clock, FALSE) # "UNRESOLVED"
      BY <1>2, <2>7 DEF Outcome
    <3>2. Observed(snapshot, "distance", "NEAREST_FEATURE", FALSE, clock, {2}) # "UNRESOLVED"
      BY <3>1 DEF PointDistance
    <3>3. Sound(snapshot, "distance", "NEAREST_FEATURE", clock)
      BY <3>2, ObservedPasses
    <3> QED BY <2>7, <3>3 DEF Proves, Sound
  <2> QED BY <1>2, <2>1, <2>2, <2>3, <2>4, <2>5, <2>6, <2>7 DEF Outcome
<1> QED BY <1>1, <1>2

-----------------------------------------------------------------------------
\* The ends of a parcel, and how far each end of a footprint is from each.
Ends(parcel) == UNION {{c[1], c[2]} : c \in parcel}
Gaps(parcel, fp) == {Abs(e[1] - e[2]) : e \in {fp[1], fp[2]} \X Ends(parcel)}

LEMMA GapsAre ==
    ASSUME NEW parcel, KnownParcel(parcel), NEW a \in Int, NEW b \in Int
    PROVE  /\ Gaps(parcel, <<a, b>>) \subseteq Nat
           /\ \A g \in Gaps(parcel, <<a, b>>) :
                \E x \in {a, b}, c \in parcel : g = Abs(x - c[1]) \/ g = Abs(x - c[2])
           /\ \A x \in {a, b}, c \in parcel : Abs(x - c[1]) \in Gaps(parcel, <<a, b>>)
                                               /\ Abs(x - c[2]) \in Gaps(parcel, <<a, b>>)
<1>1. \A c \in parcel : c[1] \in Int /\ c[2] \in Int
  BY DEF KnownParcel
<1>2. \A y \in Ends(parcel) : y \in Int /\ \E c \in parcel : y = c[1] \/ y = c[2]
  BY <1>1 DEF Ends
<1>3. \A c \in parcel : c[1] \in Ends(parcel) /\ c[2] \in Ends(parcel)
  BY DEF Ends
<1>4. \A x, y \in Int : Abs(x - y) \in Nat
  BY DEF Abs
<1>5. \A g \in Gaps(parcel, <<a, b>>) : \E x \in {a, b}, y \in Ends(parcel) : g = Abs(x - y)
  BY DEF Gaps
<1>6. ASSUME NEW x \in {a, b}, NEW y \in Ends(parcel) PROVE Abs(x - y) \in Gaps(parcel, <<a, b>>)
  <2>1. <<x, y>> \in {a, b} \X Ends(parcel)
    OBVIOUS
  <2>2. PICK e \in {a, b} \X Ends(parcel) : e = <<x, y>>
    BY <2>1
  <2> QED BY <2>2 DEF Gaps
<1>7. Gaps(parcel, <<a, b>>) \subseteq Nat
  <2> SUFFICES ASSUME NEW g \in Gaps(parcel, <<a, b>>) PROVE g \in Nat
    OBVIOUS
  <2>1. PICK x \in {a, b}, y \in Ends(parcel) : g = Abs(x - y)
    BY <1>5
  <2>2. x \in Int /\ y \in Int
    BY <1>2
  <2> QED BY <1>4, <2>1, <2>2
<1>8. \A g \in Gaps(parcel, <<a, b>>) : \E x \in {a, b}, c \in parcel : g = Abs(x - c[1]) \/ g = Abs(x - c[2])
  BY <1>2, <1>5
<1> QED BY <1>3, <1>6, <1>7, <1>8

LEMMA BoundaryDistanceIs ==
    ASSUME NEW parcel, KnownParcel(parcel), parcel # {}, NEW a \in Int, NEW b \in Int
    PROVE  LET d == BoundaryDistance(parcel, <<a, b>>) IN
             d \in Gaps(parcel, <<a, b>>) /\ \A g \in Gaps(parcel, <<a, b>>) : d <= g
<1> DEFINE gaps == Gaps(parcel, <<a, b>>)
<1>1. gaps \subseteq Nat /\ gaps # {}
  BY GapsAre
<1>2. BoundaryDistance(parcel, <<a, b>>) = CHOOSE d \in gaps : \A g \in gaps : d <= g
  BY DEF BoundaryDistance, Gaps, Ends
<1> HIDE DEF gaps
<1>3. \E d \in gaps : \A g \in gaps : d <= g
  BY <1>1, MinOfNaturals
<1> QED BY <1>2, <1>3 DEF gaps

\* To be inside the parcel and away from its ends is to be inside its inset.
LEMMA InsetCovers ==
    ASSUME NEW parcel, KnownParcel(parcel), NEW k \in Nat, NEW a \in Int, NEW b \in Int, a < b
    PROVE  Covers(Inset(parcel, k), <<a, b>>)
             <=> Covers(parcel, <<a, b>>) /\ BoundaryDistance(parcel, <<a, b>>) >= k
<1>1. \A c \in parcel : c[1] \in Int /\ c[2] \in Int /\ c[1] <= c[2]
  BY DEF KnownParcel
<1>2. ASSUME Covers(Inset(parcel, k), <<a, b>>)
      PROVE  Covers(parcel, <<a, b>>) /\ BoundaryDistance(parcel, <<a, b>>) >= k
  <2>1. PICK c \in parcel : c[1] + k <= a /\ b <= c[2] - k
    BY <1>2 DEF Covers, Inset
  <2>2. Covers(parcel, <<a, b>>)
    BY <1>1, <2>1 DEF Covers
  <2>3. ASSUME NEW x \in {a, b}, NEW d \in parcel PROVE Abs(x - d[1]) >= k /\ Abs(x - d[2]) >= k
    <3>1. d = c \/ c[2] < d[1] \/ d[2] < c[1]
      BY DEF KnownParcel
    <3>2. PICK c1 \in Int, c2 \in Int, d1 \in Int, d2 \in Int :
            c1 = c[1] /\ c2 = c[2] /\ d1 = d[1] /\ d2 = d[2] /\ c1 <= c2 /\ d1 <= d2
      BY <1>1
    <3>3. (d1 = c1 /\ d2 = c2) \/ c2 < d1 \/ d2 < c1
      BY <3>1, <3>2
    <3>4. c1 + k <= x /\ x <= c2 - k /\ x \in Int
      BY <2>1, <3>2
    <3>5. Abs(x - d1) >= k /\ Abs(x - d2) >= k
      BY <3>2, <3>3, <3>4 DEF Abs
    <3> QED BY <3>2, <3>5
  <2>4. PICK g : g = BoundaryDistance(parcel, <<a, b>>)
    OBVIOUS
  <2>5. g \in Gaps(parcel, <<a, b>>)
    BY <2>1, <2>4, BoundaryDistanceIs
  <2>6. PICK x \in {a, b}, d \in parcel : g = Abs(x - d[1]) \/ g = Abs(x - d[2])
    BY <2>5, GapsAre
  <2>7. g >= k
    BY <2>3, <2>6
  <2> QED BY <2>2, <2>4, <2>7
<1>3. ASSUME Covers(parcel, <<a, b>>), BoundaryDistance(parcel, <<a, b>>) >= k
      PROVE  Covers(Inset(parcel, k), <<a, b>>)
  <2>1. PICK c \in parcel : c[1] <= a /\ b <= c[2]
    BY <1>3 DEF Covers
  <2>2. PICK d \in Nat : d = BoundaryDistance(parcel, <<a, b>>)
    BY BoundaryDistanceIs, GapsAre
  <2>3. d <= Abs(a - c[1]) /\ d <= Abs(b - c[2])
    BY <2>2, BoundaryDistanceIs, GapsAre
  <2>4. PICK c1 \in Int, c2 \in Int : c1 = c[1] /\ c2 = c[2]
    BY <1>1
  <2>5. c1 + k <= a /\ b <= c2 - k /\ c2 - c1 > 2 * k
    BY <1>3, <2>1, <2>2, <2>3, <2>4 DEF Abs
  <2>6. PICK inner : inner = <<c1 + k, c2 - k>>
    OBVIOUS
  <2>7. inner \in Inset(parcel, k)
    BY <2>4, <2>5, <2>6 DEF Inset
  <2> QED BY <2>5, <2>6, <2>7 DEF Covers
<1> QED BY <1>2, <1>3

\* What is tried is exactly what is allowed.
LEMMA TriesAreAllowed ==
    ASSUME KnownParcel(snapshot.parcel), NEW ask \in Asks
    PROVE  /\ Placements(Inset(snapshot.parcel, ask.setback), ask) = Allowed(ask)
           /\ \A fp \in Allowed(ask) : \E a, b \in Int : fp = <<a, b>>
<1> DEFINE region == Inset(snapshot.parcel, ask.setback)
           centers == Centers(region, ask.position)
           given == IF ask.explicit THEN {ask.half} ELSE 1..ask.half
           halves == Halves(ask.half, ask.explicit)
           tried(fp) == Covers(region, fp)
           allowed(fp) == 4 * Size(fp) >= 2 * ask.half /\ Fits(fp, ask.setback)
<1>1. ask.setback \in Nat /\ ask.half = 3
  BY DEF Asks
<1>2. centers \subseteq Int
  <2>1. \A c \in snapshot.parcel : c[1] \in Int /\ c[2] \in Int
    BY DEF KnownParcel
  <2>2. \A c \in region : c[1] \in Int /\ c[2] \in Int
    BY <1>1, <2>1 DEF Inset
  <2>3. ask.position # None => ask.position \in Int
    BY DEF Asks
  <2> HIDE DEF region
  <2> QED BY <2>2, <2>3 DEF Centers
<1>3. given \subseteq 1..3 /\ halves = {h \in given : 4 * h >= 3}
  BY <1>1 DEF Halves
<1>4. Allowed(ask) = {fp \in Footprints(centers, given) : allowed(fp)}
      /\ Placements(region, ask) = {fp \in Footprints(centers, halves) : tried(fp)}
  BY DEF Allowed, Placements
<1>5. ASSUME NEW p \in centers, NEW h \in given
      PROVE  allowed(<<p - h, p + h>>) <=> h \in halves /\ tried(<<p - h, p + h>>)
  <2>1. PICK a, b : a = p - h /\ b = p + h
    OBVIOUS
  <2>2. a \in Int /\ b \in Int /\ a < b /\ Size(<<a, b>>) = 2 * h /\ h \in Int
    BY <1>2, <1>3, <2>1 DEF Size
  <2>3. Fits(<<a, b>>, ask.setback) <=> tried(<<a, b>>)
    BY <1>1, <2>2, InsetCovers DEF Fits
  <2>4. 4 * Size(<<a, b>>) >= 2 * ask.half <=> h \in halves
    BY <1>1, <1>3, <2>2
  <2> QED BY <2>1, <2>3, <2>4
<1> HIDE DEF region, centers, given, halves, tried, allowed
<1>6. \A hs : \A fp \in Footprints(centers, hs) : \E p \in centers, h \in hs : fp = <<p - h, p + h>>
  BY DEF Footprints
<1>7. \A hs : \A p \in centers, h \in hs : <<p - h, p + h>> \in Footprints(centers, hs)
  <2> TAKE hs
  <2> TAKE p \in centers, h \in hs
  <2>1. PICK e \in centers \X hs : e = <<p, h>>
    OBVIOUS
  <2> QED BY <2>1 DEF Footprints
<1>8. halves \subseteq given
  BY <1>3
<1>9. ASSUME NEW fp \in Allowed(ask) PROVE fp \in Placements(region, ask)
  <2>1. PICK p \in centers, h \in given : fp = <<p - h, p + h>>
    BY <1>4, <1>6
  <2>2. allowed(fp)
    BY <1>4
  <2> QED BY <1>4, <1>5, <1>7, <2>1, <2>2
<1>10. ASSUME NEW fp \in Placements(region, ask) PROVE fp \in Allowed(ask)
  <2>1. PICK p \in centers, h \in halves : fp = <<p - h, p + h>>
    BY <1>4, <1>6
  <2>2. tried(fp)
    BY <1>4
  <2> QED BY <1>4, <1>5, <1>7, <1>8, <2>1, <2>2
<1>11. ASSUME NEW fp \in Allowed(ask) PROVE \E a, b \in Int : fp = <<a, b>>
  <2>1. PICK p \in centers, h \in given : fp = <<p - h, p + h>>
    BY <1>4, <1>6
  <2>2. p - h \in Int /\ p + h \in Int
    BY <1>2, <1>3, <2>1
  <2> QED BY <2>1, <2>2
<1> QED BY <1>9, <1>10, <1>11 DEF region

LEMMA AnswersFit ==
    ASSUME KnownParcel(snapshot.parcel), NEW ask \in Asks, NEW t, NEW u,
           NEW answer \in Proposals(snapshot, ask, t, u)
    PROVE  /\ answer.status = "IMPOSSIBLE" => Allowed(answer.ask) = {}
           /\ answer.status \in {"PLACED", "ADJUSTED"} =>
                /\ answer.footprint \in Largest(Allowed(answer.ask))
                /\ answer.status = "PLACED" <=> Size(answer.footprint) = 2 * answer.ask.half
<1> DEFINE tries == Placements(Inset(snapshot.parcel, ask.setback), ask)
           alone(fp) == [o \in {"bess"} |-> fp]
           Answer(fp) ==
             IF GeometryIssue(snapshot, u) THEN [status |-> "UNRESOLVED"]
             ELSE IF "FAIL" \in {Containment(snapshot, alone(fp)), Setback(snapshot, alone(fp), ask.setback)}
               THEN [status |-> "IMPOSSIBLE", ask |-> ask]
             ELSE [status |-> IF Size(fp) = 2 * ask.half THEN "PLACED" ELSE "ADJUSTED",
                   footprint |-> fp, ask |-> ask]
<1>1. Proposals(snapshot, ask, t, u) =
        IF GeometryIssue(snapshot, t) THEN {[status |-> "UNRESOLVED"]}
        ELSE IF tries = {} THEN {[status |-> "IMPOSSIBLE", ask |-> ask]}
        ELSE {Answer(fp) : fp \in Largest(tries)}
  BY DEF Proposals
<1>2. tries = Allowed(ask)
  BY TriesAreAllowed
<1> HIDE DEF tries, Answer
<1>3. CASE answer = [status |-> "UNRESOLVED"]
  BY <1>3
<1>4. CASE tries = {} /\ answer = [status |-> "IMPOSSIBLE", ask |-> ask]
  BY <1>2, <1>4
<1>5. ASSUME NEW fp \in Largest(tries), answer = Answer(fp)
      PROVE  /\ answer.status = "IMPOSSIBLE" => Allowed(answer.ask) = {}
             /\ answer.status \in {"PLACED", "ADJUSTED"} =>
                  /\ answer.footprint \in Largest(Allowed(answer.ask))
                  /\ answer.status = "PLACED" <=> Size(answer.footprint) = 2 * answer.ask.half
  <2>1. Covers(snapshot.parcel, fp) /\ BoundaryDistance(snapshot.parcel, fp) >= ask.setback
    BY <1>2 DEF Largest, Allowed, Fits
  <2>2. BoundaryDistance(snapshot.parcel, fp) \in Int /\ ask.setback \in Int
    <3>1. fp \in Allowed(ask)
      BY <1>2 DEF Largest
    <3>2. PICK a \in Int, b \in Int : fp = <<a, b>>
      BY <3>1, TriesAreAllowed
    <3>3. snapshot.parcel # {}
      BY <2>1 DEF Covers
    <3>4. BoundaryDistance(snapshot.parcel, <<a, b>>) \in Gaps(snapshot.parcel, <<a, b>>)
      BY <3>3, BoundaryDistanceIs
    <3>5. Gaps(snapshot.parcel, <<a, b>>) \subseteq Nat
      BY GapsAre
    <3>6. BoundaryDistance(snapshot.parcel, fp) \in Int
      BY <3>2, <3>4, <3>5
    <3>7. ask.setback \in Int
      BY DEF Asks
    <3> QED BY <3>6, <3>7
  <2>3. ~(BoundaryDistance(snapshot.parcel, fp) < ask.setback)
    BY <2>1, <2>2
  <2>4. Containment(snapshot, alone(fp)) # "FAIL"
    BY <2>1 DEF Containment, Judge
  <2>5. Setback(snapshot, alone(fp), ask.setback) # "FAIL"
    BY <2>1, <2>3 DEF Setback, Judge
  <2>6. Answer(fp) = [status |-> "UNRESOLVED"]
        \/ Answer(fp) = [status |-> IF Size(fp) = 2 * ask.half THEN "PLACED" ELSE "ADJUSTED",
                         footprint |-> fp, ask |-> ask]
    BY <2>4, <2>5 DEF Answer
  <2> QED BY <1>2, <1>5, <2>6
<1> QED BY <1>1, <1>3, <1>4, <1>5

-----------------------------------------------------------------------------
LEMMA EvaluateKeeps == EvaluationInv /\ Evaluate => EvaluationInv' /\ VerdictsOnlyExpire
<1> SUFFICES ASSUME EvaluationInv, Evaluate PROVE EvaluationInv' /\ VerdictsOnlyExpire
  OBVIOUS
<1>1. /\ verdict' = Evaluated(snapshot, layout, requested, clock)
      /\ UNCHANGED <<clock, snapshot, layout, requested, proposal>>
  BY DEF Evaluate
<1>2. clock \in Nat /\ KnownSnapshot(snapshot)
  BY DEF EvaluationInv
<1>3. EvaluationInv'
  <2>1. PICK t : t = clock
    OBVIOUS
  <2>2. t \in 0..clock' /\ verdict' = Evaluated(snapshot', layout', requested', t)
    BY <1>1, <1>2, <2>1
  <2>3. VerdictIsOfLayout'
    BY <2>2 DEF VerdictIsOfLayout
  <2> QED BY <1>1, <2>3 DEF EvaluationInv, ProposalFits, Allowed, Fits
<1>4. VerdictsOnlyExpire
  <2>1. CASE verdict = NoVerdict
    BY <2>1 DEF VerdictsOnlyExpire, NoVerdict
  <2>2. ASSUME NEW t \in 0..clock, verdict = Evaluated(snapshot, layout, requested, t)
        PROVE  VerdictsOnlyExpire
    <3>1. t \in Nat /\ t <= clock
      BY <1>2
    <3>2. \A c : Outcome(c, snapshot, layout, clock) \in {Outcome(c, snapshot, layout, t), "UNRESOLVED"}
      BY <1>2, <3>1, OutcomeLater
    <3>3. DOMAIN verdict' = requested /\ DOMAIN verdict = requested
      BY <1>1, <2>2 DEF Evaluated
    <3>4. \A c \in requested : verdict'[c] \in {verdict[c], "UNRESOLVED"}
      BY <1>1, <2>2, <3>2 DEF Evaluated
    <3>5. Overall(verdict') = "PASS" => Overall(verdict) = "PASS"
      BY <3>3, <3>4, PassMeansNoOther
    <3> QED BY <3>3, <3>4, <3>5 DEF VerdictsOnlyExpire
  <2> QED BY <2>1, <2>2 DEF EvaluationInv, VerdictIsOfLayout
<1> QED BY <1>3, <1>4

LEMMA ProposeKeeps == EvaluationInv /\ Propose => EvaluationInv' /\ VerdictsOnlyExpire
<1> SUFFICES ASSUME EvaluationInv, Propose PROVE EvaluationInv' /\ VerdictsOnlyExpire
  OBVIOUS
<1>1. PICK ask \in Asks, u \in {clock, clock + 1} : \E answer \in Proposals(snapshot, ask, clock, u) :
        /\ proposal' = answer /\ verdict' = NoVerdict /\ UNCHANGED <<clock, snapshot, requested>>
  BY DEF Propose
<1>2. PICK answer \in Proposals(snapshot, ask, clock, u) :
        /\ proposal' = answer /\ verdict' = NoVerdict /\ UNCHANGED <<clock, snapshot, requested>>
  BY <1>1
<1>3. KnownSnapshot(snapshot) /\ KnownParcel(snapshot.parcel)
  BY DEF EvaluationInv, KnownSnapshot
<1>4. Allowed(answer.ask)' = Allowed(answer.ask)
  BY <1>2 DEF Allowed, Fits
<1>5. ProposalFits'
  BY <1>2, <1>3, AnswersFit DEF ProposalFits, Allowed, Fits
<1>6. EvaluationInv'
  BY <1>2, <1>5 DEF EvaluationInv, VerdictIsOfLayout
<1>7. VerdictsOnlyExpire
  BY <1>2 DEF VerdictsOnlyExpire, NoVerdict
<1> QED BY <1>6, <1>7

LEMMA TickKeeps == EvaluationInv /\ Tick => EvaluationInv' /\ VerdictsOnlyExpire
<1> SUFFICES ASSUME EvaluationInv, Tick PROVE EvaluationInv' /\ VerdictsOnlyExpire
  OBVIOUS
<1>1. clock' = clock + 1 /\ clock \in Nat /\ UNCHANGED <<snapshot, layout, requested, verdict, proposal>>
  BY DEF Tick, EvaluationInv
<1>2. \A t \in 0..clock : t \in 0..clock'
  BY <1>1
<1>3. VerdictIsOfLayout'
  BY <1>1, <1>2 DEF EvaluationInv, VerdictIsOfLayout
<1>4. EvaluationInv'
  <2>1. ProposalFits'
    BY <1>1 DEF EvaluationInv, ProposalFits, Allowed, Fits
  <2> QED BY <1>1, <1>3, <2>1 DEF EvaluationInv
<1> QED BY <1>1, <1>4 DEF VerdictsOnlyExpire

(* Every step of an evaluation keeps the invariant, and verdicts only expire.  *)
LEMMA EvaluationKeeps ==
    ASSUME EvaluationInv, [EvaluationNext]_evaluationVars
    PROVE  EvaluationInv' /\ (VerdictsOnlyExpire \/ UNCHANGED evaluationVars)
<1>1. CASE UNCHANGED evaluationVars
  BY <1>1 DEF evaluationVars, EvaluationInv, VerdictIsOfLayout, ProposalFits, Allowed, Fits
<1> QED BY <1>1, EvaluateKeeps, ProposeKeeps, TickKeeps DEF EvaluationNext

-----------------------------------------------------------------------------
(* The decision of a project.                                                  *)
Requirements == Explicit \cup Asked \cup UNION {Vague[g] : g \in Asked}

\* A candidate was evaluated on its snapshot, and on the requirements as they
\* stand or on some that nobody can meet.
CandidateOK(k, constraints) ==
  /\ DOMAIN k = {"status", "lookup", "dossier", "evaluation"}
  /\ \/ k.evaluation = NotEvaluated
     \/ \E asked \in SUBSET Requirements :
          /\ k.evaluation = EvaluatedOn(k.dossier, asked)
          /\ asked = constraints \/ ~(asked \subseteq Supported)

Wins(k) == k.status = "ENRICHED" /\ Passes(k.evaluation)

\* Candidates the ranking does not tell from those there are.
SameRank(ks, ls) ==
  \A c \in Candidates : /\ ks[c].status = "ENRICHED" <=> ls[c].status = "ENRICHED"
                        /\ ks[c].evaluation = ls[c].evaluation

\* Candidates as they are, or as they were before they were looked up.
RankedBefore(ks, ls) ==
  \A c \in Candidates : /\ ks[c].evaluation = ls[c].evaluation
                        /\ ls[c].status = "ENRICHED" => ks[c].status = "ENRICHED"
                        /\ ks[c].status = "ENRICHED" => ls[c].status = "ENRICHED" \/ ls[c].lookup \in Found

\* The ranking is that of the candidates, but for look-ups since, or there is none
\* and nobody to win.
RankingHolds(p) ==
  \/ p.ranking = <<>> /\ \A c \in Candidates : ~Wins(p.candidates[c])
  \/ \E ks : RankedBefore(ks, p.candidates) /\ p.ranking = Ranking(ks)

Based(p) ==
  /\ DOMAIN p = {"constraints", "gaps", "ranking", "decision", "candidates"}
  /\ p.constraints \subseteq Requirements /\ p.gaps \subseteq p.constraints \cap Asked
  /\ DOMAIN p.candidates = Candidates
  /\ \A c \in Candidates : CandidateOK(p.candidates[c], p.constraints)
ProjectOK(p) == Based(p) /\ RankingHolds(p) /\ p.decision = Decided(p)

DecisionInv ==
  /\ ProjectOK(project)
  /\ held.op # "none" => ProjectOK(held.copy)
  /\ held.op = "resolve" =>
       held.candidate \in Candidates /\ held.copy.candidates[held.candidate].lookup \notin Found
  /\ held.op \in {"quote", "lookup"} =>
       DOMAIN held = {"op", "reason", "left", "copy"} /\ held.left \subseteq Candidates
  /\ held.op = "lookup" => /\ held.left # {} /\ held.copy.candidates[Turn].status # "ENRICHED"
                           /\ held.copy.candidates[Turn].lookup \notin Found

-----------------------------------------------------------------------------
(* Keys of candidates, and their order.                                        *)
KeyTuple == Int \X Int \X Int \X Int \X Int

LEMMA BeforeIsLexical ==
    ASSUME NEW s \in KeyTuple, NEW t \in KeyTuple
    PROVE  Before(s, t) <=>
             \/ s[1] < t[1]
             \/ s[1] = t[1] /\ s[2] < t[2]
             \/ s[1] = t[1] /\ s[2] = t[2] /\ s[3] < t[3]
             \/ s[1] = t[1] /\ s[2] = t[2] /\ s[3] = t[3] /\ s[4] < t[4]
             \/ s[1] = t[1] /\ s[2] = t[2] /\ s[3] = t[3] /\ s[4] = t[4] /\ s[5] < t[5]
<1>1. DOMAIN s = {1, 2, 3, 4, 5}
  BY DEF KeyTuple
<1>2. 1..1 - 1 = {} /\ 1..2 - 1 = {1} /\ 1..3 - 1 = {1, 2} /\ 1..4 - 1 = {1, 2, 3} /\ 1..5 - 1 = {1, 2, 3, 4}
  OBVIOUS
<1> QED BY <1>1, <1>2 DEF Before

\* A total order of keys whose last parts differ.
LEMMA BeforeIsOrder ==
    ASSUME NEW s \in KeyTuple, NEW t \in KeyTuple
    PROVE  /\ ~Before(s, s)
           /\ Before(s, t) => ~Before(t, s)
           /\ s[5] # t[5] => Before(s, t) \/ Before(t, s)
           /\ \A u \in KeyTuple : Before(s, t) /\ Before(t, u) => Before(s, u)
<1>0. /\ s[1] \in Int /\ s[2] \in Int /\ s[3] \in Int /\ s[4] \in Int /\ s[5] \in Int
      /\ t[1] \in Int /\ t[2] \in Int /\ t[3] \in Int /\ t[4] \in Int /\ t[5] \in Int
  BY DEF KeyTuple
<1>1. ~Before(s, s)
  BY <1>0, BeforeIsLexical
<1>2. Before(s, t) => ~Before(t, s)
  BY <1>0, BeforeIsLexical
<1>3. s[5] # t[5] => Before(s, t) \/ Before(t, s)
  BY <1>0, BeforeIsLexical
<1>4. ASSUME NEW u \in KeyTuple, Before(s, t), Before(t, u) PROVE Before(s, u)
  <2>1. /\ u[1] \in Int /\ u[2] \in Int /\ u[3] \in Int /\ u[4] \in Int /\ u[5] \in Int
    BY DEF KeyTuple
  <2> QED BY <1>0, <1>4, <2>1, BeforeIsLexical
<1> QED BY <1>1, <1>2, <1>3, <1>4

\* Keys that differ in their last parts can be put in order.
LEMMA KeysCanBeSorted ==
    ASSUME NEW key, \A c \in Candidates : key[c] \in KeyTuple /\ key[c][5] = c
    PROVE  \E order \in [1..Cardinality(Candidates) -> Candidates] :
             \A i, j \in DOMAIN order : i < j => Before(key[order[i]], key[order[j]])
<1> DEFINE n == Cardinality(Candidates)
           smaller(c) == {d \in Candidates : Before(key[d], key[c])}
           place == [c \in Candidates |-> Cardinality(smaller(c)) + 1]
<1>1. IsFiniteSet(Candidates) /\ n \in Nat
  BY DecisionAssumption, FS_CardinalityType
<1>2. \A c \in Candidates : IsFiniteSet(smaller(c)) /\ Cardinality(smaller(c)) \in Nat
  BY <1>1, FS_Subset, FS_CardinalityType
<1>3. ASSUME NEW c \in Candidates PROVE place[c] \in 1..n
  <2>1. c \notin smaller(c)
    BY BeforeIsOrder
  <2>2. smaller(c) \in SUBSET Candidates /\ smaller(c) # Candidates
    BY <2>1
  <2>3. Cardinality(smaller(c)) <= n /\ Cardinality(smaller(c)) # n
    BY <1>1, <2>2, FS_Subset
  <2> QED BY <1>1, <1>2, <2>3
<1>4. ASSUME NEW c \in Candidates, NEW d \in Candidates, Before(key[c], key[d])
      PROVE  place[c] < place[d]
  <2>1. \A e \in Candidates : Before(key[e], key[c]) => Before(key[e], key[d])
    BY <1>4, BeforeIsOrder
  <2>2. c \in smaller(d) /\ c \notin smaller(c)
    BY <1>4, BeforeIsOrder
  <2>3. smaller(c) \in SUBSET smaller(d) /\ smaller(c) # smaller(d)
    BY <2>1, <2>2
  <2>4. Cardinality(smaller(c)) <= Cardinality(smaller(d)) /\ Cardinality(smaller(c)) # Cardinality(smaller(d))
    BY <1>2, <2>3, FS_Subset
  <2> QED BY <1>2, <2>4
<1> HIDE DEF place
<1>5. \A c, d \in Candidates : place[c] < place[d] => Before(key[c], key[d])
  <2> SUFFICES ASSUME NEW c \in Candidates, NEW d \in Candidates, place[c] < place[d]
               PROVE  Before(key[c], key[d])
    OBVIOUS
  <2>1. place[c] \in Int /\ place[d] \in Int /\ c # d
    BY <1>3
  <2>2. ~Before(key[d], key[c])
    BY <1>4, <2>1
  <2> QED BY <2>1, <2>2, BeforeIsOrder
<1>6. place \in Injection(Candidates, 1..n)
  <2>1. place \in [Candidates -> 1..n]
    BY <1>3 DEF place
  <2>2. \A c, d \in Candidates : c # d => place[c] # place[d]
    <3> SUFFICES ASSUME NEW c \in Candidates, NEW d \in Candidates, c # d PROVE place[c] # place[d]
      OBVIOUS
    <3>1. place[c] \in Int /\ place[d] \in Int
      BY <1>3
    <3>2. Before(key[c], key[d]) \/ Before(key[d], key[c])
      BY BeforeIsOrder
    <3> QED BY <1>4, <3>1, <3>2
  <2> QED BY <2>1, <2>2 DEF Injection, IsInjective
<1>7. place \in Surjection(Candidates, 1..n)
  <2>1. IsFiniteSet(1..n) /\ Cardinality(1..n) = n
    BY <1>1, FS_Interval
  <2> QED BY <1>6, <2>1, FS_Injection
<1> DEFINE order == [i \in 1..n |-> CHOOSE c \in Candidates : place[c] = i]
<1>8. \A i \in 1..n : order[i] \in Candidates /\ place[order[i]] = i
  <2> TAKE i \in 1..n
  <2>1. \E c \in Candidates : place[c] = i
    BY <1>7 DEF Surjection
  <2> QED BY <2>1
<1> HIDE DEF order
<1>9. order \in [1..n -> Candidates]
  BY <1>8 DEF order
<1>10. \A i, j \in DOMAIN order : i < j => Before(key[order[i]], key[order[j]])
  BY <1>5, <1>8, <1>9
<1> QED BY <1>9, <1>10

-----------------------------------------------------------------------------
(* What candidates rank by.                                                    *)
FinitelyEvaluated(ks) == \A c \in Candidates : IsFiniteSet(DOMAIN ks[c].evaluation)

LEMMA KeysAreTyped ==
    ASSUME NEW ks, FinitelyEvaluated(ks), NEW c \in Candidates
    PROVE  /\ Key(ks, c) \in KeyTuple /\ Key(ks, c)[5] = c
           /\ Key(ks, c)[1] = IF ks[c].status = "ENRICHED" THEN 0 ELSE 1
           /\ Score(ks[c]) = <<Key(ks, c)[2], Key(ks, c)[3], Key(ks, c)[4]>>
<1>1. \A outcome : Count(ks[c].evaluation, outcome) \in Nat
  <2> TAKE outcome
  <2> DEFINE some == {r \in DOMAIN ks[c].evaluation : ks[c].evaluation[r] = outcome}
  <2>1. IsFiniteSet(DOMAIN ks[c].evaluation) /\ some \in SUBSET DOMAIN ks[c].evaluation
    BY DEF FinitelyEvaluated
  <2>2. IsFiniteSet(some)
    BY <2>1, FS_Subset
  <2> QED BY <2>2, FS_CardinalityType DEF Count
<1>2. PICK f, u, s : f = Count(ks[c].evaluation, "FAIL") /\ u = Count(ks[c].evaluation, "UNRESOLVED")
                     /\ s = Count(ks[c].evaluation, "PASS")
  OBVIOUS
<1>3. f \in Nat /\ u \in Nat /\ s \in Nat
  BY <1>1, <1>2
<1>4. Score(ks[c]) = <<f, u, -s>>
  BY <1>2 DEF Score
<1>5. Key(ks, c) = <<IF ks[c].status = "ENRICHED" THEN 0 ELSE 1, f, u, -s, c>>
  BY <1>4 DEF Key
<1>6. c \in Int
  BY DecisionAssumption
<1> QED BY <1>3, <1>4, <1>5, <1>6 DEF KeyTuple

\* The order has every candidate once, sorted by key.
LEMMA OrderIsSorted ==
    ASSUME NEW ks, FinitelyEvaluated(ks)
    PROVE  /\ Order(ks) \in [1..Cardinality(Candidates) -> Candidates]
           /\ Cardinality(Candidates) \in Nat
           /\ \A i, j \in 1..Cardinality(Candidates) :
                i < j => Before(Key(ks, Order(ks)[i]), Key(ks, Order(ks)[j]))
           /\ \A c \in Candidates : \E i \in 1..Cardinality(Candidates) : Order(ks)[i] = c
<1> DEFINE n == Cardinality(Candidates)
           key == [c \in Candidates |-> Key(ks, c)]
<1>1. IsFiniteSet(Candidates) /\ n \in Nat
  BY DecisionAssumption, FS_CardinalityType
<1>2. \A c \in Candidates : key[c] \in KeyTuple /\ key[c][5] = c
  BY KeysAreTyped
<1> HIDE DEF key
<1>3. \E order \in [1..n -> Candidates] :
        \A i, j \in DOMAIN order : i < j => Before(key[order[i]], key[order[j]])
  BY <1>2, KeysCanBeSorted
<1>4. PICK order : order = Order(ks)
  OBVIOUS
<1>5. /\ order \in [1..n -> Candidates]
      /\ \A i, j \in DOMAIN order : i < j => Before(key[order[i]], key[order[j]])
  BY <1>3, <1>4 DEF Order, key
<1>6. \A i, j \in 1..n : i < j => Before(key[order[i]], key[order[j]])
  BY <1>5
<1>7. \A i, j \in 1..n : i # j => order[i] # order[j]
  <2> SUFFICES ASSUME NEW i \in 1..n, NEW j \in 1..n, i < j PROVE order[i] # order[j]
    OBVIOUS
  <2>1. order[i] \in Candidates /\ Before(key[order[i]], key[order[j]])
    BY <1>5, <1>6
  <2> QED BY <1>2, <2>1, BeforeIsOrder
<1>8. order \in Surjection(1..n, Candidates)
  <2>1. order \in Injection(1..n, Candidates)
    BY <1>5, <1>7 DEF Injection, IsInjective
  <2>2. IsFiniteSet(1..n) /\ Cardinality(1..n) = n
    BY <1>1, FS_Interval
  <2> QED BY <1>1, <2>1, <2>2, FS_Injection
<1>9. \A c \in Candidates : \E i \in 1..n : order[i] = c
  BY <1>8 DEF Surjection
<1>10. \A i \in 1..n : key[order[i]] = Key(ks, order[i])
  BY <1>5 DEF key
<1> QED BY <1>1, <1>4, <1>5, <1>6, <1>9, <1>10

IsEntry(item, ks, c) ==
  /\ item.candidate = c /\ item.evaluation = ks[c].evaluation
  /\ item.status = "ENRICHED" <=> ks[c].status = "ENRICHED"

LEMMA RankingIs ==
    ASSUME NEW ks, FinitelyEvaluated(ks), NEW i \in 1..Cardinality(Candidates)
    PROVE  /\ DOMAIN Ranking(ks) = 1..Cardinality(Candidates)
           /\ Order(ks)[i] \in Candidates
           /\ IsEntry(Ranking(ks)[i], ks, Order(ks)[i])
BY OrderIsSorted DEF Ranking, IsEntry, Standing

\* Of a ranking one is the first that is enriched, and another that is may be second.
LEMMA TopIsFirst ==
    ASSUME NEW ranking, DOMAIN ranking \subseteq Nat, NEW i \in Enriched(ranking)
    PROVE  /\ Min(Enriched(ranking)) \in Enriched(ranking)
           /\ Min(Enriched(ranking)) <= i
           /\ i # Min(Enriched(ranking)) =>
                /\ Min(Enriched(ranking) \ {Min(Enriched(ranking))}) \in Enriched(ranking)
                /\ Min(Enriched(ranking)) < Min(Enriched(ranking) \ {Min(Enriched(ranking))})
                /\ Min(Enriched(ranking) \ {Min(Enriched(ranking))}) <= i
<1> DEFINE E == Enriched(ranking)
           first == Min(E)
           rest == E \ {first}
<1>1. E \subseteq Nat /\ E # {}
  BY DEF Enriched
<1> HIDE DEF E
<1>2. first \in E /\ \A j \in E : first <= j
  BY <1>1, MinOfNaturals
<1> HIDE DEF first
<1>3. i \in E
  BY DEF E
<1>4. ASSUME i # first
      PROVE  Min(rest) \in E /\ first < Min(rest) /\ Min(rest) <= i
  <2>1. rest \subseteq Nat /\ rest # {} /\ i \in rest
    BY <1>1, <1>3, <1>4
  <2>2. Min(rest) \in rest /\ \A j \in rest : Min(rest) <= j
    BY <2>1, MinOfNaturals
  <2>3. Min(rest) \in E /\ Min(rest) # first /\ Min(rest) <= i
    BY <2>1, <2>2
  <2>4. first <= Min(rest) /\ first \in Nat /\ Min(rest) \in Nat
    BY <1>1, <1>2, <2>3
  <2> QED BY <2>3, <2>4
<1> QED BY <1>2, <1>3, <1>4 DEF E, first

-----------------------------------------------------------------------------
(* The decision depends on what ranks, and the winner has earned it.           *)
LEMMA SameRankSameDecision ==
    ASSUME NEW ks, NEW ls, SameRank(ks, ls), FinitelyEvaluated(ls),
           NEW p, NEW q, p.gaps = q.gaps, p.ranking = Ranking(ks), q.ranking = Ranking(ls)
    PROVE  Decided(p) = Decided(q)
<1> DEFINE n == Cardinality(Candidates)
<1>1. FinitelyEvaluated(ks)
  BY DEF FinitelyEvaluated, SameRank
<1>2. \A c \in Candidates : Score(ks[c]) = Score(ls[c])
  BY DEF Score, SameRank
<1>3. \A c \in Candidates : Key(ks, c) = Key(ls, c)
  BY <1>2 DEF Key, SameRank
<1>4. [c \in Candidates |-> Key(ks, c)] = [c \in Candidates |-> Key(ls, c)]
  BY <1>3
<1>5. Order(ks) = Order(ls)
  BY <1>4 DEF Order
<1>6. DOMAIN p.ranking \subseteq 1..n /\ DOMAIN q.ranking \subseteq 1..n /\ DOMAIN p.ranking = DOMAIN q.ranking
  BY <1>1, OrderIsSorted, <1>5 DEF Ranking
<1>7. \A i \in 1..n : /\ p.ranking[i].candidate = q.ranking[i].candidate
                      /\ p.ranking[i].evaluation = q.ranking[i].evaluation
                      /\ p.ranking[i].status = "ENRICHED" <=> q.ranking[i].status = "ENRICHED"
  <2> TAKE i \in 1..n
  <2>1. PICK c : c = Order(ks)[i] /\ c = Order(ls)[i]
    BY <1>5
  <2>2. /\ c \in Candidates
        /\ IsEntry(p.ranking[i], ks, c)
    BY <1>1, <2>1, RankingIs
  <2>3. IsEntry(q.ranking[i], ls, c)
    BY <2>1, RankingIs
  <2> QED BY <2>2, <2>3 DEF SameRank, IsEntry
<1>8. Enriched(p.ranking) = Enriched(q.ranking)
  BY <1>6, <1>7 DEF Enriched
<1>9. PICK E : E = Enriched(p.ranking) /\ E = Enriched(q.ranking)
  BY <1>8
<1>10. E \subseteq 1..n /\ E \subseteq Nat
  BY <1>6, <1>9 DEF Enriched
<1>11. CASE E = {}
  BY <1>9, <1>11 DEF Decided, Leads
<1>12. CASE E # {}
  <2>1. Min(E) \in 1..n
    BY <1>10, <1>12, MinOfNaturals
  <2>2. /\ Top(p.ranking).candidate = Top(q.ranking).candidate
        /\ Top(p.ranking).evaluation = Top(q.ranking).evaluation
    BY <1>7, <1>9, <2>1 DEF Top
  <2>3. Leads(p) <=> Leads(q)
    BY <1>9, <2>2 DEF Leads
  <2>4. Tied(p.ranking) <=> Tied(q.ranking)
    <3>1. CASE E \ {Min(E)} = {}
      <4>1. E = {Min(E)}
        BY <1>12, <3>1
      <4>2. Cardinality(E) = 1
        BY <4>1, FS_Singleton
      <4> QED BY <1>9, <4>2 DEF Tied
    <3>2. CASE E \ {Min(E)} # {}
      <4>1. Min(E \ {Min(E)}) \in 1..n
        BY <1>10, <3>2, MinOfNaturals
      <4>2. Second(p.ranking).evaluation = Second(q.ranking).evaluation
        BY <1>7, <1>9, <4>1 DEF Second
      <4> QED BY <1>9, <2>2, <4>2 DEF Tied, Score
    <3> QED BY <3>1, <3>2
  <2>5. Ready(Top(p.ranking)) = Ready(Top(q.ranking))
    BY <2>2 DEF Ready
  <2> QED BY <2>3, <2>4, <2>5 DEF Decided
<1> QED BY <1>11, <1>12

LEMMA EvaluationsAreFinite == ASSUME NEW p, Based(p) PROVE FinitelyEvaluated(p.candidates)
<1> SUFFICES ASSUME NEW c \in Candidates PROVE IsFiniteSet(DOMAIN p.candidates[c].evaluation)
  BY DEF FinitelyEvaluated
<1>1. IsFiniteSet(Requirements) /\ IsFiniteSet({})
  BY DecisionAssumption, FS_EmptySet DEF Requirements, Asked
<1>2. CandidateOK(p.candidates[c], p.constraints)
  BY DEF Based
<1>3. DOMAIN p.candidates[c].evaluation \in SUBSET Requirements
  BY <1>2 DEF CandidateOK, NotEvaluated, EvaluatedOn
<1> QED BY <1>1, <1>3, FS_Subset

\* Who passes was evaluated on the requirements as they stand, none of them open.
LEMMA PassingIsCurrent ==
    ASSUME NEW p, Based(p), NEW c \in Candidates, Passes(p.candidates[c].evaluation)
    PROVE  /\ p.gaps = {} /\ DOMAIN p.candidates[c].evaluation = p.constraints
           /\ \A r \in p.constraints : r \in Supported /\ p.candidates[c].dossier[r] = "PASS"
<1> DEFINE k == p.candidates[c]
<1>1. CandidateOK(k, p.constraints)
  BY DEF Based
<1>2. k.evaluation # NotEvaluated
  BY DEF Passes, NotEvaluated
<1>3. PICK asked \in SUBSET Requirements :
        /\ k.evaluation = EvaluatedOn(k.dossier, asked)
        /\ asked = p.constraints \/ ~(asked \subseteq Supported)
  BY <1>1, <1>2 DEF CandidateOK
<1>4. DOMAIN k.evaluation = asked
  BY <1>3 DEF EvaluatedOn
<1>5. \A r \in asked : r \in Supported /\ k.dossier[r] = "PASS"
  <2> TAKE r \in asked
  <2>1. k.evaluation[r] = "PASS"
    BY <1>4 DEF Passes
  <2>2. k.evaluation[r] = IF r \in Supported THEN k.dossier[r] ELSE "UNRESOLVED"
    BY <1>3 DEF EvaluatedOn
  <2> QED BY <2>1, <2>2
<1>6. asked = p.constraints
  BY <1>3, <1>5
<1>7. p.gaps = {}
  BY <1>5, <1>6, DecisionAssumption DEF Based, Asked
<1> QED BY <1>4, <1>5, <1>6, <1>7

LEMMA NobodyWinsYet ==
    ASSUME NEW p, Based(p), p.gaps # {}
    PROVE  \A c \in Candidates : ~Wins(p.candidates[c])
BY PassingIsCurrent DEF Wins

\* Who passes scores like anybody else who does.
LEMMA PassingScoresAgree ==
    ASSUME NEW e, NEW f, Passes(e), Passes(f), DOMAIN e = DOMAIN f
    PROVE  \A outcome : Count(e, outcome) = Count(f, outcome)
<1> TAKE outcome
<1>1. {c \in DOMAIN e : e[c] = outcome} = {c \in DOMAIN f : f[c] = outcome}
  BY DEF Passes
<1> QED BY <1>1 DEF Count

LEMMA SortedBetween ==
    ASSUME NEW a \in KeyTuple, NEW b \in KeyTuple, NEW e \in KeyTuple, a[1] = b[1], b[1] = e[1],
           a[2] = e[2], a[3] = e[3], a[4] = e[4], Before(a, b), b = e \/ Before(b, e)
    PROVE  b[2] = a[2] /\ b[3] = a[3] /\ b[4] = a[4]
<1>1. /\ a[2] \in Int /\ a[3] \in Int /\ a[4] \in Int
      /\ b[2] \in Int /\ b[3] \in Int /\ b[4] \in Int
      /\ e[2] \in Int /\ e[3] \in Int /\ e[4] \in Int /\ a[1] \in Int /\ b[1] \in Int /\ e[1] \in Int
  BY DEF KeyTuple
<1> QED BY <1>1, BeforeIsLexical

LEMMA NobodyLeads ==
    ASSUME NEW p, NEW ks, p.ranking = Ranking(ks), FinitelyEvaluated(ks),
           \A c \in Candidates : ~Wins(ks[c])
    PROVE  ~Leads(p)
<1> SUFFICES ASSUME Leads(p) PROVE FALSE
  OBVIOUS
<1> DEFINE E == Enriched(p.ranking)
<1>1. E \subseteq 1..Cardinality(Candidates) /\ E # {} /\ Passes(Top(p.ranking).evaluation)
  BY OrderIsSorted DEF Enriched, Ranking, Leads
<1>2. PICK i \in E : i = Min(E)
  BY <1>1, MinOfNaturals
<1>3. PICK c \in Candidates : IsEntry(p.ranking[i], ks, c)
  BY <1>1, RankingIs
<1>4. ks[c].status = "ENRICHED"
  BY <1>3 DEF Enriched, IsEntry
<1>5. Passes(ks[c].evaluation)
  BY <1>1, <1>2, <1>3 DEF Top, IsEntry
<1> QED BY <1>4, <1>5 DEF Wins

\* The winner passes still, whether or not it has been looked up since.
LEMMA WinnerEarned ==
    ASSUME NEW p, ProjectOK(p), p.decision.status = "DECISION_READY"
    PROVE  /\ p.decision.winner \in Candidates
           /\ Passes(p.candidates[p.decision.winner].evaluation)
           /\ \A c \in Candidates : Wins(p.candidates[c]) => c = p.decision.winner
<1> DEFINE n == Cardinality(Candidates)
           E == Enriched(p.ranking)
<1>1. Based(p) /\ RankingHolds(p) /\ p.decision = Decided(p)
  BY DEF ProjectOK
<1>2. Leads(p) /\ ~Tied(p.ranking) /\ p.decision = Ready(Top(p.ranking))
  BY <1>1 DEF Decided, NoDecision, Ready
<1>3. PICK ks : RankedBefore(ks, p.candidates) /\ p.ranking = Ranking(ks)
  <2>1. p.ranking # <<>>
    BY <1>2 DEF Leads, Enriched
  <2> QED BY <1>1, <2>1 DEF RankingHolds
<1>4. FinitelyEvaluated(p.candidates) /\ FinitelyEvaluated(ks)
  BY <1>1, <1>3, EvaluationsAreFinite DEF FinitelyEvaluated, RankedBefore
<1>5. E \subseteq 1..n /\ DOMAIN p.ranking \subseteq Nat /\ E # {} /\ n \in Nat
  <2>1. E # {} /\ E \subseteq DOMAIN p.ranking
    BY <1>2 DEF Leads, Enriched
  <2>2. n \in Nat /\ DOMAIN p.ranking = 1..n
    <3>1. n \in Nat /\ Order(ks) \in [1..n -> Candidates]
      BY <1>4, OrderIsSorted
    <3> QED BY <1>3, <3>1 DEF Ranking
  <2> QED BY <2>1, <2>2
<1>6. PICK first \in E : first = Min(E)
  BY <1>5, MinOfNaturals
<1>7. PICK w : w = Order(ks)[first]
  OBVIOUS
<1>8. first \in 1..n
  BY <1>5
<1>9. /\ w \in Candidates
      /\ IsEntry(p.ranking[first], ks, w)
  BY <1>3, <1>4, <1>7, <1>8, RankingIs
<1>10. Top(p.ranking) = p.ranking[first]
  BY <1>6 DEF Top
<1>11. p.decision.winner = w
  BY <1>2, <1>9, <1>10 DEF Ready, IsEntry
<1>12. ks[w].status = "ENRICHED" /\ Passes(ks[w].evaluation)
  BY <1>2, <1>6, <1>9, <1>10 DEF Leads, Enriched, IsEntry
<1>13. Passes(p.candidates[w].evaluation)
  BY <1>3, <1>9, <1>12 DEF RankedBefore
<1>14. ASSUME NEW c \in Candidates, Wins(p.candidates[c]), c # w PROVE FALSE
  <2>1. PICK i \in 1..n : Order(ks)[i] = c
    BY <1>4, OrderIsSorted
  <2>2. IsEntry(p.ranking[i], ks, c)
    BY <1>3, <1>4, <2>1, RankingIs
  <2>3. ks[c].status = "ENRICHED" /\ Passes(ks[c].evaluation)
    BY <1>3, <1>14 DEF Wins, RankedBefore
  <2>4. DOMAIN p.ranking = 1..n
    BY <1>3, <1>4, <1>8, RankingIs
  <2>5. i \in E /\ i # first
    BY <1>7, <1>14, <2>1, <2>2, <2>3, <2>4 DEF Enriched, IsEntry
  <2>6. PICK second : second = Min(E \ {Min(E)})
    OBVIOUS
  <2>7. second \in E /\ first < second /\ second <= i
    BY <1>5, <1>6, <2>5, <2>6, TopIsFirst
  <2>8. second \in 1..n
    BY <1>5, <2>7
  <2>9. PICK d : d = Order(ks)[second]
    OBVIOUS
  <2>10. /\ d \in Candidates
         /\ IsEntry(p.ranking[second], ks, d)
    BY <1>3, <1>4, <2>8, <2>9, RankingIs
  <2>11. ks[d].status = "ENRICHED"
    BY <2>7, <2>10 DEF Enriched, IsEntry
  <2>12. Score(ks[w]) = Score(ks[c])
    <3>1. /\ Passes(p.candidates[w].evaluation) /\ Passes(p.candidates[c].evaluation)
          /\ p.candidates[w].evaluation = ks[w].evaluation /\ p.candidates[c].evaluation = ks[c].evaluation
      BY <1>3, <1>9, <1>13, <1>14 DEF Wins, RankedBefore
    <3>2. DOMAIN ks[w].evaluation = DOMAIN ks[c].evaluation
      BY <1>1, <1>9, <3>1, PassingIsCurrent
    <3> QED BY <3>1, <3>2, PassingScoresAgree DEF Score
  <2>13. Before(Key(ks, w), Key(ks, d)) /\ (d = c \/ Before(Key(ks, d), Key(ks, c)))
    <3>1. Before(Key(ks, w), Key(ks, d))
      BY <1>4, <1>7, <1>8, <2>7, <2>8, <2>9, OrderIsSorted
    <3>2. second = i \/ second < i
      BY <2>7, <2>8
    <3> QED BY <1>4, <2>1, <2>8, <2>9, <3>1, <3>2, OrderIsSorted
  <2>14. Score(ks[d]) = Score(ks[w])
    <3>1. /\ Key(ks, w) \in KeyTuple /\ Key(ks, d) \in KeyTuple /\ Key(ks, c) \in KeyTuple
          /\ Key(ks, w)[1] = 0 /\ Key(ks, d)[1] = 0 /\ Key(ks, c)[1] = 0
      BY <1>4, <1>9, <1>12, <2>3, <2>10, <2>11, KeysAreTyped
    <3>2. /\ Score(ks[w]) = <<Key(ks, w)[2], Key(ks, w)[3], Key(ks, w)[4]>>
          /\ Score(ks[d]) = <<Key(ks, d)[2], Key(ks, d)[3], Key(ks, d)[4]>>
          /\ Score(ks[c]) = <<Key(ks, c)[2], Key(ks, c)[3], Key(ks, c)[4]>>
      BY <1>4, <1>9, <2>10, KeysAreTyped
    <3>3. PICK a, b, e : a = Key(ks, w) /\ b = Key(ks, d) /\ e = Key(ks, c)
      OBVIOUS
    <3>4. a \in KeyTuple /\ b \in KeyTuple /\ e \in KeyTuple /\ a[1] = b[1] /\ b[1] = e[1]
      BY <3>1, <3>3
    <3>5. Before(a, b) /\ (b = e \/ Before(b, e))
      BY <2>13, <3>3
    <3>6. a[2] = e[2] /\ a[3] = e[3] /\ a[4] = e[4]
      <4>1. <<a[2], a[3], a[4]>> = <<e[2], e[3], e[4]>>
        BY <2>12, <3>2, <3>3
      <4> QED BY <4>1
    <3>7. b[2] = a[2] /\ b[3] = a[3] /\ b[4] = a[4]
      BY <3>4, <3>5, <3>6, SortedBetween
    <3> QED BY <3>2, <3>3, <3>7
  <2>15. Cardinality(E) > 1
    <3>1. IsFiniteSet(E)
      <4>1. IsFiniteSet(1..n) /\ E \in SUBSET (1..n)
        BY <1>5, FS_Interval
      <4> QED BY <4>1, FS_Subset
    <3>2. Cardinality(E) \in Nat /\ Cardinality(E) # 0 /\ Cardinality(E) # 1
      <4>1. E # {} /\ ~\E x : E = {x}
        BY <2>5
      <4> QED BY <3>1, <4>1, FS_CardinalityType, FS_EmptySet, FS_Singleton
    <3> QED BY <3>2
  <2>16. Score(Top(p.ranking)) = Score(Second(p.ranking))
    <3>1. Second(p.ranking) = p.ranking[second]
      BY <2>6 DEF Second
    <3>2. Score(p.ranking[first]) = Score(ks[w]) /\ Score(p.ranking[second]) = Score(ks[d])
      BY <1>9, <2>10 DEF Score, IsEntry
    <3> QED BY <1>10, <2>14, <3>1, <3>2
  <2> QED BY <1>2, <2>15, <2>16 DEF Tied
<1> QED BY <1>9, <1>11, <1>13, <1>14

\* The candidates as ranked are those the ranking was made of, as far as it tells.
LEMMA AsRankedIs ==
    ASSUME NEW ks, RankedBefore(ks, project.candidates), project.ranking = Ranking(ks),
           FinitelyEvaluated(project.candidates),
           \A c \in Candidates :
             /\ AsRanked[c].evaluation = project.candidates[c].evaluation
             /\ AsRanked[c].status = "ENRICHED" <=> c \in LookedUpSince \/ project.candidates[c].status = "ENRICHED"
    PROVE  SameRank(ks, AsRanked)
<1>1. FinitelyEvaluated(ks)
  BY DEF FinitelyEvaluated, RankedBefore
<1>2. ASSUME NEW c \in Candidates
      PROVE  ks[c].status = "ENRICHED" <=> \E i \in Enriched(project.ranking) : project.ranking[i].candidate = c
  <2>1. ASSUME ks[c].status = "ENRICHED"
        PROVE  \E i \in Enriched(project.ranking) : project.ranking[i].candidate = c
    <3>1. PICK i \in 1..Cardinality(Candidates) : Order(ks)[i] = c
      BY <1>1, OrderIsSorted
    <3>2. DOMAIN project.ranking = 1..Cardinality(Candidates) /\ IsEntry(project.ranking[i], ks, c)
      BY <1>1, <3>1, RankingIs
    <3> QED BY <2>1, <3>1, <3>2 DEF IsEntry, Enriched
  <2>2. ASSUME NEW i \in Enriched(project.ranking), project.ranking[i].candidate = c
        PROVE  ks[c].status = "ENRICHED"
    <3>1. i \in 1..Cardinality(Candidates)
      BY <1>1, OrderIsSorted DEF Enriched, Ranking
    <3>2. IsEntry(project.ranking[i], ks, Order(ks)[i])
      BY <1>1, <3>1, RankingIs
    <3> QED BY <2>2, <3>2 DEF IsEntry, Enriched
  <2> QED BY <2>1, <2>2
<1>3. \A c \in Candidates : ks[c].status = "ENRICHED" <=> c \in LookedUpSince \/ project.candidates[c].status = "ENRICHED"
  BY <1>2 DEF LookedUpSince, RankedBefore
<1> QED BY <1>3 DEF SameRank, RankedBefore

LEMMA EarnedDecision == DecisionInv => WinnerIsEarned /\ DecisionIsCurrent
<1> SUFFICES ASSUME DecisionInv PROVE WinnerIsEarned /\ DecisionIsCurrent
  OBVIOUS
<1>1. ProjectOK(project) /\ Based(project)
  BY DEF DecisionInv, ProjectOK
<1>2. WinnerIsEarned
  <2> SUFFICES ASSUME project.decision.status = "DECISION_READY"
               PROVE  /\ \A r \in project.constraints :
                           r \in Supported /\ project.candidates[project.decision.winner].dossier[r] = "PASS"
                      /\ \A c \in Candidates :
                           project.candidates[c].status = "ENRICHED" /\ Passes(project.candidates[c].evaluation)
                             => c = project.decision.winner
    BY DEF WinnerIsEarned
  <2> QED BY <1>1, WinnerEarned, PassingIsCurrent DEF Wins
<1>3. DecisionIsCurrent
  <2> DEFINE p == project
             asked == [p EXCEPT !.candidates = AsRanked]
             fresh == [asked EXCEPT !.ranking = Ranking(AsRanked)]
  <2>1. Ranked(asked).decision = Decided(fresh) /\ fresh.gaps = p.gaps /\ fresh.ranking = Ranking(AsRanked)
    BY <1>1 DEF Ranked, Based
  <2>2. p.decision = Decided(p) /\ RankingHolds(p) /\ FinitelyEvaluated(p.candidates)
    BY <1>1, EvaluationsAreFinite DEF ProjectOK
  <2>3. \A c \in Candidates :
          /\ AsRanked[c].evaluation = p.candidates[c].evaluation
          /\ AsRanked[c].status = "ENRICHED" <=> c \in LookedUpSince \/ p.candidates[c].status = "ENRICHED"
    <3> TAKE c \in Candidates
    <3>1. DOMAIN p.candidates[c] = {"status", "lookup", "dossier", "evaluation"}
      BY <1>1 DEF Based, CandidateOK
    <3>2. PICK status : status = IF c \in LookedUpSince THEN "ENRICHED" ELSE p.candidates[c].status
      OBVIOUS
    <3>3. AsRanked[c] = [p.candidates[c] EXCEPT !.status = status]
      BY <3>2 DEF AsRanked
    <3> QED BY <3>1, <3>2, <3>3
  <2>4. FinitelyEvaluated(AsRanked)
    BY <2>2, <2>3 DEF FinitelyEvaluated
  <2> HIDE DEF fresh, asked
  <2>5. CASE p.ranking = <<>> /\ \A c \in Candidates : ~Wins(p.candidates[c])
    <3>1. Enriched(p.ranking) = {}
      BY <2>5 DEF Enriched
    <3>2. p.decision = NoDecision
      BY <2>2, <3>1 DEF Decided, Leads
    <3>3. \A c \in Candidates : ~Wins(AsRanked[c])
      BY <2>3, <2>5, <3>1 DEF Wins, LookedUpSince
    <3>4. ~Leads(fresh)
      BY <2>1, <2>4, <3>3, NobodyLeads
    <3> QED BY <2>1, <3>2, <3>4 DEF Decided, DecisionIsCurrent, asked
  <2>6. ASSUME NEW ks, RankedBefore(ks, p.candidates), p.ranking = Ranking(ks) PROVE DecisionIsCurrent
    <3>1. SameRank(ks, AsRanked)
      BY <2>2, <2>3, <2>6, AsRankedIs
    <3>2. Decided(p) = Decided(fresh)
      BY <2>1, <2>4, <2>6, <3>1, SameRankSameDecision
    <3> QED BY <2>1, <2>2, <3>2 DEF DecisionIsCurrent, asked
  <2> QED BY <2>2, <2>5, <2>6 DEF RankingHolds
<1> QED BY <1>2, <1>3

-----------------------------------------------------------------------------
(* What the operations do to a project.                                        *)
LEMMA RankedOK == ASSUME NEW p, Based(p) PROVE ProjectOK(Ranked(p))
<1> DEFINE q == [p EXCEPT !.ranking = Ranking(p.candidates)]
<1>1. PICK r : r = Ranked(p)
  OBVIOUS
<1>2. /\ DOMAIN q = DOMAIN p /\ q.gaps = p.gaps /\ q.ranking = Ranking(p.candidates)
      /\ q.candidates = p.candidates /\ q.constraints = p.constraints
  BY DEF Based
<1>3. r = [q EXCEPT !.decision = Decided(q)]
  BY <1>1 DEF Ranked
<1> HIDE DEF q
<1>4. /\ DOMAIN r = DOMAIN p /\ r.gaps = q.gaps /\ r.ranking = q.ranking
      /\ r.candidates = q.candidates /\ r.constraints = q.constraints /\ r.decision = Decided(q)
  BY <1>2, <1>3 DEF Based
<1>5. Decided(r) = Decided(q)
  BY <1>4 DEF Decided, Leads
<1>6. Based(r)
  BY <1>2, <1>4 DEF Based
<1>7. RankingHolds(r)
  <2>1. RankedBefore(p.candidates, r.candidates) /\ r.ranking = Ranking(p.candidates)
    BY <1>2, <1>4 DEF RankedBefore
  <2> QED BY <2>1 DEF RankingHolds
<1> QED BY <1>1, <1>4, <1>5, <1>6, <1>7 DEF ProjectOK

LEMMA CandidatesMade ==
    ASSUME NEW p, Based(p), NEW c \in Candidates, NEW d
    PROVE  /\ CandidateOK(Finalized(p.candidates[c], d, p.constraints), p.constraints)
           /\ CandidateOK(ToConfirm(p.candidates[c], d), p.constraints)
           /\ CandidateOK(Failed(p.candidates[c]), p.constraints)
           /\ \A status : CandidateOK([p.candidates[c] EXCEPT !.status = status], p.constraints)
<1>1. PICK k : k = p.candidates[c]
  OBVIOUS
<1>2. CandidateOK(k, p.constraints) /\ p.constraints \in SUBSET Requirements
  BY <1>1 DEF Based
<1>3. CandidateOK(Finalized(k, d, p.constraints), p.constraints)
  <2>1. PICK e : e = EvaluatedOn(d, p.constraints)
    OBVIOUS
  <2>2. PICK l : l = [k EXCEPT !.status = "ENRICHED", !.dossier = d, !.evaluation = e]
    OBVIOUS
  <2>3. /\ DOMAIN l = {"status", "lookup", "dossier", "evaluation"}
        /\ l.dossier = d /\ l.evaluation = EvaluatedOn(d, p.constraints)
    BY <1>2, <2>1, <2>2 DEF CandidateOK
  <2>4. CandidateOK(l, p.constraints)
    BY <1>2, <2>3 DEF CandidateOK
  <2> QED BY <2>1, <2>2, <2>4 DEF Finalized
<1>4. CandidateOK(ToConfirm(k, d), p.constraints)
  BY <1>2 DEF ToConfirm, CandidateOK
<1>5. CandidateOK(Failed(k), p.constraints)
  BY <1>2 DEF Failed, CandidateOK
<1>6. ASSUME NEW status PROVE CandidateOK([k EXCEPT !.status = status], p.constraints)
  <2>1. PICK l : l = [k EXCEPT !.status = status]
    OBVIOUS
  <2>2. /\ DOMAIN l = {"status", "lookup", "dossier", "evaluation"}
        /\ l.dossier = k.dossier /\ l.evaluation = k.evaluation
    BY <1>2, <2>1 DEF CandidateOK
  <2> QED BY <1>2, <2>1, <2>2 DEF CandidateOK
<1> QED BY <1>1, <1>3, <1>4, <1>5, <1>6

LEMMA CandidatesChanged ==
    ASSUME NEW p, Based(p), NEW ks, DOMAIN ks = Candidates,
           \A c \in Candidates : CandidateOK(ks[c], p.constraints)
    PROVE  ProjectOK(Ranked([p EXCEPT !.candidates = ks]))
<1>1. Based([p EXCEPT !.candidates = ks])
  BY DEF Based
<1> QED BY <1>1, RankedOK

LEMMA CandidateChanged ==
    ASSUME NEW p, Based(p), NEW c \in Candidates, NEW k, CandidateOK(k, p.constraints)
    PROVE  ProjectOK(Ranked([p EXCEPT !.candidates[c] = k]))
<1>1. Based([p EXCEPT !.candidates[c] = k])
  BY DEF Based
<1> QED BY <1>1, RankedOK

\* What a look-up, and what follows from one, changes of a candidate, leaves the
\* decision what it was: none becomes enriched, and who is no longer was looked up.
LEMMA LookupKeeps ==
    ASSUME NEW p, ProjectOK(p), NEW c \in Candidates, NEW k,
           DOMAIN k = {"status", "lookup", "dossier", "evaluation"},
           k.dossier = p.candidates[c].dossier, k.evaluation = p.candidates[c].evaluation,
           k.status = "ENRICHED" => p.candidates[c].status = "ENRICHED",
           p.candidates[c].status = "ENRICHED" \/ p.candidates[c].lookup \in Found
             => k.status = "ENRICHED" \/ k.lookup \in Found
    PROVE  ProjectOK([p EXCEPT !.candidates[c] = k])
<1>1. PICK q : q = [p EXCEPT !.candidates[c] = k]
  OBVIOUS
<1>2. Based(p) /\ RankingHolds(p) /\ p.decision = Decided(p)
  BY DEF ProjectOK
<1>3. /\ DOMAIN q = DOMAIN p /\ q.constraints = p.constraints /\ q.gaps = p.gaps
      /\ q.ranking = p.ranking /\ q.decision = p.decision
      /\ DOMAIN q.candidates = Candidates /\ q.candidates[c] = k
      /\ \A b \in Candidates \ {c} : q.candidates[b] = p.candidates[b]
  BY <1>1, <1>2 DEF Based
<1>4. ASSUME NEW b \in Candidates PROVE CandidateOK(q.candidates[b], q.constraints)
  <2>1. CandidateOK(p.candidates[b], p.constraints)
    BY <1>2 DEF Based
  <2>2. CASE b = c
    BY <1>3, <2>1, <2>2 DEF CandidateOK
  <2>3. CASE b # c
    BY <1>3, <2>1, <2>3
  <2> QED BY <2>2, <2>3
<1>5. Based(q)
  BY <1>2, <1>3, <1>4 DEF Based
<1>6. \A b \in Candidates :
        /\ q.candidates[b].evaluation = p.candidates[b].evaluation
        /\ q.candidates[b].status = "ENRICHED" => p.candidates[b].status = "ENRICHED"
        /\ p.candidates[b].status = "ENRICHED" \/ p.candidates[b].lookup \in Found
             => q.candidates[b].status = "ENRICHED" \/ q.candidates[b].lookup \in Found
  <2> TAKE b \in Candidates
  <2>1. CASE b = c
    BY <1>3, <2>1
  <2>2. CASE b # c
    BY <1>3, <2>2
  <2> QED BY <2>1, <2>2
<1>7. RankingHolds(q)
  <2>1. CASE p.ranking = <<>> /\ \A b \in Candidates : ~Wins(p.candidates[b])
    BY <1>3, <1>6, <2>1 DEF RankingHolds, Wins
  <2>2. ASSUME NEW ks, RankedBefore(ks, p.candidates), p.ranking = Ranking(ks)
        PROVE  RankingHolds(q)
    <3>1. RankedBefore(ks, q.candidates)
      BY <1>6, <2>2 DEF RankedBefore
    <3> QED BY <1>3, <2>2, <3>1 DEF RankingHolds
  <2> QED BY <1>2, <2>1, <2>2 DEF RankingHolds
<1>8. Decided(q) = Decided(p)
  BY <1>3 DEF Decided, Leads
<1> QED BY <1>1, <1>2, <1>3, <1>5, <1>7, <1>8 DEF ProjectOK

\* A status may become another that is not ENRICHED, where none was or a look-up says so.
LEMMA BecomingKeeps ==
    ASSUME NEW p, ProjectOK(p), NEW c \in Candidates, NEW status,
           status = p.candidates[c].status \/ (status # "ENRICHED" /\ p.candidates[c].status # "ENRICHED")
    PROVE  ProjectOK(Becoming(p, c, status))
<1>1. DOMAIN p.candidates[c] = {"status", "lookup", "dossier", "evaluation"}
  BY DEF ProjectOK, Based, CandidateOK
<1>2. PICK k : k = [p.candidates[c] EXCEPT !.status = status]
  OBVIOUS
<1>3. /\ DOMAIN k = DOMAIN p.candidates[c] /\ k.status = status /\ k.lookup = p.candidates[c].lookup
      /\ k.dossier = p.candidates[c].dossier /\ k.evaluation = p.candidates[c].evaluation
  BY <1>1, <1>2
<1>4. ProjectOK([p EXCEPT !.candidates[c] = k])
  BY <1>1, <1>3, LookupKeeps
<1> QED BY <1>2, <1>4 DEF Becoming

\* A look-up that runs or has failed is one of a candidate that had none, or none answered.
LEMMA WithLookupKeeps ==
    ASSUME NEW p, ProjectOK(p), NEW c \in Candidates, p.candidates[c].lookup \notin Found, NEW lookup
    PROVE  /\ ProjectOK(WithLookup(p, c, lookup))
           /\ WithLookup(p, c, lookup).candidates[c].lookup = lookup
           /\ WithLookup(p, c, lookup).candidates[c].status = p.candidates[c].status
<1>1. /\ DOMAIN p.candidates[c] = {"status", "lookup", "dossier", "evaluation"}
      /\ DOMAIN p = {"constraints", "gaps", "ranking", "decision", "candidates"}
      /\ DOMAIN p.candidates = Candidates
  BY DEF ProjectOK, Based, CandidateOK
<1>2. PICK k : k = [p.candidates[c] EXCEPT !.lookup = lookup]
  OBVIOUS
<1>3. /\ DOMAIN k = DOMAIN p.candidates[c] /\ k.status = p.candidates[c].status /\ k.lookup = lookup
      /\ k.dossier = p.candidates[c].dossier /\ k.evaluation = p.candidates[c].evaluation
  BY <1>1, <1>2
<1>4. ProjectOK([p EXCEPT !.candidates[c] = k])
  BY <1>1, <1>3, LookupKeeps
<1>5. WithLookup(p, c, lookup) = [p EXCEPT !.candidates[c] = k]
  BY <1>2 DEF WithLookup
<1>6. [p EXCEPT !.candidates[c] = k].candidates[c] = k
  BY <1>1
<1> QED BY <1>3, <1>4, <1>5, <1>6

LEMMA LookedUpKeeps ==
    ASSUME NEW p, ProjectOK(p), NEW c \in Candidates, NEW found \in Found
    PROVE  ProjectOK(LookedUp(p, c, found))
<1>1. /\ DOMAIN p.candidates[c] = {"status", "lookup", "dossier", "evaluation"}
      /\ DOMAIN p = {"constraints", "gaps", "ranking", "decision", "candidates"}
      /\ DOMAIN p.candidates = Candidates
  BY DEF ProjectOK, Based, CandidateOK
<1>2. PICK l : l = [p.candidates[c] EXCEPT !.status = found]
  OBVIOUS
<1>3. PICK k : k = [l EXCEPT !.lookup = found]
  OBVIOUS
<1>4. /\ DOMAIN k = DOMAIN p.candidates[c] /\ k.status = found /\ k.lookup = found
      /\ k.dossier = p.candidates[c].dossier /\ k.evaluation = p.candidates[c].evaluation
  BY <1>1, <1>2, <1>3
<1>5. ProjectOK([p EXCEPT !.candidates[c] = k])
  BY <1>1, <1>4, LookupKeeps DEF Found
<1>6. LookedUp(p, c, found) = [p EXCEPT !.candidates[c] = k]
  <2>1. PICK q : q = [p EXCEPT !.candidates[c] = l]
    OBVIOUS
  <2>2. Becoming(p, c, found) = q
    BY <1>2, <2>1 DEF Becoming
  <2>3. q.candidates[c] = l
    BY <1>1, <2>1
  <2>4. WithLookup(q, c, found) = [q EXCEPT !.candidates[c] = k]
    BY <1>3, <2>3 DEF WithLookup
  <2>5. [q EXCEPT !.candidates[c] = k] = [p EXCEPT !.candidates[c] = k]
    BY <1>1, <2>1
  <2> QED BY <2>2, <2>4, <2>5 DEF LookedUp
<1> QED BY <1>5, <1>6

LEMMA SavedKeeps ==
    ASSUME DecisionInv, NEW p, ProjectOK(p), Save(p)
    PROVE  DecisionInv'
BY DEF DecisionInv, Save, Turn

LEMMA SaveHeldKeeps ==
    ASSUME NEW p, ProjectOK(p), SaveHeld(p)
    PROVE  DecisionInv'
BY DEF DecisionInv, SaveHeld, NotHeld

\* Which candidate the turn is of.
LEMMA TurnIsLeft ==
    ASSUME DecisionInv, held.op \in {"quote", "lookup"}, held.left # {}
    PROVE  Turn \in held.left /\ Turn \in Candidates
<1>1. held.left \subseteq Candidates
  BY DEF DecisionInv
<1>2. held.left \subseteq Nat
  BY <1>1, DecisionAssumption
<1>3. Turn \in held.left
  BY <1>2, MinOfNaturals DEF Turn
<1> QED BY <1>1, <1>3

LEMMA AnswerGapsKeeps ==
    ASSUME DecisionInv, NEW values \in SUBSET UNION {Vague[g] : g \in project.gaps}, AnswerGaps(values)
    PROVE  DecisionInv'
<1>1. PICK resolved : resolved = {g \in project.gaps : Vague[g] \cap values # {}}
  OBVIOUS
<1>2. PICK p : p = [project EXCEPT !.constraints = (@ \ resolved) \cup values, !.gaps = @ \ resolved]
  OBVIOUS
<1>3. values # {} /\ Save([p EXCEPT !.decision = Decided(p)])
  BY <1>1, <1>2 DEF AnswerGaps
<1>4. Based(project) /\ RankingHolds(project)
  BY DEF DecisionInv, ProjectOK
<1>5. /\ DOMAIN p = DOMAIN project /\ p.constraints = (project.constraints \ resolved) \cup values
      /\ p.gaps = project.gaps \ resolved /\ p.candidates = project.candidates /\ p.ranking = project.ranking
  BY <1>2, <1>4 DEF Based
<1>6. PICK q : q = [p EXCEPT !.decision = Decided(p)]
  OBVIOUS
<1>7. /\ DOMAIN q = DOMAIN p /\ q.constraints = p.constraints /\ q.gaps = p.gaps
      /\ q.candidates = p.candidates /\ q.ranking = p.ranking /\ q.decision = Decided(p)
  BY <1>4, <1>5, <1>6 DEF Based
<1>8. Based(q)
  <2>1. ~(project.constraints \subseteq Supported)
    <3>1. PICK g \in project.gaps : TRUE
      BY <1>3
    <3>2. g \in project.constraints /\ g \in Asked
      BY <1>4 DEF Based
    <3> QED BY <3>2, DecisionAssumption DEF Asked
  <2>2. ASSUME NEW c \in Candidates PROVE CandidateOK(q.candidates[c], q.constraints)
    <3>1. CandidateOK(project.candidates[c], project.constraints)
      BY <1>4 DEF Based
    <3> QED BY <1>5, <1>7, <2>1, <3>1 DEF CandidateOK
  <2>3. q.constraints \subseteq Requirements
    <3>1. project.constraints \subseteq Requirements /\ project.gaps \subseteq Asked
      BY <1>4 DEF Based
    <3>2. values \subseteq Requirements
      BY <3>1 DEF Requirements
    <3> QED BY <1>5, <1>7, <3>1, <3>2
  <2>4. q.gaps \subseteq q.constraints \cap Asked
    BY <1>4, <1>5, <1>7 DEF Based
  <2> QED BY <1>4, <1>5, <1>7, <2>2, <2>3, <2>4 DEF Based
<1>9. RankingHolds(q)
  BY <1>4, <1>5, <1>7 DEF RankingHolds
<1>10. Decided(q) = Decided(p)
  BY <1>7 DEF Decided, Leads
<1> QED BY <1>3, <1>6, <1>7, <1>8, <1>9, <1>10, SavedKeeps DEF ProjectOK

LEMMA RankCandidatesKeeps ==
    ASSUME DecisionInv, RankCandidates
    PROVE  DecisionInv'
<1>1. Based(project)
  BY DEF DecisionInv, ProjectOK
<1>2. CASE project.gaps = {}
  BY <1>1, <1>2, RankedOK, SavedKeeps DEF RankCandidates
<1>3. CASE project.gaps # {}
  <2>1. PICK p : p = [project EXCEPT !.ranking = <<>>, !.decision = NoDecision]
    OBVIOUS
  <2>2. /\ DOMAIN p = DOMAIN project /\ p.constraints = project.constraints /\ p.gaps = project.gaps
        /\ p.candidates = project.candidates /\ p.ranking = <<>> /\ p.decision = NoDecision
    BY <1>1, <2>1 DEF Based
  <2>3. Based(p)
    BY <1>1, <2>2 DEF Based
  <2>4. RankingHolds(p)
    BY <1>3, <2>2, <2>3, NobodyWinsYet DEF RankingHolds
  <2>5. Decided(p) = NoDecision
    BY <1>3, <2>2 DEF Decided, Leads
  <2>6. Save(p)
    BY <1>3, <2>1 DEF RankCandidates
  <2> QED BY <2>2, <2>3, <2>4, <2>5, <2>6, SavedKeeps DEF ProjectOK
<1> QED BY <1>2, <1>3

LEMMA LinkKeeps ==
    ASSUME DecisionInv, NEW c \in Candidates, NEW d, LinkExistingSnapshot(c, d) \/ ConfirmCanonicalAddress(c)
    PROVE  DecisionInv'
<1>1. Based(project)
  BY DEF DecisionInv, ProjectOK
<1>2. PICK k : CandidateOK(k, project.constraints) /\ Save(Ranked([project EXCEPT !.candidates[c] = k]))
  <2>1. CASE LinkExistingSnapshot(c, d)
    BY <1>1, <2>1, CandidatesMade DEF LinkExistingSnapshot, Reconciled
  <2>2. CASE ConfirmCanonicalAddress(c)
    BY <1>1, <2>2, CandidatesMade DEF ConfirmCanonicalAddress
  <2> QED BY <2>1, <2>2
<1> QED BY <1>1, <1>2, CandidateChanged, SavedKeeps

LEMMA BeginResolveKeeps ==
    ASSUME DecisionInv, NEW c \in Candidates, BeginResolve(c)
    PROVE  DecisionInv'
<1>1. ProjectOK(project) /\ project.candidates[c].lookup \notin Found
  BY DEF DecisionInv, BeginResolve, Found
<1>2. project' = WithLookup(project, c, "EXECUTING")
  BY DEF BeginResolve
<1>3. ProjectOK(project') /\ project'.candidates[c].lookup = "EXECUTING"
  BY <1>1, <1>2, WithLookupKeeps
<1>4. held'.op = "resolve" /\ held'.candidate = c /\ held'.copy = project'
  BY DEF BeginResolve
<1> QED BY <1>3, <1>4 DEF DecisionInv, Found

LEMMA EndResolveKeeps ==
    ASSUME DecisionInv, EndResolve
    PROVE  DecisionInv'
<1>1. PICK p, c : p = held.copy /\ c = held.candidate
  OBVIOUS
<1>2. ProjectOK(p) /\ c \in Candidates /\ p.candidates[c].lookup \notin Found
  BY <1>1 DEF DecisionInv, EndResolve
<1>3. ProjectOK(WithLookup(p, c, "FAILED")) /\ \A found \in Found : ProjectOK(LookedUp(p, c, found))
  BY <1>2, WithLookupKeeps, LookedUpKeeps
<1>4. SaveHeld(WithLookup(p, c, "FAILED")) \/ \E found \in Found : SaveHeld(LookedUp(p, c, found))
  BY <1>1 DEF EndResolve
<1> QED BY <1>3, <1>4, SaveHeldKeeps

LEMMA SelectResolutionKeeps ==
    ASSUME DecisionInv, NEW c \in Candidates, SelectResolution(c)
    PROVE  DecisionInv'
<1>1. ProjectOK(project) /\ project.candidates[c].status = "AMBIGUOUS" /\ Save(Becoming(project, c, "RESOLVED"))
  BY DEF DecisionInv, SelectResolution
<1> QED BY <1>1, BecomingKeeps, SavedKeeps

LEMMA BeginQuotingKeeps ==
    ASSUME DecisionInv, NEW reason, BeginQuoting(reason)
    PROVE  DecisionInv'
<1>1. ProjectOK(project) /\ Based(project)
  BY DEF DecisionInv, ProjectOK
<1>2. CASE project.gaps # {}
  <2>1. PICK p : p = [project EXCEPT !.decision = NoDecision]
    OBVIOUS
  <2>2. project.decision = NoDecision
    BY <1>1, <1>2 DEF ProjectOK, Decided, Leads
  <2>3. /\ DOMAIN p = DOMAIN project /\ p.constraints = project.constraints /\ p.gaps = project.gaps
        /\ p.candidates = project.candidates /\ p.ranking = project.ranking /\ p.decision = project.decision
    BY <1>1, <2>1, <2>2 DEF Based
  <2>4. Based(p) /\ RankingHolds(p) /\ Decided(p) = Decided(project)
    BY <1>1, <2>3 DEF Based, RankingHolds, Decided, Leads, ProjectOK
  <2>5. ProjectOK(p)
    BY <1>1, <2>3, <2>4 DEF ProjectOK
  <2> QED BY <1>2, <2>1, <2>5, SavedKeeps DEF BeginQuoting
<1>3. CASE project.gaps = {}
  <2>1. /\ held'.op = "quote" /\ held'.left = Candidates /\ held'.copy = project /\ project' = project
        /\ DOMAIN held' = {"op", "reason", "left", "copy"}
    BY <1>3 DEF BeginQuoting, Hold
  <2> QED BY <1>1, <2>1 DEF DecisionInv
<1> QED BY <1>2, <1>3

LEMMA PassOverKeeps ==
    ASSUME DecisionInv, PassOver
    PROVE  DecisionInv'
<1>1. PICK p, c : p = held.copy /\ c = Turn
  OBVIOUS
<1>2. PICK status \in WithoutLookup(p.candidates[c], held.reason) :
        held' = [held EXCEPT !.left = @ \ {c}, !.copy = Becoming(@, c, status)]
  BY <1>1 DEF PassOver
<1>3. /\ c \in Candidates /\ held.left \subseteq Candidates /\ ProjectOK(p) /\ held.op = "quote"
      /\ DOMAIN held = {"op", "reason", "left", "copy"}
  BY <1>1, TurnIsLeft DEF PassOver, DecisionInv
<1>4. status = p.candidates[c].status \/ (status # "ENRICHED" /\ p.candidates[c].status # "ENRICHED")
  BY <1>2 DEF WithoutLookup, Settled, Found
<1>5. ProjectOK(Becoming(p, c, status))
  BY <1>3, <1>4, BecomingKeeps
<1>6. PICK q : q = Becoming(p, c, status)
  OBVIOUS
<1>7. held' = [held EXCEPT !.left = @ \ {c}, !.copy = q]
  BY <1>1, <1>2, <1>6
<1>8. /\ held'.op = "quote" /\ held'.copy = q /\ held'.left \subseteq Candidates
      /\ DOMAIN held' = {"op", "reason", "left", "copy"}
  BY <1>3, <1>7
<1>9. project' = project
  BY DEF PassOver
<1> QED BY <1>5, <1>6, <1>8, <1>9 DEF DecisionInv

LEMMA BeginLookupKeeps ==
    ASSUME DecisionInv, BeginLookup
    PROVE  DecisionInv'
<1>1. PICK p, c : p = held.copy /\ c = Turn
  OBVIOUS
<1>2. /\ c \in Candidates /\ held.left \subseteq Candidates /\ ProjectOK(p) /\ held.op = "quote"
      /\ held.left # {} /\ DOMAIN held = {"op", "reason", "left", "copy"}
  BY <1>1, TurnIsLeft DEF BeginLookup, DecisionInv
<1>3. /\ p.candidates[c].status # "ENRICHED" /\ p.candidates[c].lookup \notin Found
      /\ project' = WithLookup(p, c, "EXECUTING")
      /\ held' = [held EXCEPT !.op = "lookup", !.copy = project']
  BY <1>1 DEF BeginLookup, Settled, Found
<1>4. /\ ProjectOK(project') /\ project'.candidates[c].lookup = "EXECUTING"
      /\ project'.candidates[c].status # "ENRICHED"
  BY <1>2, <1>3, WithLookupKeeps
<1>5. /\ held'.op = "lookup" /\ held'.copy = project' /\ held'.left = held.left
      /\ DOMAIN held' = {"op", "reason", "left", "copy"}
  BY <1>2, <1>3
<1>6. Turn' = c
  BY <1>1, <1>5 DEF Turn
<1> QED BY <1>2, <1>4, <1>5, <1>6 DEF DecisionInv, Found

LEMMA EndLookupKeeps ==
    ASSUME DecisionInv, EndLookup
    PROVE  DecisionInv'
<1>1. PICK p, c : p = held.copy /\ c = Turn
  OBVIOUS
<1>2. /\ c \in Candidates /\ held.left \subseteq Candidates /\ ProjectOK(p) /\ held.op = "lookup"
      /\ p.candidates[c].status # "ENRICHED" /\ p.candidates[c].lookup \notin Found
      /\ DOMAIN held = {"op", "reason", "left", "copy"}
  BY <1>1, TurnIsLeft DEF EndLookup, DecisionInv
<1>3. \/ project' = Becoming(WithLookup(p, c, "FAILED"), c, "ERROR")
      \/ \E found \in Found : project' = LookedUp(p, c, found)
  BY <1>1 DEF EndLookup
<1>4. ProjectOK(WithLookup(p, c, "FAILED")) /\ WithLookup(p, c, "FAILED").candidates[c].status # "ENRICHED"
  BY <1>2, WithLookupKeeps
<1>5. ProjectOK(Becoming(WithLookup(p, c, "FAILED"), c, "ERROR"))
  BY <1>2, <1>4, BecomingKeeps
<1>6. ProjectOK(project')
  BY <1>2, <1>3, <1>5, LookedUpKeeps
<1>7. held' = [held EXCEPT !.op = "quote", !.left = @ \ {c}, !.copy = project']
  BY <1>1 DEF EndLookup
<1>8. /\ held'.op = "quote" /\ held'.copy = project' /\ held'.left \subseteq Candidates
      /\ DOMAIN held' = {"op", "reason", "left", "copy"}
  BY <1>2, <1>7
<1> QED BY <1>6, <1>8 DEF DecisionInv

LEMMA HoldKeeps ==
    ASSUME DecisionInv, BeginAwaiting \/ GiveUpHeld \/ EndQuoting \/ EndVisit
    PROVE  DecisionInv'
<1>1. ProjectOK(project) /\ (held.op # "none" => ProjectOK(held.copy))
  BY DEF DecisionInv
<1>2. CASE BeginAwaiting
  <2>1. project' = project /\ held'.op = "other" /\ held'.copy = project
    BY <1>2 DEF BeginAwaiting, Hold
  <2> QED BY <1>1, <2>1 DEF DecisionInv
<1>3. CASE GiveUpHeld
  BY <1>1, <1>3, SaveHeldKeeps DEF GiveUpHeld
<1>4. CASE EndQuoting \/ EndVisit
  BY <1>1, <1>4, SaveHeldKeeps DEF EndQuoting, EndVisit
<1> QED BY <1>2, <1>3, <1>4

LEMMA EndFetchKeeps ==
    ASSUME DecisionInv, EndFetch
    PROVE  DecisionInv'
<1>1. PICK p : p = held.copy
  OBVIOUS
<1>2. held.op = "other"
  BY Zenon DEF EndFetch
<1>3. Based(p)
  BY <1>1, <1>2 DEF DecisionInv, ProjectOK
<1>4. PICK ks \in [Candidates -> UNION {FetchOutcomes(p, c) : c \in Candidates}] :
        /\ \A c \in Candidates : ks[c] \in FetchOutcomes(p, c)
        /\ SaveHeld(Ranked([p EXCEPT !.candidates = ks]))
  BY <1>1, Zenon DEF EndFetch
<1>5. ASSUME NEW c \in Candidates PROVE CandidateOK(ks[c], p.constraints)
  <2>1. CASE c \notin Resolved(p)
    BY <1>3, <1>4, <2>1 DEF Based, FetchOutcomes
  <2>2. CASE c \in Resolved(p)
    <3>1. PICK d : ks[c] \in {Failed(p.candidates[c])} \cup Reconciled(p.candidates[c], d, p.constraints)
      BY <1>4, <2>2 DEF FetchOutcomes
    <3> QED BY <1>3, <3>1, CandidatesMade DEF Reconciled
  <2> QED BY <2>1, <2>2
<1>6. ProjectOK(Ranked([p EXCEPT !.candidates = ks]))
  BY <1>3, <1>4, <1>5, CandidatesChanged
<1> QED BY <1>4, <1>6, SaveHeldKeeps

LEMMA EndRefreshKeeps ==
    ASSUME DecisionInv, NEW d, EndRefresh(d)
    PROVE  DecisionInv'
<1>1. held.op = "other"
  BY DEF EndRefresh
<1>2. PICK p : p = held.copy
  OBVIOUS
<1>3. Based(p)
  BY <1>1, <1>2 DEF DecisionInv, ProjectOK
<1>4. PICK c \in Candidates : SaveHeld(Ranked(WithRefresh(p, c, d)))
  BY <1>2 DEF EndRefresh, HasSnapshot, Refreshed
<1>5. PICK q : q = WithRefresh(p, c, d)
  OBVIOUS
<1>6. CandidateOK(p.candidates[c], p.constraints) /\ DOMAIN p.candidates = Candidates
  BY <1>3 DEF Based
<1>7. /\ DOMAIN q = DOMAIN p /\ q.constraints = p.constraints /\ q.gaps = p.gaps /\ DOMAIN q.candidates = Candidates
      /\ \A b \in Candidates \ {c} : q.candidates[b] = p.candidates[b]
      /\ DOMAIN q.candidates[c] = {"status", "lookup", "dossier", "evaluation"}
      /\ q.candidates[c].dossier = d /\ q.candidates[c].evaluation = EvaluatedOn(d, p.constraints)
  <2>1. PICK ks : ks = [p.candidates EXCEPT ![c].dossier = d]
    OBVIOUS
  <2>2. /\ DOMAIN ks = Candidates /\ \A b \in Candidates \ {c} : ks[b] = p.candidates[b]
        /\ DOMAIN ks[c] = {"status", "lookup", "dossier", "evaluation"} /\ ks[c].dossier = d
    BY <1>6, <2>1 DEF CandidateOK
  <2>3. PICK ls : ls = [ks EXCEPT ![c].evaluation = EvaluatedOn(d, p.constraints)]
    OBVIOUS
  <2>4. /\ DOMAIN ls = Candidates /\ \A b \in Candidates \ {c} : ls[b] = p.candidates[b]
        /\ DOMAIN ls[c] = {"status", "lookup", "dossier", "evaluation"}
        /\ ls[c].dossier = d /\ ls[c].evaluation = EvaluatedOn(d, p.constraints)
    BY <2>2, <2>3
  <2>5. q.candidates = ls /\ DOMAIN q = DOMAIN p /\ q.constraints = p.constraints /\ q.gaps = p.gaps
    BY <1>3, <1>5, <2>1, <2>3 DEF WithRefresh, Based
  <2> QED BY <2>4, <2>5
<1>8. CandidateOK(q.candidates[c], q.constraints)
  BY <1>3, <1>7 DEF CandidateOK, Based
<1>9. ASSUME NEW b \in Candidates PROVE CandidateOK(q.candidates[b], q.constraints)
  <2>1. CASE b = c
    BY <1>8, <2>1
  <2>2. CASE b # c
    BY <1>3, <1>7, <2>2 DEF Based
  <2> QED BY <2>1, <2>2
<1>10. Based(q)
  BY <1>3, <1>7, <1>9 DEF Based
<1> QED BY <1>4, <1>5, <1>10, RankedOK, SaveHeldKeeps

(* Every operation keeps a decision that is earned, on any snapshots.          *)
LEMMA DecisionKeeps == DecisionInv /\ [DecisionNext]_decisionVars => DecisionInv'
<1> SUFFICES ASSUME DecisionInv, [DecisionNext]_decisionVars PROVE DecisionInv'
  OBVIOUS
<1>1. CASE UNCHANGED decisionVars
  BY <1>1 DEF decisionVars, DecisionInv, Turn
<1>2. CASE DecisionNext
  BY <1>2, AnswerGapsKeeps, RankCandidatesKeeps, LinkKeeps, BeginResolveKeeps, EndResolveKeeps,
     SelectResolutionKeeps, BeginQuotingKeeps, PassOverKeeps, BeginLookupKeeps, EndLookupKeeps, HoldKeeps,
     EndFetchKeeps, EndRefreshKeeps DEF DecisionNext
<1> QED BY <1>1, <1>2

LEMMA DecisionStarts == ASSUME NEW choices PROVE DecisionInit(choices) => DecisionInv
<1> SUFFICES ASSUME DecisionInit(choices) PROVE DecisionInv
  OBVIOUS
<1>1. /\ DOMAIN project = {"constraints", "gaps", "ranking", "decision", "candidates"}
      /\ project.constraints = Compiled /\ project.gaps = Asked /\ project.ranking = <<>>
      /\ project.decision = NoDecision
      /\ project.candidates = [c \in Candidates |->
           [status |-> IF c \in ToLookUp THEN "PENDING" ELSE "RESOLVED",
            lookup |-> IF c \in ToLookUp THEN "none" ELSE "RESOLVED",
            dossier |-> NotEvaluated, evaluation |-> NotEvaluated]]
  BY DEF DecisionInit
<1>2. Based(project)
  BY <1>1 DEF Based, Compiled, Requirements, CandidateOK
<1>3. RankingHolds(project)
  BY <1>1 DEF RankingHolds, Wins
<1>4. Decided(project) = NoDecision
  BY <1>1 DEF Decided, Leads, Enriched
<1>5. held.op = "none"
  BY DEF DecisionInit, NotHeld
<1> QED BY <1>1, <1>2, <1>3, <1>4, <1>5 DEF DecisionInv, ProjectOK

-----------------------------------------------------------------------------
(* The parts together: the invariant of each, for the part a behaviour is     *)
(* about.                                                                     *)
PartInv ==
  /\ which = "product" => ProductInv
  /\ which = "intelligence" => IntelligenceInv
  /\ which = "worlds" => WorldInv
  /\ which = "task" => TaskInv
  /\ which = "evaluation" => EvaluationInv
  /\ which = "site" => SiteInv /\ SnapshotInv
  /\ which = "graph" => GraphInv
  /\ which = "ledger" => LedgerInv
  /\ which = "decision" => DecisionInv

\* A step is a step of the part, or none.
LEMMA StepOfPart ==
    ASSUME [Next]_partVars
    PROVE  /\ UNCHANGED which
           /\ which = "product" => [ProductNext]_productVars
           /\ which = "intelligence" => [IntelligenceNext]_intelVars
           /\ which = "worlds" => [WorldNext(Wanted, Sources)]_worldVars
           /\ which = "task" => [TaskNext(Documents, Observations, ToolRequests)]_taskVars
           /\ which = "evaluation" => [EvaluationNext]_evaluationVars
           /\ which = "site" => [SiteNext]_siteVars
           /\ which = "graph" => [GraphNext]_graphVars
           /\ which = "ledger" => [LedgerNext]_ledgerVars
           /\ which = "decision" => [DecisionNext]_decisionVars
<1>1. CASE UNCHANGED partVars
  BY <1>1, Zenon DEF partVars
<1>2. CASE Next
  BY <1>2, Zenon DEF Next
<1> QED BY <1>1, <1>2

-----------------------------------------------------------------------------
(* What the parts start with.                                                 *)
LEMMA RecordsAreDossiers == Records \in SUBSET Dossier
<1>1. Meets(1) \in EvidenceRecord /\ Meets(2) \in EvidenceRecord /\ Meets(3) \in EvidenceRecord /\ Absent \in EvidenceRecord
  BY DEF Meets, Absent, EvidenceRecord
<1> QED BY <1>1 DEF Records, Dossier, Fields

LEMMA WorldsAreKnown == KnownWants(Wanted) /\ KnownSources(Sources) /\ KnownStores({<<>>, <<OldWorld>>})
<1>1. KnownWants(Wanted)
  BY DEF KnownWants, Wanted, Known, Overture, Optional
<1>2. KnownSources(Sources)
  <2>1. \A src \in Sources : src.up \in {{"roads", "buildings"}, {"roads"}, {}}
    <3>1. Up.up = {"roads", "buildings"} /\ "up" \in DOMAIN Up
      BY DEF Up
    <3>2. \A src \in Sources : src.up = Up.up \/ src.up = {"roads"} \/ src.up = {}
      BY <3>1 DEF Sources
    <3> QED BY <3>1, <3>2, Zenon
  <2>2. {"roads", "buildings"} \subseteq Overture
    BY DEF Overture, Optional
  <2>3. \A up \in {{"roads", "buildings"}, {"roads"}, {}} : up \subseteq Overture
    BY <2>2
  <2> QED BY <2>1, <2>3, Zenon DEF KnownSources
<1>3. WorldFits(OldWorld)
  BY DEF WorldFits, BuiltFor, OldWorld, OldTerrain
<1>4. KnownStores({<<>>, <<OldWorld>>})
  <2>1. \A w : <<>> \in Seq({w}) /\ <<w>> \in Seq({w}) /\ DOMAIN <<>> = {} /\ DOMAIN <<w>> = {1} /\ <<w>>[1] = w
    OBVIOUS
  <2> QED BY <1>3, <2>1, Zenon DEF KnownStores
<1> QED BY <1>1, <1>2, <1>4

LEMMA TasksAreKnown == KnownDocuments(Documents) /\ KnownPlans(Plans)
<1>1. KnownDocuments(Documents)
  BY DEF KnownDocuments, KnownDocument, Documents, Item
<1>2. KnownPlans(Plans)
  <2>1. \A a, b : <<a>> \in Seq({a, b}) /\ <<a, b>> \in Seq({a, b})
    OBVIOUS
  <2>2. \A tasks \in Plans : \E a, b : tasks = <<a>> \/ tasks = <<a, b>>
    BY Zenon DEF Plans
  <2>3. \A tasks \in Plans : Listed(tasks)
    <3> TAKE tasks \in Plans
    <3>1. PICK a, b : tasks = <<a>> \/ tasks = <<a, b>>
      BY <2>2
    <3>2. tasks \in Seq({a, b})
      BY <2>1, <3>1, Zenon
    <3> QED BY <3>2 DEF Listed
  <2> QED BY <2>3 DEF KnownPlans
<1> QED BY <1>1, <1>2

LEMMA GraphsAreKnown == GraphStart \in SUBSET GraphDocuments
BY CoveragesAreDocuments DEF GraphStart

\* Every snapshot the program may evaluate is well formed.
LEMMA EvaluationStarts == EvalInit => EvaluationInv
<1> SUFFICES ASSUME EvalInit PROVE EvaluationInv
  OBVIOUS
<1>1. clock = 0 /\ verdict = NoVerdict /\ proposal.status = "none"
  BY DEF EvalInit
<1>2. DOMAIN AllFine = ObservedFields \cup GeometryFields /\ \A f \in DOMAIN AllFine : AllFine[f].expires \in Dates
  BY DEF AllFine, Fine, Dates
<1>3. ObservedFields = {"floodplain", "slope", "wetland", "acreage", "zoning", "status", "distance"}
  BY DEF ObservedFields, ScopeOf
<1>4. KnownSnapshot(snapshot)
  <2>1. CASE \E age \in Ages, exact \in BOOLEAN, e \in {1, 3},
               p \in {{<<0, 12>>}, {<<0, 7>>, <<8, 12>>}}, b \in {{}, {<<4, 5>>}} :
             snapshot = [exact |-> exact, expires |-> e, parcel |-> p, blocked |-> b,
                         evidence |-> [f \in DOMAIN AllFine |-> IF f \in GeometryFields THEN age ELSE AllFine[f]]]
    <3>1. PICK age \in Ages, e \in {1, 3}, p \in {{<<0, 12>>}, {<<0, 7>>, <<8, 12>>}} :
            /\ snapshot.expires = e /\ snapshot.parcel = p
            /\ snapshot.evidence = [f \in DOMAIN AllFine |-> IF f \in GeometryFields THEN age ELSE AllFine[f]]
      BY <2>1
    <3>2. age.expires \in Dates
      <4>1. Fine(0, "PARCEL").expires = 3 /\ "expires" \in DOMAIN Fine(0, "PARCEL")
        BY DEF Fine
      <4>2. Fine(None, "PARCEL").expires = 3 /\ "expires" \in DOMAIN Fine(None, "PARCEL")
        BY DEF Fine
      <4>3. age.expires \in {None, 1, 2}
        BY <3>1, <4>1, <4>2 DEF Ages
      <4> QED BY <4>3 DEF Dates
    <3>3. KnownParcel(p)
      BY DEF KnownParcel
    <3>4. \A f \in DOMAIN AllFine : snapshot.evidence[f].expires \in Dates
      BY <1>2, <3>1, <3>2
    <3>5. DOMAIN snapshot.evidence = DOMAIN AllFine /\ snapshot.expires \in Nat /\ KnownParcel(snapshot.parcel)
      BY <3>1, <3>3
    <3> QED BY <1>2, <1>3, <3>4, <3>5 DEF KnownSnapshot
  <2>2. CASE \E question \in Questions, exact \in BOOLEAN :
               \E f \in question[2] :
                  \E r \in Record({"ok", "failed"}, {0, 2, Unusable, None}, {None, 1, 3}, {"PARCEL", ScopeOf[f]}) :
                    snapshot = [exact |-> exact, expires |-> 3, parcel |-> {<<0, 12>>}, blocked |-> {},
                                evidence |-> [AllFine EXCEPT ![f] = r]]
    <3>1. PICK f, r, exact :
            /\ r \in Record({"ok", "failed"}, {0, 2, Unusable, None}, {None, 1, 3}, {"PARCEL", ScopeOf[f]})
            /\ snapshot = [exact |-> exact, expires |-> 3, parcel |-> {<<0, 12>>}, blocked |-> {},
                           evidence |-> [AllFine EXCEPT ![f] = r]]
      BY <2>2, Zenon
    <3>2. /\ r.expires \in {None, 1, 3}
          /\ snapshot.expires = 3 /\ snapshot.parcel = {<<0, 12>>}
          /\ snapshot.evidence = [AllFine EXCEPT ![f] = r]
      BY <3>1 DEF Record
    <3>3. KnownParcel({<<0, 12>>})
      BY DEF KnownParcel
    <3>4. r.expires \in Dates
      BY <3>2 DEF Dates
    <3>5. \A g \in DOMAIN AllFine : snapshot.evidence[g].expires \in Dates
      BY <1>2, <3>2, <3>4 DEF AllFine
    <3>6. DOMAIN snapshot.evidence = DOMAIN AllFine
      BY <3>2 DEF AllFine
    <3> QED BY <1>2, <1>3, <3>2, <3>3, <3>5, <3>6 DEF KnownSnapshot
  <2> QED BY <2>1, <2>2 DEF EvalInit
<1>5. ProposalFits
  BY <1>1 DEF ProposalFits
<1> QED BY <1>1, <1>4, <1>5 DEF EvaluationInv, VerdictIsOfLayout

-----------------------------------------------------------------------------
LEMMA PartsStart == Init => PartInv
<1> SUFFICES ASSUME Init PROVE PartInv
  OBVIOUS
<1>1. which = "product" => ProductInv
  BY ProductStarts DEF Init
<1>2. which = "intelligence" => IntelligenceInv
  BY IntelligenceStarts, RecordsAreDossiers DEF Init
<1>3. which = "worlds" => WorldInv
  BY WorldStarts, WorldsAreKnown DEF Init
<1>4. which = "task" => TaskInv
  BY TaskStarts, TasksAreKnown DEF Init
<1>5. which = "evaluation" => EvaluationInv
  BY EvaluationStarts DEF Init
<1>6. which = "site" => SiteInv /\ SnapshotInv
  BY SiteStarts, SnapshotStarts DEF Init
<1>7. which = "graph" => GraphInv
  BY GraphStarts, GraphsAreKnown DEF Init
<1>8. which = "ledger" => LedgerInv
  BY LedgerStarts DEF Init
<1>9. which = "decision" => DecisionInv
  BY DecisionStarts DEF Init
<1> QED BY <1>1, <1>2, <1>3, <1>4, <1>5, <1>6, <1>7, <1>8, <1>9 DEF PartInv

LEMMA PartsKeep ==
    ASSUME PartInv, [Next]_partVars
    PROVE  PartInv'
<1>1. which' = which
  BY StepOfPart
<1>2. which = "product" => ProductInv'
  BY StepOfPart, ProductKeeps DEF PartInv
<1>3. which = "intelligence" => IntelligenceInv'
  BY StepOfPart, IntelligenceKeeps DEF PartInv
<1>4. which = "worlds" => WorldInv'
  BY StepOfPart, WorldKeeps, WorldsAreKnown DEF PartInv
<1>5. which = "task" => TaskInv'
  BY StepOfPart, TaskKeeps, TasksAreKnown DEF PartInv
<1>6. which = "evaluation" => EvaluationInv'
  BY StepOfPart, EvaluationKeeps DEF PartInv
<1>7. which = "site" => SiteInv' /\ SnapshotInv'
  BY StepOfPart, SiteKeeps, SnapshotStep DEF PartInv
<1>8. which = "graph" => GraphInv'
  BY StepOfPart, GraphKeeps DEF PartInv
<1>9. which = "ledger" => LedgerInv'
  BY StepOfPart, LedgerKeeps DEF PartInv
<1>10. which = "decision" => DecisionInv'
  BY StepOfPart, DecisionKeeps DEF PartInv
<1> QED BY <1>1, <1>2, <1>3, <1>4, <1>5, <1>6, <1>7, <1>8, <1>9, <1>10 DEF PartInv

LEMMA PartsInvariance == Spec => []PartInv
<1>1. PartInv /\ [Next]_partVars => PartInv'
  BY PartsKeep
<1> QED BY PartsStart, <1>1, PTL DEF Spec

-----------------------------------------------------------------------------
(* What is retrieved after a confirmation was shown with its quote, unless    *)
(* the quote that was asked for last had no answer: however the calls of any  *)
(* number of handlers for a request overlap and the process restarts.         *)
THEOREM ConfirmationsWereShown == Spec => []ConfirmedWasShown
<1>1. PartInv => ConfirmedWasShown
  BY ProductShows DEF PartInv, ConfirmedWasShown
<1> QED BY <1>1, PartsInvariance, PTL

(* A project is called ready only on current evidence of the active site,     *)
(* for any number of sites, refreshes and moments.                            *)
THEOREM ReadinessIsProved == Spec => []ReadyIsProved
<1>1. PartInv => ReadyIsProved
  BY ReadyIsEarned DEF PartInv, ReadyIsProved
<1> QED BY <1>1, PartsInvariance, PTL

(* A change of status is named by a change that is recorded, and no gap is    *)
(* dropped.                                                                   *)
THEOREM ChangesAreNamed == Spec => NothingIsDropped
<1>1. PartInv /\ [Next]_partVars => [which = "intelligence" => StatusChangeIsRecorded /\ GapsAreKept]_intelVars
  BY StepOfPart, IntelligenceKeeps DEF PartInv
<1> QED BY <1>1, PartsInvariance, PTL DEF Spec, NothingIsDropped

(* The versions of a key that was never observed twice at once count its      *)
(* observations, and every difference that is logged is one.                  *)
THEOREM LedgerStaysTrue == Spec => []LedgerIsTrue
<1>1. PartInv => LedgerIsTrue
  BY VersionsAreCounted DEF PartInv, LedgerIsTrue, LedgerInv
<1> QED BY <1>1, PartsInvariance, PTL

(* What a replay of a past time shows never changes, but for rows that were   *)
(* stamped by then and not committed yet.                                     *)
THEOREM ReplaysAreFinal == Spec => ReplayIsFinal
<1>1. PartInv /\ [Next]_partVars => [which = "ledger" => PastIsFinal]_ledgerVars
  BY StepOfPart, LedgerKeeps DEF PartInv
<1> QED BY <1>1, PartsInvariance, PTL DEF Spec, ReplayIsFinal

(* Whatever is lost or saved over, the records of a site agree: requests and  *)
(* their answers, the memory and the evidence, the snapshot and the refreshes.*)
THEOREM SiteRecordsStayTrue == Spec => []SiteRecordsAgree
<1>1. PartInv => SiteRecordsAgree
  BY RequestsAgree, MemoryAgrees, LinkedIsReached DEF PartInv, SiteRecordsAgree
<1> QED BY <1>1, PartsInvariance, PTL

(* A request goes back, or evidence is lost, only to a copy that is older     *)
(* than the document.                                                         *)
THEOREM LossesAreToOldCopies == Spec => LostOnlyToOldCopies
<1>1. PartInv /\ [Next]_partVars => [which = "site" => LossIsToOldCopy]_siteVars
  BY StepOfPart, SiteKeeps DEF PartInv
<1> QED BY <1>1, PartsInvariance, PTL DEF Spec, LostOnlyToOldCopies

(* However syncs of old and new copies follow each other, one readiness claim *)
(* is active at most, and answers are current.                                *)
THEOREM GraphStaysCurrent == Spec => []ClaimsAreCurrent
<1>1. PartInv => ClaimsAreCurrent
  BY ClaimsStayCurrent DEF PartInv, ClaimsAreCurrent
<1> QED BY <1>1, PartsInvariance, PTL

(* Whatever layers of other worlds were reused, a world is of the area and    *)
(* the release that were asked for, and derived elevations are of its world.  *)
THEOREM WorldsStayWhole == Spec => []WorldsAreWhole
<1>1. PartInv => WorldsAreWhole
  BY DEF PartInv, WorldInv, WorldsAreWhole
<1> QED BY <1>1, PartsInvariance, PTL

(* A claim in the graph was proved at one moment by one document, whatever    *)
(* became of the project, the task and the worker; a completed run refused    *)
(* none that it rests on.                                                     *)
THEOREM TaskClaimsStayVerified == Spec => []ClaimsAreVerified
<1>1. PartInv => ClaimsAreVerified
  BY CompletedRunsAreVerified DEF PartInv, TaskInv, ClaimsAreVerified
<1> QED BY <1>1, PartsInvariance, PTL

(* The winner meets every requirement as it now stands and nobody else does,  *)
(* and the stored decision is the one ranking would give: for any number of   *)
(* candidates and requirements, however fetches, refreshes and answers that   *)
(* hold old copies follow each other.                                         *)
THEOREM DecisionsAreEarned == Spec => []DecisionIsEarned
<1>1. PartInv => DecisionIsEarned
  BY EarnedDecision DEF PartInv, DecisionIsEarned
<1> QED BY <1>1, PartsInvariance, PTL

(* A constraint passes only on evidence that was there, of its scope, and     *)
(* current; what is proposed keeps the setback and what the user gave, and is *)
(* as large as any layout that is tried allows.                               *)
THEOREM EvaluationStaysSound == Spec => []EvaluationIsSound
<1>1. PartInv => EvaluationIsSound
  BY PassesAreProved DEF PartInv, EvaluationInv, EvaluationIsSound
<1> QED BY <1>1, PartsInvariance, PTL

(* A later evaluation of a layout may lose a verdict to the age of the        *)
(* evidence, and never reverses one or finds a new one.                       *)
THEOREM VerdictsOnlyAge == Spec => OnlyExpires
<1>1. PartInv /\ [Next]_partVars => [which = "evaluation" => VerdictsOnlyExpire]_evaluationVars
  BY StepOfPart, EvaluationKeeps DEF PartInv
<1> QED BY <1>1, PartsInvariance, PTL DEF Spec, OnlyExpires

-----------------------------------------------------------------------------
(* The parts on other inputs than those of MCParts.                           *)

(* What DecisionIsEarned says holds on any snapshots there are, whatever the  *)
(* evaluator finds on them: the decision rests on ranking what it found.      *)
THEOREM DecisionOfAnySnapshots ==
    ASSUME NEW choices
    PROVE  DecisionInit(choices) /\ [][DecisionNext]_decisionVars => [](WinnerIsEarned /\ DecisionIsCurrent)
<1>1. DecisionInit(choices) => DecisionInv
  BY DecisionStarts
<1> QED BY <1>1, DecisionKeeps, EarnedDecision, PTL

(* A project whose sites have any evidence, of any age, is called ready only  *)
(* if current evidence of the active site meets every requirement.            *)
THEOREM ReadinessOfAnyEvidence ==
    ASSUME NEW records \in SUBSET Dossier
    PROVE  IntelligenceInit(records) /\ [][IntelligenceNext]_intelVars => []ReadyStateIsProved
<1>1. IntelligenceInit(records) => IntelligenceInv
  BY IntelligenceStarts
<1>2. IntelligenceInv /\ [IntelligenceNext]_intelVars => IntelligenceInv'
  BY IntelligenceKeeps
<1> QED BY <1>1, <1>2, ReadyIsEarned, PTL

(* Worlds are whole whatever layers are asked for, whichever providers work   *)
(* at each build, and whatever fitting worlds an older program has stored.    *)
THEOREM WorldsOfAnySources ==
    ASSUME NEW wanted, NEW sources, NEW stored,
           KnownWants(wanted), KnownSources(sources), KnownStores(stored)
    PROVE  WorldInit(stored) /\ [][WorldNext(wanted, sources)]_worldVars
             => [](LayersFitTogether /\ FailuresAreNotKept /\ ElevationsAreOfTheirWorld)
<1>1. WorldInit(stored) => WorldInv
  BY WorldStarts
<1>2. WorldInv /\ [WorldNext(wanted, sources)]_worldVars => WorldInv'
  BY WorldKeeps
<1>3. WorldInv => LayersFitTogether /\ FailuresAreNotKept /\ ElevationsAreOfTheirWorld
  BY DEF WorldInv
<1> QED BY <1>1, <1>2, <1>3, PTL

(* A claim in the graph was proved by one document at one moment whatever     *)
(* the documents, the plans, what the models answer and the tools they ask    *)
(* for.                                                                       *)
THEOREM ClaimsOfAnyDocuments ==
    ASSUME NEW docs, NEW plans, NEW observations, NEW requests, KnownDocuments(docs), KnownPlans(plans)
    PROVE  TaskInit(docs, plans) /\ [][TaskNext(docs, observations, requests)]_taskVars
             => [](ClaimsWereProved /\ ClaimsWereObserved /\ CompletedIsVerified)
<1>1. TaskInit(docs, plans) => TaskInv
  BY TaskStarts
<1>2. TaskInv /\ [TaskNext(docs, observations, requests)]_taskVars => TaskInv'
  BY TaskKeeps
<1>3. TaskInv => ClaimsWereProved /\ ClaimsWereObserved /\ CompletedIsVerified
  BY CompletedRunsAreVerified DEF TaskInv
<1> QED BY <1>1, <1>2, <1>3, PTL

\* A start on any snapshot with a parcel whose cells do not meet.
AnySite == clock = 0 /\ KnownSnapshot(snapshot) /\ verdict = NoVerdict /\ proposal = [status |-> "none"]

(* Verdicts are proved and placements keep what they must from any such start, *)
(* with any layout and any constraints.                                        *)
THEOREM EvaluationOfAnySite ==
  AnySite /\ [][EvaluationNext]_evaluationVars
    => [](PassIsProved /\ ProposalFits) /\ [][VerdictsOnlyExpire]_evaluationVars
<1>1. AnySite => EvaluationInv
  BY DEF AnySite, EvaluationInv, VerdictIsOfLayout, ProposalFits
<1>2. EvaluationInv /\ [EvaluationNext]_evaluationVars => EvaluationInv' /\ [VerdictsOnlyExpire]_evaluationVars
  BY EvaluationKeeps
<1>3. EvaluationInv => PassIsProved /\ ProposalFits
  BY PassesAreProved DEF EvaluationInv
<1> QED BY <1>1, <1>2, <1>3, PTL
===============================================================================
