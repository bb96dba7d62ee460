--------------------------- MODULE ProductRequests ---------------------------
(* Requests of the product page (product.py): a message is resolved to a place *)
(* or to candidates, a place is quoted and shown to the person, and after a    *)
(* confirmation its site intelligence is retrieved.  Requests are kept in the  *)
(* process; their handlers overlap at every await.                             *)
EXTENDS Integers, FiniteSets, Sequences

CONSTANTS Requests, Handlers, Places, Nowhere,
          MaxQuotes,    \* bound on the quotes of a behaviour
          MaxConfirms   \* bound on its confirmations
ASSUME ProductAssumption == Nowhere \notin Handlers \cup Places

VARIABLES product,    \* _requests; "shown", "unanswered" and "overlapped" are history
          handlers,   \* what each handler awaits
          quotes,
          confirmed   \* what was retrieved, or is being retrieved
productVars == <<product, handlers, quotes, confirmed>>

NoProduct == [is |-> "absent"]
NewRequest ==
  [is |-> "open", candidates |-> <<>>, location |-> Nowhere, shown |-> <<>>, unanswered |-> Nowhere, overlapped |-> FALSE]
Open(r) == product[r].is = "open"
Free(h) == handlers[h].awaits = "nothing"
Awaiting(h, what, r, p) == handlers' = [handlers EXCEPT ![h] = [awaits |-> what, request |-> r, place |-> p]]
Return(h) == handlers' = [handlers EXCEPT ![h] = [awaits |-> "nothing"]]

-----------------------------------------------------------------------------
Start(h, r) ==
  /\ Free(h) /\ product[r].is = "absent"
  /\ product' = [product EXCEPT ![r] = NewRequest]
  /\ \/ Awaiting(h, "resolution", r, Nowhere)
     \/ UNCHANGED handlers  \* no place in the message, or MIREYE is not live
  /\ UNCHANGED <<quotes, confirmed>>

\* _quote: the place is the selected one before its quote is there.
Selection_Kept(state, place) == [state EXCEPT !.location = IF @ = Nowhere THEN place ELSE @]
Selection(state, place) == [state EXCEPT !.location = place]
BeginQuote(h, r, p, state) ==
  /\ quotes < MaxQuotes
  /\ quotes' = quotes + 1
  /\ Awaiting(h, "quote", r, p)
  /\ product' = [product EXCEPT ![r] =
       [Selection(state, p) EXCEPT
          !.unanswered = h,
          !.overlapped = @ \/ \E g \in Handlers : handlers[g].awaits = "quote" /\ handlers[g].request = r]]

Resolve(h) ==
  /\ handlers[h].awaits = "resolution"
  /\ LET r == handlers[h].request IN
       \/ \E p \in Places : BeginQuote(h, r, p, product[r])
       \/ /\ \E ambiguous \in {<<>>} \cup (Places \X Places) :
               product' = [product EXCEPT ![r].candidates = ambiguous]
          /\ Return(h) /\ UNCHANGED quotes
  /\ UNCHANGED confirmed

Select(h, r, i) ==
  /\ Free(h) /\ Open(r) /\ i \in DOMAIN product[r].candidates
  /\ BeginQuote(h, r, product[r].candidates[i], product[r])
  /\ UNCHANGED confirmed

ShowQuote(h) ==
  /\ handlers[h].awaits = "quote"
  /\ LET r == handlers[h].request IN
       product' = [product EXCEPT ![r].shown = Append(@, handlers[h].place),
                                  ![r].unanswered = IF @ = h THEN Nowhere ELSE @]
  /\ Return(h) /\ UNCHANGED <<quotes, confirmed>>

Confirm(h, r) ==
  /\ Free(h) /\ Open(r) /\ product[r].location /= Nowhere
  /\ Cardinality(confirmed) < MaxConfirms
  /\ confirmed' = confirmed \cup {[request |-> r, place |-> product[r].location, state |-> product[r]]}
  /\ Awaiting(h, "snapshot", r, product[r].location)
  /\ UNCHANGED <<product, quotes>>

\* A snapshot that is created, or any call that fails.
EndCall(h) ==
  /\ ~Free(h)
  /\ Return(h) /\ UNCHANGED <<product, quotes, confirmed>>

\* Durable state begins with the snapshot.
ProcessRestarts ==
  /\ product' = [r \in Requests |-> IF Open(r) THEN [is |-> "expired"] ELSE product[r]]
  /\ handlers' = [h \in Handlers |-> [awaits |-> "nothing"]]
  /\ UNCHANGED <<quotes, confirmed>>

ProductInit ==
  /\ product = [r \in Requests |-> NoProduct]
  /\ handlers = [h \in Handlers |-> [awaits |-> "nothing"]]
  /\ quotes = 0 /\ confirmed = {}
ProductNext ==
  \/ ProcessRestarts
  \/ \E h \in Handlers : Resolve(h) \/ ShowQuote(h) \/ EndCall(h)
  \/ \E h \in Handlers, r \in Requests :
       Start(h, r) \/ Confirm(h, r) \/ \E i \in 1..2 : Select(h, r, i)

-----------------------------------------------------------------------------
\* What is retrieved after a confirmation was shown with its quote, unless the
\* quote that was asked for last had no answer; and it is what was shown last,
\* unless two quotes of the request overlapped as well.
ConfirmedPlaceWasShown ==
  \A c \in confirmed : c.state.unanswered = Nowhere =>
    /\ \E i \in DOMAIN c.state.shown : c.state.shown[i] = c.place
    /\ ~c.state.overlapped => c.place = c.state.shown[Len(c.state.shown)]
=============================================================================
