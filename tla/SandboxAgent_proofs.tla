-------------------------- MODULE SandboxAgent_proofs --------------------------
(***************************************************************************)
(* Proofs about chats that share sessions, for any number of chats,        *)
(* sessions, layouts, worlds, rounds, scenarios and revisions.             *)
(***************************************************************************)
EXTENDS SandboxAgent, SequenceTheorems, TLAPS

(* What is said of a session holds of every copy of one: the stored        *)
(* session, and the one a chat keeps over an awaited tool.                 *)
RecordedIn(stored, s) ==
    IF s.active = None THEN s.layout = Empty
    ELSE /\ s.active \in DOMAIN stored
         /\ \E r \in DOMAIN stored[s.active] :
                /\ stored[s.active][r].layout = s.layout
                /\ stored[s.active][r].evaluation = s.evaluation

ScenarioOK(scenario) ==
    /\ scenario \in Seq(Revision) /\ Len(scenario) \in 1..MaxRevisions
    /\ \A r \in 1..Len(scenario) :
           /\ scenario[r].evaluation = Evaluation(scenario[r].layout, scenario[r].constraints)
           /\ scenario[r].world = scenario[Len(scenario)].world

ScenariosOK ==
    /\ scenarios \in Seq(Seq(Revision)) /\ Len(scenarios) <= MaxScenarios
    /\ \A sc \in 1..Len(scenarios) : ScenarioOK(scenarios[sc])

SessionsOK ==
    /\ sessions \in [Sessions -> SandboxSession]
    /\ \A id \in Sessions : RecordedIn(scenarios, sessions[id])

ChatsOK ==
    /\ chats \in [Chats -> {Idle} \cup InChat]
    /\ \A c \in Chats : chats[c] \in InChat =>
           /\ RecordedIn(scenarios, chats[c].previous)
           /\ Running(c) => chats[c].left > 0

IInv == ScenariosOK /\ SessionsOK /\ ChatsOK /\ ends \in 0..MaxEnds

-------------------------------------------------------------------------------
(* Facts about the data *)

LEMMA Sizes ==
    /\ Rounds \in Nat /\ Rounds > 0 /\ Nudges \in Nat /\ MaxScenarios \in Nat
    /\ MaxRevisions \in Nat /\ MaxRevisions > 0 /\ MaxEnds \in Nat
    /\ {} \notin Constraints /\ Default # {}
BY AgentAssumption

LEMMA EvaluationOK ==
    ASSUME NEW layout \in Scenes, NEW constraints \in AllConstraints
    PROVE  Evaluation(layout, constraints) \in Evaluations
BY DEF Evaluations

LEMMA NewSessionOK ==
    NewSession \in SandboxSession /\ \A stored : RecordedIn(stored, NewSession)
BY Sizes DEF NewSession, SandboxSession, RecordedIn, Scenes, Evaluations, None

LEMMA ScenarioFacts ==
    ASSUME ScenariosOK
    PROVE  /\ DOMAIN scenarios = 1..Len(scenarios) /\ Len(scenarios) \in Nat
           /\ \A sc \in DOMAIN scenarios :
                  /\ ScenarioOK(scenarios[sc]) /\ scenarios[sc] \in Seq(Revision)
                  /\ DOMAIN scenarios[sc] = 1..Len(scenarios[sc])
                  /\ Len(scenarios[sc]) \in DOMAIN scenarios[sc]
                  /\ Latest(sc) \in Revision
                  /\ Latest(sc).evaluation = Evaluation(Latest(sc).layout, Latest(sc).constraints)
<1>1. DOMAIN scenarios = 1..Len(scenarios) /\ Len(scenarios) \in Nat
  BY LenProperties DEF ScenariosOK
<1>2. ASSUME NEW sc \in DOMAIN scenarios
      PROVE  /\ ScenarioOK(scenarios[sc]) /\ scenarios[sc] \in Seq(Revision)
             /\ DOMAIN scenarios[sc] = 1..Len(scenarios[sc])
             /\ Len(scenarios[sc]) \in DOMAIN scenarios[sc]
             /\ Latest(sc) \in Revision
             /\ Latest(sc).evaluation = Evaluation(Latest(sc).layout, Latest(sc).constraints)
  <2>1. ScenarioOK(scenarios[sc])
    BY <1>1 DEF ScenariosOK
  <2>2. scenarios[sc] \in Seq(Revision) /\ Len(scenarios[sc]) \in 1..MaxRevisions
    BY <2>1 DEF ScenarioOK
  <2>3. DOMAIN scenarios[sc] = 1..Len(scenarios[sc]) /\ Len(scenarios[sc]) \in DOMAIN scenarios[sc]
    BY <2>2, LenProperties, Sizes
  <2>4. Latest(sc) \in Revision
    BY <2>2, <2>3, ElementOfSeq DEF Latest
  <2> QED
    BY <2>1, <2>2, <2>3, <2>4 DEF ScenarioOK, Latest
<1> QED
  BY <1>1, <1>2

LEMMA CreatedOK ==
    ASSUME NEW layout \in Scenes, NEW world \in Worlds \cup {None},
           NEW requested \in AllConstraints \cup {{}}
    PROVE  LET revision == Created(layout, world, requested)
           IN /\ revision \in Revision /\ revision.layout = layout /\ revision.world = world
              /\ revision.evaluation = Evaluation(layout, revision.constraints)
              /\ revision.constraints \in AllConstraints
<1> DEFINE constraints == IF requested = {} THEN Default ELSE requested
           revision == Created(layout, world, requested)
<1>1. constraints \in AllConstraints
  BY DEF AllConstraints
<1>2. revision = [layout |-> layout, world |-> world, constraints |-> constraints,
                  evaluation |-> Evaluation(layout, constraints)]
  BY DEF Created, NewRevision
<1> HIDE DEF constraints, revision
<1>3. Evaluation(layout, constraints) \in Evaluations
  BY <1>1, EvaluationOK
<1>4. revision \in Revision
  BY <1>1, <1>2, <1>3 DEF Revision
<1> QED
  BY <1>1, <1>2, <1>4 DEF revision

(* The evaluation a tool has made, if it made one, is that of the layout   *)
(* on the constraints that are stored.                                     *)
LEMMA AppendedOK ==
    ASSUME ScenariosOK, NEW s \in SandboxSession, s.active \in DOMAIN scenarios,
           NEW layout \in Scenes, NEW asked \in Constraints \cup {{}}
    PROVE  LET given == IF asked # {} THEN Evaluation(layout, asked) ELSE NoEvaluation
               revision == Appended(s.active, layout, s.world, Requested(s, asked), given)
           IN /\ revision \in Revision /\ revision.layout = layout /\ revision.world = s.world
              /\ revision.evaluation = Evaluation(layout, revision.constraints)
<1> DEFINE requested == Requested(s, asked)
           constraints == IF requested = {} THEN Latest(s.active).constraints ELSE requested
           given == IF asked # {} THEN Evaluation(layout, asked) ELSE NoEvaluation
           revision == Appended(s.active, layout, s.world, requested, given)
<1>1. s.world \in Worlds \cup {None} /\ requested \in AllConstraints \cup {{}}
  BY DEF SandboxSession, Requested, AllConstraints
<1>2. constraints \in AllConstraints
  BY <1>1, ScenarioFacts DEF Revision
<1>3. revision = [layout |-> layout, world |-> s.world, constraints |-> constraints,
                  evaluation |-> IF given # NoEvaluation THEN given
                                 ELSE Evaluation(layout, constraints)]
  BY DEF Appended, NewRevision
<1>4. given # NoEvaluation => given = Evaluation(layout, constraints)
  BY DEF Requested
<1> HIDE DEF constraints, given, revision
<1>5. Evaluation(layout, constraints) \in Evaluations
  BY <1>2, EvaluationOK
<1>6. revision = [layout |-> layout, world |-> s.world, constraints |-> constraints,
                  evaluation |-> Evaluation(layout, constraints)]
  BY <1>3, <1>4
<1> HIDE DEF requested
<1>7. revision \in Revision
  BY <1>1, <1>2, <1>5, <1>6 DEF Revision
<1>8. /\ revision.layout = layout /\ revision.world = s.world
      /\ revision.evaluation = Evaluation(layout, revision.constraints)
  BY <1>6
<1> QED
  BY <1>7, <1>8 DEF revision, given, requested

(* A scenario may begin with any evaluated revision, and go on with one of *)
(* the same world.                                                         *)
LEMMA ScenarioBegun ==
    ASSUME NEW revision \in Revision,
           revision.evaluation = Evaluation(revision.layout, revision.constraints)
    PROVE  ScenarioOK(<<revision>>) /\ <<revision>> \in Seq(Revision)
BY Sizes DEF ScenarioOK

LEMMA ScenarioGrown ==
    ASSUME NEW scenario, ScenarioOK(scenario), Len(scenario) < MaxRevisions,
           NEW revision \in Revision, revision.world = scenario[Len(scenario)].world,
           revision.evaluation = Evaluation(revision.layout, revision.constraints)
    PROVE  LET grown == Append(scenario, revision)
           IN /\ ScenarioOK(grown) /\ grown \in Seq(Revision)
              /\ Len(grown) = Len(scenario) + 1 /\ grown[Len(scenario) + 1] = revision
              /\ \A r \in 1..Len(scenario) : grown[r] = scenario[r]
<1> DEFINE n == Len(scenario)
           grown == Append(scenario, revision)
<1>1. scenario \in Seq(Revision) /\ n \in Nat /\ n < MaxRevisions
  BY LenProperties DEF ScenarioOK
<1>2. /\ grown \in Seq(Revision) /\ Len(grown) = n + 1 /\ grown[n + 1] = revision
      /\ \A r \in 1..n : grown[r] = scenario[r]
  BY <1>1, AppendProperties
<1>3. n + 1 \in 1..MaxRevisions
  BY <1>1, Sizes
<1>4. \A r \in 1..n :
         /\ scenario[r].evaluation = Evaluation(scenario[r].layout, scenario[r].constraints)
         /\ scenario[r].world = scenario[n].world
  BY DEF ScenarioOK
<1> HIDE DEF n, grown
<1>5. \A r \in 1..n + 1 : r = n + 1 \/ r \in 1..n
  BY <1>1
<1>6. revision.world = scenario[n].world
  BY DEF n
<1>7. \A r \in 1..n + 1 : /\ grown[r].evaluation = Evaluation(grown[r].layout, grown[r].constraints)
                          /\ grown[r].world = grown[n + 1].world
  <2> TAKE r \in 1..n + 1
  <2>1. CASE r = n + 1
    BY <2>1, <1>2
  <2>2. CASE r \in 1..n
    BY <2>2, <1>2, <1>4, <1>6
  <2> QED
    BY <2>1, <2>2, <1>5
<1>8. ScenarioOK(grown)
  BY <1>2, <1>3, <1>7 DEF ScenarioOK
<1> QED
  BY <1>2, <1>8 DEF n, grown

-------------------------------------------------------------------------------
(* What is stored *)

(* What was recorded stays recorded when scenarios are added or grow.      *)
Keeps == \A s : RecordedIn(scenarios, s) => RecordedIn(scenarios', s)

LEMMA ScenarioAdded ==
    ASSUME ScenariosOK, Len(scenarios) < MaxScenarios, NEW revision \in Revision,
           revision.evaluation = Evaluation(revision.layout, revision.constraints),
           scenarios' = Append(scenarios, <<revision>>)
    PROVE  /\ ScenariosOK' /\ Keeps
           /\ Len(scenarios) + 1 \in 1..MaxScenarios
           /\ \A s : /\ s.active = Len(scenarios) + 1
                     /\ s.layout = revision.layout /\ s.evaluation = revision.evaluation
                     => RecordedIn(scenarios', s)
<1> DEFINE n == Len(scenarios)
<1>1. ScenarioOK(<<revision>>) /\ <<revision>> \in Seq(Revision)
  BY ScenarioBegun
<1>2. DOMAIN scenarios = 1..n /\ n \in Nat /\ scenarios \in Seq(Seq(Revision))
  BY ScenarioFacts DEF ScenariosOK
<1>3. /\ scenarios' \in Seq(Seq(Revision)) /\ Len(scenarios') = n + 1
      /\ scenarios'[n + 1] = <<revision>>
      /\ \A sc \in 1..n : scenarios'[sc] = scenarios[sc]
  BY <1>1, <1>2, AppendProperties
<1>4. DOMAIN scenarios' = 1..n + 1 /\ n + 1 \in 1..MaxScenarios
  BY <1>2, <1>3, LenProperties, Sizes
<1>5. \A sc \in 1..n : ScenarioOK(scenarios[sc])
  BY DEF ScenariosOK
<1> HIDE DEF n
<1>6. \A sc \in 1..n + 1 : sc = n + 1 \/ sc \in 1..n
  BY <1>2
<1>7. ScenariosOK'
  <2>1. \A sc \in 1..n + 1 : ScenarioOK(scenarios'[sc])
    BY <1>1, <1>3, <1>5, <1>6
  <2> QED
    BY <1>3, <1>4, <2>1 DEF ScenariosOK, ScenarioOK
<1>8. Keeps
  <2> SUFFICES ASSUME NEW s, RecordedIn(scenarios, s) PROVE RecordedIn(scenarios', s)
    BY DEF Keeps
  <2>1. CASE s.active = None
    BY <2>1 DEF RecordedIn
  <2>2. CASE s.active # None
    <3>1. s.active \in 1..n
      BY <2>2, <1>2 DEF RecordedIn
    <3>2. s.active \in DOMAIN scenarios' /\ scenarios'[s.active] = scenarios[s.active]
      BY <3>1, <1>2, <1>3, <1>4
    <3> QED
      BY <2>2, <3>2 DEF RecordedIn
  <2> QED
    BY <2>1, <2>2
<1>9. ASSUME NEW s, s.active = n + 1, s.layout = revision.layout, s.evaluation = revision.evaluation
      PROVE  RecordedIn(scenarios', s)
  <2>1. s.active \in DOMAIN scenarios' /\ s.active # None
    BY <1>2, <1>4, <1>9 DEF None
  <2>2. 1 \in DOMAIN scenarios'[n + 1] /\ scenarios'[n + 1][1] = revision
    BY <1>3
  <2> QED
    BY <1>9, <2>1, <2>2 DEF RecordedIn
<1> QED
  BY <1>4, <1>7, <1>8, <1>9 DEF n

LEMMA RevisionAdded ==
    ASSUME ScenariosOK, NEW sc \in DOMAIN scenarios, Len(scenarios[sc]) < MaxRevisions,
           NEW revision \in Revision, revision.world = Latest(sc).world,
           revision.evaluation = Evaluation(revision.layout, revision.constraints),
           scenarios' = [scenarios EXCEPT ![sc] = Append(scenarios[sc], revision)]
    PROVE  /\ ScenariosOK' /\ Keeps
           /\ \A s : /\ s.active = sc
                     /\ s.layout = revision.layout /\ s.evaluation = revision.evaluation
                     => RecordedIn(scenarios', s)
<1> DEFINE n == Len(scenarios)
           m == Len(scenarios[sc])
           grown == Append(scenarios[sc], revision)
<1>1. /\ DOMAIN scenarios = 1..n /\ n \in Nat /\ scenarios \in Seq(Seq(Revision))
      /\ ScenarioOK(scenarios[sc]) /\ DOMAIN scenarios[sc] = 1..m /\ m \in Nat
      /\ n <= MaxScenarios
  BY ScenarioFacts, LenProperties DEF ScenariosOK
<1>2. /\ ScenarioOK(grown) /\ grown \in Seq(Revision) /\ Len(grown) = m + 1
      /\ grown[m + 1] = revision /\ \A r \in 1..m : grown[r] = scenarios[sc][r]
  <2>1. revision.world = scenarios[sc][Len(scenarios[sc])].world
    BY DEF Latest
  <2> QED
    BY <1>1, <2>1, ScenarioGrown
<1> HIDE DEF n
<1>3. /\ scenarios' \in Seq(Seq(Revision)) /\ Len(scenarios') = n
      /\ \A t \in 1..n : scenarios'[t] = IF t = sc THEN grown ELSE scenarios[t]
  BY <1>1, <1>2, ExceptSeq DEF n
<1>4. DOMAIN scenarios' = 1..n /\ DOMAIN grown = 1..m + 1 /\ sc \in 1..n
  BY <1>1, <1>2, <1>3, LenProperties
<1> HIDE DEF grown, m
<1>5. ScenariosOK'
  <2>1. \A t \in 1..n : ScenarioOK(scenarios'[t])
    BY <1>2, <1>3 DEF ScenariosOK, n
  <2> QED
    BY <1>1, <1>3, <2>1 DEF ScenariosOK, ScenarioOK
<1>6. Keeps
  <2> SUFFICES ASSUME NEW s, RecordedIn(scenarios, s) PROVE RecordedIn(scenarios', s)
    BY DEF Keeps
  <2>1. CASE s.active = None
    BY <2>1 DEF RecordedIn
  <2>2. CASE s.active # None
    <3>1. s.active \in 1..n
      BY <2>2, <1>1 DEF RecordedIn
    <3>2. PICK r \in DOMAIN scenarios[s.active] :
              /\ scenarios[s.active][r].layout = s.layout
              /\ scenarios[s.active][r].evaluation = s.evaluation
      BY <2>2 DEF RecordedIn
    <3>3. CASE s.active = sc
      <4>1. r \in 1..m /\ r \in 1..m + 1
        BY <3>2, <3>3, <1>1
      <4>2. r \in DOMAIN scenarios'[s.active] /\ scenarios'[s.active][r] = scenarios[s.active][r]
        BY <3>1, <3>3, <4>1, <1>2, <1>3, <1>4
      <4> QED
        BY <3>1, <3>2, <4>2, <1>4 DEF RecordedIn
    <3>4. CASE s.active # sc
      <4>1. scenarios'[s.active] = scenarios[s.active]
        BY <3>1, <3>4, <1>3
      <4> QED
        BY <3>1, <3>2, <4>1, <1>4 DEF RecordedIn
    <3> QED
      BY <3>3, <3>4
  <2> QED
    BY <2>1, <2>2
<1>7. ASSUME NEW s, s.active = sc, s.layout = revision.layout, s.evaluation = revision.evaluation
      PROVE  RecordedIn(scenarios', s)
  <2>1. s.active \in DOMAIN scenarios' /\ s.active # None /\ scenarios'[s.active] = grown
    <3>1. s.active = sc /\ sc \in 1..n /\ sc # 0
      BY <1>1, <1>4, <1>7
    <3> QED
      BY <3>1, <1>3, <1>4 DEF None
  <2>2. m + 1 \in DOMAIN grown /\ grown[m + 1] = revision
    BY <1>1, <1>2, <1>4
  <2> QED
    BY <1>7, <2>1, <2>2 DEF RecordedIn
<1> QED
  BY <1>5, <1>6, <1>7

(* A session is replaced by a recorded one.                                *)
LEMMA SessionReplaced ==
    ASSUME SessionsOK, Keeps, NEW id \in Sessions, NEW s \in SandboxSession,
           RecordedIn(scenarios', s), sessions' = [sessions EXCEPT ![id] = s]
    PROVE  SessionsOK'
BY DEF SessionsOK, Keeps

LEMMA SessionsKept ==
    ASSUME SessionsOK, Keeps, sessions' = sessions PROVE SessionsOK'
BY DEF SessionsOK, Keeps

LEMMA NothingStored ==
    ASSUME scenarios' = scenarios PROVE Keeps /\ (ScenariosOK => ScenariosOK')
BY DEF Keeps, ScenariosOK, ScenarioOK

(* The record of a tool that was accepted.                                 *)
LEMMA RecordOK ==
    ASSUME ScenariosOK, SessionsOK, NEW id \in Sessions, NEW layout \in Scenes,
           NEW asked \in Constraints \cup {{}}, MayRecord(sessions[id]),
           Record(id, sessions[id], layout, asked)
    PROVE  ScenariosOK' /\ SessionsOK' /\ Keeps
<1> DEFINE s == sessions[id]
           requested == Requested(s, asked)
           given == IF asked # {} THEN Evaluation(layout, asked) ELSE NoEvaluation
           sc == IF s.active = None THEN Len(scenarios) + 1 ELSE s.active
           revision == IF s.active = None THEN Created(layout, s.world, requested)
                       ELSE Appended(sc, layout, s.world, requested, given)
           next == [layout |-> layout, world |-> s.world, evaluation |-> revision.evaluation,
                    active |-> sc, constraints |-> requested]
<1>1. /\ s \in SandboxSession /\ RecordedIn(scenarios, s) /\ s.world \in Worlds \cup {None}
      /\ s.constraints \in AllConstraints \cup {{}} /\ s.active \in 0..MaxScenarios
  BY DEF SessionsOK, SandboxSession
<1>2. requested \in AllConstraints \cup {{}}
  BY <1>1 DEF Requested, AllConstraints
<1>4. /\ s.active = None => Len(scenarios) < MaxScenarios
      /\ s.active # None => Len(scenarios[sc]) < MaxRevisions
      /\ scenarios' = IF s.active = None THEN Append(scenarios, <<revision>>)
                      ELSE [scenarios EXCEPT ![sc] = Append(scenarios[sc], revision)]
      /\ sessions' = [sessions EXCEPT ![id] = next]
  BY DEF Record
<1> HIDE DEF requested, given
<1>5. /\ revision \in Revision /\ revision.layout = layout /\ revision.world = s.world
      /\ revision.evaluation = Evaluation(layout, revision.constraints)
      /\ revision.evaluation \in Evaluations
  <2>1. CASE s.active = None
    <3>1. revision = Created(layout, s.world, requested)
      BY <2>1
    <3> HIDE DEF revision
    <3>2. /\ revision \in Revision /\ revision.layout = layout /\ revision.world = s.world
          /\ revision.evaluation = Evaluation(layout, revision.constraints)
      BY <1>1, <1>2, <3>1, CreatedOK
    <3> QED
      BY <3>2 DEF Revision
  <2>2. CASE s.active # None
    <3>1. /\ revision = Appended(s.active, layout, s.world, requested, given)
          /\ s.active \in DOMAIN scenarios
      BY <2>2, <1>1 DEF RecordedIn
    <3>2. /\ revision \in Revision /\ revision.layout = layout /\ revision.world = s.world
          /\ revision.evaluation = Evaluation(layout, revision.constraints)
      BY <1>1, <3>1, AppendedOK DEF given, requested
    <3> HIDE DEF revision, sc
    <3> QED
      BY <3>2 DEF Revision
  <2> QED
    BY <2>1, <2>2
<1> HIDE DEF revision
<1>6. next.active = sc /\ next.layout = layout /\ next.evaluation = revision.evaluation
  OBVIOUS
<1>7. /\ ScenariosOK' /\ Keeps /\ sc \in 0..MaxScenarios /\ RecordedIn(scenarios', next)
  <2>1. CASE s.active = None
    <3>1. /\ ScenariosOK' /\ Keeps /\ Len(scenarios) + 1 \in 1..MaxScenarios
          /\ \A x : /\ x.active = Len(scenarios) + 1
                    /\ x.layout = revision.layout /\ x.evaluation = revision.evaluation
                    => RecordedIn(scenarios', x)
      BY <2>1, <1>4, <1>5, ScenarioAdded
    <3>2. next.active = Len(scenarios) + 1
      BY <2>1
    <3> HIDE DEF next
    <3> QED
      BY <2>1, <3>1, <3>2, <1>5, <1>6, Sizes
  <2>2. CASE s.active # None
    <3>1. sc \in DOMAIN scenarios /\ sc = s.active
      BY <2>2, <1>1 DEF RecordedIn
    <3>2. revision.world = Latest(sc).world
      BY <2>2, <1>5, <3>1 DEF MayRecord
    <3>3. scenarios' = [scenarios EXCEPT ![sc] = Append(scenarios[sc], revision)]
          /\ Len(scenarios[sc]) < MaxRevisions
      BY <2>2, <1>4
    <3> HIDE DEF next, sc
    <3>4. /\ ScenariosOK' /\ Keeps
          /\ \A x : /\ x.active = sc
                    /\ x.layout = revision.layout /\ x.evaluation = revision.evaluation
                    => RecordedIn(scenarios', x)
      BY <1>5, <3>1, <3>2, <3>3, RevisionAdded
    <3> QED
      BY <1>1, <1>5, <1>6, <3>1, <3>4
  <2> QED
    BY <2>1, <2>2
<1> HIDE DEF sc
<1>8. next \in SandboxSession
  BY <1>1, <1>2, <1>5, <1>7 DEF SandboxSession
<1> HIDE DEF next
<1> QED
  BY <1>4, <1>7, <1>8, SessionReplaced

-------------------------------------------------------------------------------
(* Chats *)

LEMMA InChatFacts ==
    ASSUME ChatsOK, NEW c \in Chats, chats[c].at # "idle"
    PROVE  /\ chats[c] \in InChat /\ chats[c].session \in Sessions
           /\ RecordedIn(scenarios, chats[c].previous) /\ chats[c].previous \in SandboxSession
           /\ Running(c) => chats[c].left > 0
<1>1. chats[c] \in InChat
  BY DEF ChatsOK, Idle
<1> QED
  BY <1>1 DEF ChatsOK, InChat

LEMMA ChatReplaced ==
    ASSUME ChatsOK, Keeps, NEW c \in Chats, NEW chat \in InChat, RecordedIn(scenarios', chat.previous),
           chat.at \in {"model", "tool"} => chat.left > 0, chats' = [chats EXCEPT ![c] = chat]
    PROVE  ChatsOK'
<1>1. chats' \in [Chats -> {Idle} \cup InChat]
  BY DEF ChatsOK
<1>2. ASSUME NEW d \in Chats, chats'[d] \in InChat
      PROVE  /\ RecordedIn(scenarios', chats'[d].previous)
             /\ chats'[d].at \in {"model", "tool"} => chats'[d].left > 0
  <2>1. CASE d = c
    BY <2>1 DEF ChatsOK
  <2>2. CASE d # c
    BY <1>2, <2>2 DEF ChatsOK, Keeps, Running
  <2> QED
    BY <2>1, <2>2
<1> QED
  BY <1>1, <1>2 DEF ChatsOK, Running

(* A round ends: the chat goes on while there are rounds left.             *)
LEMMA NextRoundOK ==
    ASSUME NEW chat \in InChat, chat.left > 0
    PROVE  /\ NextRound(chat) \in InChat /\ NextRound(chat).previous = chat.previous
           /\ NextRound(chat).at \in {"model", "tool"} => NextRound(chat).left > 0
<1>1. /\ chat.left \in 1..Rounds /\ chat.left - 1 \in 0..Rounds
  BY Sizes DEF InChat
<1>2. CASE chat.left - 1 = 0
  <2>1. NextRound(chat) = [chat EXCEPT !.left = chat.left - 1, !.at = "limit"]
    BY <1>2 DEF NextRound, Spent
  <2> QED
    BY <1>1, <2>1 DEF InChat
<1>3. CASE chat.left - 1 # 0
  <2>1. NextRound(chat) = [chat EXCEPT !.left = chat.left - 1, !.at = "model"]
    BY <1>3 DEF NextRound, Spent
  <2>2. chat.left - 1 \in 0..Rounds /\ chat.left - 1 > 0
    BY <1>1, <1>3, Sizes
  <2>3. NextRound(chat) \in InChat
    BY <2>1, <2>2 DEF InChat
  <2>4. NextRound(chat).left = chat.left - 1 /\ NextRound(chat).previous = chat.previous
    BY <2>1 DEF InChat
  <2> QED
    BY <2>2, <2>3, <2>4
<1> QED
  BY <1>2, <1>3

(* A turn of a chat, by what it makes of the chat and of what it shares.   *)
LEMMA TurnOK ==
    ASSUME IInv, NEW c \in Chats, NEW chat \in InChat, chats' = [chats EXCEPT ![c] = chat],
           RecordedIn(scenarios, chat.previous), chat.at \in {"model", "tool"} => chat.left > 0,
           ScenariosOK', SessionsOK', Keeps, ends' = ends
    PROVE  IInv'
<1>1. RecordedIn(scenarios', chat.previous)
  BY DEF Keeps
<1>2. ChatsOK'
  BY <1>1, ChatReplaced DEF IInv
<1> QED
  BY <1>2 DEF IInv

LEMMA QuietTurnOK ==
    ASSUME IInv, NEW c \in Chats, NEW chat \in InChat, chats' = [chats EXCEPT ![c] = chat],
           RecordedIn(scenarios, chat.previous), chat.at \in {"model", "tool"} => chat.left > 0,
           sessions' = sessions, scenarios' = scenarios, ends' = ends
    PROVE  IInv'
BY TurnOK, NothingStored, SessionsKept DEF IInv

LEMMA StartOK ==
    ASSUME IInv, NEW c \in Chats, NEW id \in Sessions, NEW sc \in DOMAIN scenarios \cup {None},
           NEW world \in Worlds \cup {None}, NEW alternative \in BOOLEAN,
           Start(c, id, sc, world, alternative)
    PROVE  IInv'
<1> DEFINE loaded == Loaded(sessions[id], sc)
           refused == world # None /\ loaded.world \notin {None, world}
           session == IF refused \/ world = None THEN loaded ELSE [loaded EXCEPT !.world = world]
           chat == [at |-> IF refused THEN "failed" ELSE "model", session |-> id,
                    alternative |-> alternative,
                    initial |-> IF alternative THEN session.layout ELSE Empty,
                    evaluated |-> FALSE, nudges |-> 0, left |-> Rounds, previous |-> NewSession]
<1>1. /\ sessions' = [sessions EXCEPT ![id] = session] /\ chats' = [chats EXCEPT ![c] = chat]
      /\ scenarios' = scenarios /\ ends' = ends
  BY DEF Start
<1>2. loaded \in SandboxSession /\ RecordedIn(scenarios, loaded)
  <2>1. CASE sc = None
    BY <2>1 DEF Loaded, IInv, SessionsOK
  <2>2. CASE sc # None
    <3>1. /\ sc \in DOMAIN scenarios /\ Latest(sc) \in Revision /\ sc \in 0..MaxScenarios
          /\ Len(scenarios[sc]) \in DOMAIN scenarios[sc]
      BY <2>2, ScenarioFacts, Sizes DEF IInv, ScenariosOK
    <3>2. loaded = [layout |-> Latest(sc).layout, world |-> Latest(sc).world,
                    evaluation |-> Latest(sc).evaluation, active |-> sc,
                    constraints |-> Latest(sc).constraints]
      BY <2>2 DEF Loaded
    <3> HIDE DEF loaded
    <3>3. loaded \in SandboxSession
      BY <3>1, <3>2 DEF SandboxSession, Revision
    <3>4. RecordedIn(scenarios, loaded)
      BY <2>2, <3>1, <3>2 DEF RecordedIn, Latest
    <3> QED
      BY <3>3, <3>4
  <2> QED
    BY <2>1, <2>2
<1> HIDE DEF loaded
<1>3. session \in SandboxSession /\ RecordedIn(scenarios, session)
  BY <1>2 DEF SandboxSession, RecordedIn
<1> HIDE DEF session, refused
<1>4. chat \in InChat
  BY <1>3, NewSessionOK, Sizes DEF InChat, SandboxSession, Scenes
<1>5. chat.previous = NewSession /\ chat.left = Rounds
  OBVIOUS
<1> HIDE DEF chat
<1>6. Keeps /\ ScenariosOK'
  BY <1>1, NothingStored DEF IInv
<1>7. SessionsOK'
  BY <1>1, <1>3, <1>6, SessionReplaced DEF IInv
<1> QED
  BY <1>1, <1>4, <1>5, <1>6, <1>7, TurnOK, NewSessionOK, Sizes

LEMMA ReplyOK == ASSUME IInv, NEW c \in Chats, ReplyWithoutCall(c) PROVE IInv'
<1>1. /\ chats[c] \in InChat /\ RecordedIn(scenarios, chats[c].previous) /\ chats[c].left > 0
      /\ sessions' = sessions /\ scenarios' = scenarios /\ ends' = ends
  BY InChatFacts DEF ReplyWithoutCall, AskedModel, Running, IInv
<1> DEFINE nudged == [chats[c] EXCEPT !.nudges = chats[c].nudges + 1]
           done == ~chats[c].alternative \/ Complete(c)
           chat == IF done THEN [chats[c] EXCEPT !.at = "answered"]
                   ELSE IF chats[c].nudges < Nudges THEN NextRound(nudged)
                   ELSE [chats[c] EXCEPT !.at = "refused"]
<1>2. chats' = [chats EXCEPT ![c] = chat]
  BY DEF ReplyWithoutCall
<1>3. chat \in InChat /\ chat.previous = chats[c].previous
      /\ (chat.at \in {"model", "tool"} => chat.left > 0)
  <2>1. CASE done
    BY <1>1, <2>1 DEF InChat
  <2>2. CASE ~done /\ chats[c].nudges < Nudges
    <3>1. nudged \in InChat /\ nudged.left > 0 /\ nudged.previous = chats[c].previous
      BY <1>1, <2>2, Sizes DEF InChat
    <3>2. chat = NextRound(nudged)
      BY <2>2
    <3> HIDE DEF nudged, chat
    <3> QED
      BY <3>1, <3>2, NextRoundOK
  <2>3. CASE ~done /\ ~(chats[c].nudges < Nudges)
    <3>1. chat = [chats[c] EXCEPT !.at = "refused"]
      BY <2>3
    <3> HIDE DEF chat
    <3> QED
      BY <1>1, <3>1 DEF InChat
  <2> QED
    BY <2>1, <2>2, <2>3
<1> HIDE DEF chat
<1> QED
  BY <1>1, <1>2, <1>3, QuietTurnOK

LEMMA ChangeLayoutOK ==
    ASSUME IInv, NEW c \in Chats, NEW layout \in Scenes, ChangeLayout(c, layout) PROVE IInv'
<1>1. /\ chats[c] \in InChat /\ RecordedIn(scenarios, chats[c].previous) /\ chats[c].left > 0
      /\ chats[c].session \in Sessions
      /\ chats' = [chats EXCEPT ![c] = NextRound(chats[c])] /\ ends' = ends
  BY InChatFacts DEF ChangeLayout, AskedModel, Running, IInv
<1>2. ScenariosOK' /\ SessionsOK' /\ Keeps
  BY <1>1, RecordOK DEF ChangeLayout, SessionOf, IInv
<1> QED
  BY <1>1, <1>2, NextRoundOK, TurnOK

LEMMA EvaluateScenarioOK ==
    ASSUME IInv, NEW c \in Chats, NEW asked \in Constraints, EvaluateScenario(c, asked) PROVE IInv'
<1> DEFINE chat == [NextRound(chats[c]) EXCEPT !.evaluated = chats[c].alternative]
<1>1. /\ chats[c] \in InChat /\ RecordedIn(scenarios, chats[c].previous) /\ chats[c].left > 0
      /\ chats[c].session \in Sessions
      /\ chats' = [chats EXCEPT ![c] = chat] /\ ends' = ends
  BY InChatFacts DEF EvaluateScenario, AskedModel, Running, IInv
<1>2. sessions[chats[c].session].layout \in Scenes
  BY <1>1 DEF IInv, SessionsOK, SandboxSession
<1>3. ScenariosOK' /\ SessionsOK' /\ Keeps
  BY <1>1, <1>2, RecordOK DEF EvaluateScenario, SessionOf, IInv
<1>4. /\ NextRound(chats[c]) \in InChat /\ NextRound(chats[c]).previous = chats[c].previous
      /\ NextRound(chats[c]).at \in {"model", "tool"} => NextRound(chats[c]).left > 0
  BY <1>1, NextRoundOK
<1>5. chat \in InChat /\ chat.previous = chats[c].previous
      /\ (chat.at \in {"model", "tool"} => chat.left > 0)
  BY <1>1, <1>4 DEF InChat
<1> HIDE DEF chat
<1> QED
  BY <1>1, <1>3, <1>5, TurnOK

LEMMA BranchScenarioOK ==
    ASSUME IInv, NEW c \in Chats, NEW source \in DOMAIN scenarios, BranchScenario(c, source)
    PROVE  IInv'
<1> DEFINE child == Created(Latest(source).layout, Latest(source).world, Latest(source).constraints)
           session == [layout |-> child.layout, world |-> child.world,
                       evaluation |-> child.evaluation,
                       active |-> Len(scenarios) + 1, constraints |-> child.constraints]
<1>1. /\ chats[c] \in InChat /\ RecordedIn(scenarios, chats[c].previous) /\ chats[c].left > 0
      /\ chats[c].session \in Sessions
      /\ chats' = [chats EXCEPT ![c] = NextRound(chats[c])] /\ ends' = ends
  BY InChatFacts DEF BranchScenario, AskedModel, Running, IInv
<1>2. /\ Len(scenarios) < MaxScenarios /\ scenarios' = Append(scenarios, <<child>>)
      /\ sessions' = [sessions EXCEPT ![chats[c].session] = session]
  BY DEF BranchScenario
<1>3. Latest(source) \in Revision
  BY ScenarioFacts DEF IInv
<1>4. /\ child \in Revision
      /\ child.evaluation = Evaluation(child.layout, child.constraints)
  BY <1>3, CreatedOK DEF Revision
<1> HIDE DEF child
<1>5. /\ session.active = Len(scenarios) + 1 /\ session.layout = child.layout
      /\ session.evaluation = child.evaluation
  OBVIOUS
<1>6. /\ ScenariosOK' /\ Keeps /\ Len(scenarios) + 1 \in 1..MaxScenarios
      /\ \A s : /\ s.active = Len(scenarios) + 1
                /\ s.layout = child.layout /\ s.evaluation = child.evaluation
                => RecordedIn(scenarios', s)
  BY <1>2, <1>4, ScenarioAdded DEF IInv
<1>7. session \in SandboxSession
  BY <1>4, <1>6, Sizes DEF SandboxSession, Revision
<1> HIDE DEF session
<1>8. RecordedIn(scenarios', session)
  BY <1>5, <1>6
<1>9. SessionsOK'
  BY <1>1, <1>2, <1>6, <1>7, <1>8, SessionReplaced DEF IInv
<1> QED
  BY <1>1, <1>6, <1>9, NextRoundOK, TurnOK

(* The turns that only change their chat.                                  *)
LEMMA OtherTurnsOK ==
    ASSUME IInv, NEW c \in Chats,
           ReadTool(c) \/ RejectCall(c) \/ CallLifecycleTool(c) \/ LifecycleToolAnswers(c) \/ ModelFails(c)
    PROVE  IInv'
<1>1. /\ chats[c] \in InChat /\ RecordedIn(scenarios, chats[c].previous) /\ chats[c].left > 0
      /\ chats[c].session \in Sessions
      /\ sessions' = sessions /\ scenarios' = scenarios /\ ends' = ends
  BY InChatFacts DEF ReadTool, RejectCall, CallLifecycleTool, LifecycleToolAnswers, ModelFails,
                     AskedModel, Running, IInv
<1>2. CASE ReadTool(c)
  BY <1>1, <1>2, NextRoundOK, QuietTurnOK DEF ReadTool
<1>3. CASE RejectCall(c)
  <2>1. chats' = [chats EXCEPT ![c] = [chats[c] EXCEPT !.at = "rejected"]]
    BY <1>3 DEF RejectCall
  <2>2. /\ [chats[c] EXCEPT !.at = "rejected"] \in InChat
        /\ [chats[c] EXCEPT !.at = "rejected"].previous = chats[c].previous
        /\ [chats[c] EXCEPT !.at = "rejected"].at = "rejected"
    BY <1>1 DEF InChat
  <2> QED
    BY <1>1, <2>1, <2>2, QuietTurnOK
<1>4. CASE CallLifecycleTool(c)
  <2> DEFINE chat == [chats[c] EXCEPT !.at = "tool", !.previous = SessionOf(c)]
  <2>1. chats' = [chats EXCEPT ![c] = chat]
    BY <1>4 DEF CallLifecycleTool
  <2>2. SessionOf(c) \in SandboxSession /\ RecordedIn(scenarios, SessionOf(c))
    BY <1>1 DEF SessionOf, IInv, SessionsOK
  <2>3. chat \in InChat /\ chat.previous = SessionOf(c) /\ chat.left > 0
    BY <1>1, <2>2 DEF InChat
  <2> HIDE DEF chat
  <2> QED
    BY <1>1, <2>1, <2>2, <2>3, QuietTurnOK
<1>5. CASE LifecycleToolAnswers(c)
  <2> DEFINE chat == [NextRound(chats[c]) EXCEPT !.previous = NewSession]
  <2>1. chats' = [chats EXCEPT ![c] = chat]
    BY <1>5 DEF LifecycleToolAnswers
  <2>2. /\ NextRound(chats[c]) \in InChat
        /\ NextRound(chats[c]).at \in {"model", "tool"} => NextRound(chats[c]).left > 0
    BY <1>1, NextRoundOK
  <2>3. chat \in InChat /\ chat.previous = NewSession
        /\ (chat.at \in {"model", "tool"} => chat.left > 0)
    BY <2>2, NewSessionOK DEF InChat
  <2> HIDE DEF chat
  <2> QED
    BY <1>1, <2>1, <2>3, NewSessionOK, QuietTurnOK
<1>6. CASE ModelFails(c)
  <2>1. chats' = [chats EXCEPT ![c] = [chats[c] EXCEPT !.at = "failed"]]
    BY <1>6 DEF ModelFails
  <2>2. /\ [chats[c] EXCEPT !.at = "failed"] \in InChat
        /\ [chats[c] EXCEPT !.at = "failed"].previous = chats[c].previous
        /\ [chats[c] EXCEPT !.at = "failed"].at = "failed"
    BY <1>1 DEF InChat
  <2> QED
    BY <1>1, <2>1, <2>2, QuietTurnOK
<1> QED
  BY <1>2, <1>3, <1>4, <1>5, <1>6

(* What a failed tool puts back was recorded when the tool was called, and *)
(* nothing that was recorded is lost.                                      *)
LEMMA ToolFailsOK == ASSUME IInv, NEW c \in Chats, LifecycleToolFails(c) PROVE IInv'
<1> DEFINE chat == [chats[c] EXCEPT !.at = "rejected", !.previous = NewSession]
<1>1. /\ chats[c] \in InChat /\ RecordedIn(scenarios, chats[c].previous)
      /\ chats[c].previous \in SandboxSession /\ chats[c].session \in Sessions
  BY InChatFacts DEF LifecycleToolFails, IInv
<1>2. /\ sessions' = [sessions EXCEPT ![chats[c].session] = chats[c].previous]
      /\ chats' = [chats EXCEPT ![c] = chat] /\ scenarios' = scenarios /\ ends' = ends
  BY DEF LifecycleToolFails, RolledBack
<1>3. chat \in InChat /\ chat.previous = NewSession /\ chat.at = "rejected"
  BY <1>1, NewSessionOK DEF InChat
<1> HIDE DEF chat
<1>4. Keeps /\ ScenariosOK'
  BY <1>2, NothingStored DEF IInv
<1>5. SessionsOK'
  BY <1>1, <1>2, <1>4, SessionReplaced DEF IInv, Keeps
<1> QED
  BY <1>2, <1>3, <1>4, <1>5, NewSessionOK, TurnOK

LEMMA ProcessEndsOK == ASSUME IInv, ProcessEnds PROVE IInv'
<1>1. /\ sessions' = [s \in Sessions |-> NewSession] /\ scenarios' = scenarios
      /\ ends' = ends + 1 /\ ends < MaxEnds
      /\ chats' = [c \in Chats |-> IF Running(c)
                                   THEN [chats[c] EXCEPT !.at = "lost", !.previous = NewSession]
                                   ELSE chats[c]]
  BY DEF ProcessEnds
<1>2. Keeps /\ ScenariosOK'
  BY <1>1, NothingStored DEF IInv
<1>3. SessionsOK'
  BY <1>1, NewSessionOK DEF SessionsOK
<1>4. ASSUME NEW c \in Chats
      PROVE  /\ chats'[c] \in {Idle} \cup InChat
             /\ chats'[c] \in InChat => /\ RecordedIn(scenarios', chats'[c].previous)
                                        /\ chats'[c].at \notin {"model", "tool"}
  <2>1. CASE Running(c)
    <3>1. chats[c] \in InChat
      BY <2>1, InChatFacts DEF Running, IInv
    <3>2. /\ chats'[c] \in InChat /\ chats'[c].previous = NewSession /\ chats'[c].at = "lost"
      BY <1>1, <2>1, <3>1, NewSessionOK DEF InChat
    <3> QED
      BY <3>2, NewSessionOK
  <2>2. CASE ~Running(c)
    <3>1. chats'[c] = chats[c]
      BY <1>1, <2>2
    <3> QED
      BY <1>2, <2>2, <3>1 DEF IInv, ChatsOK, Running, Keeps
  <2> QED
    BY <2>1, <2>2
<1>5. ChatsOK'
  BY <1>1, <1>4 DEF ChatsOK, Running
<1>6. ends' \in 0..MaxEnds
  <2>1. ends \in 0..MaxEnds
    BY DEF IInv
  <2>2. ends < MaxEnds /\ ends' = ends + 1
    BY <1>1
  <2> QED
    BY <2>1, <2>2, Sizes
<1> QED
  BY <1>2, <1>3, <1>5, <1>6 DEF IInv

-------------------------------------------------------------------------------
(* The inductive invariant *)

LEMMA InitOK == ASSUME Init PROVE IInv
<1>1. ScenariosOK
  BY Sizes DEF Init, ScenariosOK
<1>2. SessionsOK
  BY NewSessionOK DEF Init, SessionsOK
<1>3. ChatsOK
  BY DEF Init, ChatsOK, Idle, InChat
<1> QED
  BY <1>1, <1>2, <1>3, Sizes DEF Init, IInv

LEMMA StepOK == ASSUME IInv, [Next]_vars PROVE IInv'
<1>1. CASE UNCHANGED vars
  <2>1. sessions' = sessions /\ scenarios' = scenarios /\ chats' = chats /\ ends' = ends
    BY <1>1 DEF vars
  <2> QED
    BY <2>1 DEF IInv, ScenariosOK, ScenarioOK, SessionsOK, ChatsOK, Running
<1>2. ASSUME NEW c \in Chats, NEW id \in Sessions, NEW sc \in DOMAIN scenarios \cup {None},
             NEW world \in Worlds \cup {None}, NEW alternative \in BOOLEAN,
             Start(c, id, sc, world, alternative)
      PROVE  IInv'
  BY <1>2, StartOK
<1>3. ASSUME NEW c \in Chats, Turn(c) PROVE IInv'
  BY <1>3, ReplyOK, ChangeLayoutOK, EvaluateScenarioOK, BranchScenarioOK, OtherTurnsOK, ToolFailsOK
     DEF Turn
<1>4. CASE ProcessEnds
  BY <1>4, ProcessEndsOK
<1> QED
  BY <1>1, <1>2, <1>3, <1>4 DEF Next

(* Every stored revision has the evaluation of its own layout on its own   *)
(* constraints, a scenario keeps its world, and what a session shows was   *)
(* stored, whatever chats overlap and roll back (sandbox_agent.py, chat;   *)
(* sandbox_scenarios.py, create, append).                                  *)
THEOREM Sound == Spec => []ScenariosAreSound
<1>1. Init => IInv
  BY InitOK
<1>2. IInv /\ [Next]_vars => IInv'
  BY StepOK
<1>3. IInv => ScenariosAreSound
  <2> SUFFICES ASSUME IInv PROVE ScenariosAreSound
    OBVIOUS
  <2>1. TypeOK
    BY ScenarioFacts DEF IInv, ScenariosOK, ScenarioOK, SessionsOK, ChatsOK, TypeOK
  <2>2. RevisionsEvaluated
    BY ScenarioFacts DEF IInv, ScenarioOK, RevisionsEvaluated
  <2>3. SessionIsRecorded
    BY DEF IInv, SessionsOK, RecordedIn, SessionIsRecorded
  <2>4. ScenarioKeepsWorld
    BY ScenarioFacts DEF IInv, ScenarioOK, ScenarioKeepsWorld
  <2> QED
    BY <2>1, <2>2, <2>3, <2>4 DEF ScenariosAreSound
<1> QED
  BY <1>1, <1>2, <1>3, PTL DEF Spec
===============================================================================
