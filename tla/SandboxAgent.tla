----------------------------- MODULE SandboxAgent -----------------------------
(***************************************************************************)
(* Chats with the sandbox agent about one site snapshot, app/              *)
(* sandbox_agent.py.  A session is kept in the memory of the process and   *)
(* shared by the chats that name it; each change a tool makes to its       *)
(* layout is stored as a revision of a scenario before the tool answers.   *)
(* A chat gives way where the code awaits: at the model, and at the tools  *)
(* that quote, refresh or build.  Any other tool runs in one step.         *)
(***************************************************************************)
EXTENDS Naturals, Sequences, FiniteSets

CONSTANTS
    Chats,              \* requests to chat
    Sessions,
    Layouts,            \* arrangements of proposed objects
    Empty,              \* the arrangement without an object
    Worlds,             \* the world snapshots of the site, 0 for none
    Constraints,        \* sets of constraints the model may ask about
    Default,            \* DEFAULT_SCENARIO_CONSTRAINTS
    Rounds,             \* replies of the model that a chat waits for: 10
    Nudges,             \* guards against an unfinished alternative: 2
    MaxScenarios,
    MaxRevisions,       \* of one scenario
    MaxEnds             \* ends of the process

ASSUME AgentAssumption ==
    /\ Empty \notin Layouts
    /\ 0 \notin Worlds
    /\ Rounds \in Nat \ {0} /\ Nudges \in Nat
    /\ MaxScenarios \in Nat /\ MaxRevisions \in Nat \ {0} /\ MaxEnds \in Nat
    /\ {} \notin Constraints /\ Default # {}

VARIABLES
    sessions,           \* InMemorySandboxSessions
    scenarios,          \* the stored scenarios, each with its revisions
    chats,
    ends

vars == <<sessions, scenarios, chats, ends>>

None == 0               \* no scenario, no world
Scenes == Layouts \cup {Empty}
AllConstraints == Constraints \cup {Default}

(* evaluate_site says something of one layout and one set of constraints;  *)
(* _empty_evaluation of an empty scene, whatever was asked.                *)
Evaluation(layout, constraints) ==
    [layout |-> layout, constraints |-> IF layout = Empty THEN {} ELSE constraints]

NoEvaluation == [layout |-> Empty, constraints |-> {}]

Evaluations == {Evaluation(l, c) : l \in Scenes, c \in AllConstraints} \cup {NoEvaluation}

SandboxSession == [layout : Scenes, world : Worlds \cup {None}, evaluation : Evaluations,
                   active : 0..MaxScenarios, constraints : AllConstraints \cup {{}}]

NewSession == [layout |-> Empty, world |-> None, evaluation |-> NoEvaluation,
               active |-> None, constraints |-> {}]

Revision == [layout : Scenes, world : Worlds \cup {None}, constraints : AllConstraints,
             evaluation : Evaluations]

Idle == [at |-> "idle"]

InChat ==
    [at : {"model", "tool", "answered", "refused", "rejected", "limit", "failed", "lost"},
     session : Sessions, alternative : BOOLEAN, initial : Scenes,
     evaluated : BOOLEAN, nudges : 0..Nudges, left : 0..Rounds, previous : SandboxSession]

Running(c) == chats[c].at \in {"model", "tool"}
SessionOf(c) == sessions[chats[c].session]

Init ==
    /\ sessions = [s \in Sessions |-> NewSession]
    /\ scenarios = <<>>
    /\ chats = [c \in Chats |-> Idle]
    /\ ends = 0

-------------------------------------------------------------------------------
(* Revisions *)

Latest(sc) == scenarios[sc][Len(scenarios[sc])]

NewRevision(layout, world, constraints, evaluation) ==
    [layout |-> layout, world |-> world, constraints |-> constraints, evaluation |-> evaluation]

(* Faulty: the constraints are stored as requested, if at all. *)
Created_Unasked(layout, world, requested) ==
    NewRevision(layout, world, requested, Evaluation(layout, requested))

(* ScenarioService.create evaluates the scene it is given, on the default  *)
(* constraints if none were requested.                                     *)
Created(layout, world, requested) ==
    LET constraints == IF requested = {} THEN Default ELSE requested
    IN NewRevision(layout, world, constraints, Evaluation(layout, constraints))

(* append: the constraints requested or else those of the head, and the    *)
(* evaluation that a tool has just made, if it made one.                   *)
Appended(sc, layout, world, requested, given) ==
    LET constraints == IF requested = {} THEN Latest(sc).constraints ELSE requested
    IN NewRevision(layout, world, constraints,
                   IF given # NoEvaluation THEN given ELSE Evaluation(layout, constraints))

(* Faulty: append lets the scene of another world in. *)
MayRecord_AnyWorld(s) == TRUE

(* A scenario keeps the world of its head. *)
MayRecord(s) == s.active # None => s.world = Latest(s.active).world

(* Faulty: the constraints of an evaluation are not kept in the session.   *)
Requested_Forgotten(s, asked) == s.constraints

Requested(s, asked) == IF asked # {} THEN asked ELSE s.constraints

(* record_accepted_tool, and what chat makes of the session after it.      *)
Record(id, s, layout, asked) ==
    LET requested == Requested(s, asked)
        given == IF asked # {} THEN Evaluation(layout, asked) ELSE NoEvaluation
        sc == IF s.active = None THEN Len(scenarios) + 1 ELSE s.active
        revision == IF s.active = None THEN Created(layout, s.world, requested)
                    ELSE Appended(sc, layout, s.world, requested, given)
    IN /\ IF s.active = None THEN Len(scenarios) < MaxScenarios
          ELSE Len(scenarios[sc]) < MaxRevisions
       /\ scenarios' = IF s.active = None THEN Append(scenarios, <<revision>>)
                       ELSE [scenarios EXCEPT ![sc] = Append(@, revision)]
       /\ sessions' = [sessions EXCEPT ![id] =
              [layout |-> layout, world |-> s.world, evaluation |-> revision.evaluation,
               active |-> sc, constraints |-> requested]]

-------------------------------------------------------------------------------
(* The chat *)

(* The session a scenario is loaded into. *)
Loaded(s, sc) ==
    IF sc = None THEN s
    ELSE [layout |-> Latest(sc).layout, world |-> Latest(sc).world,
          evaluation |-> Latest(sc).evaluation, active |-> sc,
          constraints |-> Latest(sc).constraints]

(* chat: a scenario and a world may be named.  A session does not switch   *)
(* worlds, but when it refuses to, the scenario is loaded already.  What   *)
(* the guard of alternatives looks at is kept for those alone.             *)
Start(c, id, sc, world, alternative) ==
    LET loaded == Loaded(sessions[id], sc)
        refused == world # None /\ loaded.world \notin {None, world}
        session == IF refused \/ world = None THEN loaded ELSE [loaded EXCEPT !.world = world]
    IN /\ chats[c] = Idle
       /\ sessions' = [sessions EXCEPT ![id] = session]
       /\ chats' = [chats EXCEPT ![c] =
              [at |-> IF refused THEN "failed" ELSE "model", session |-> id,
               alternative |-> alternative,
               initial |-> IF alternative THEN session.layout ELSE Empty,
               evaluated |-> FALSE, nudges |-> 0, left |-> Rounds, previous |-> NewSession]]
       /\ UNCHANGED <<scenarios, ends>>

(* Faulty: the loop of the chat does not count its rounds. *)
Spent_Uncounted(n) == n

(* One reply of the model is one round. *)
Spent(n) == n - 1

(* After a tool call the model is asked again, if a round is left.         *)
NextRound(chat) ==
    LET left == Spent(chat.left)
    IN [chat EXCEPT !.left = left, !.at = IF left = 0 THEN "limit" ELSE "model"]

AskedModel(c) == chats[c].at = "model"

(* A reply without a call.  An alternative needs a layout other than the   *)
(* one at the start, and an evaluation; the guard asks for what is missing *)
(* at most Nudges times.                                                   *)
Complete(c) == SessionOf(c).layout # chats[c].initial /\ chats[c].evaluated

ReplyWithoutCall(c) ==
    LET chat == chats[c]
        replied == IF ~chat.alternative \/ Complete(c) THEN [chat EXCEPT !.at = "answered"]
                   ELSE IF chat.nudges < Nudges
                        THEN NextRound([chat EXCEPT !.nudges = chat.nudges + 1])
                        ELSE [chat EXCEPT !.at = "refused"]
    IN /\ AskedModel(c)
       /\ chats' = [chats EXCEPT ![c] = replied]
       /\ UNCHANGED <<sessions, scenarios, ends>>

(* The layouts a tool of the executor may commit to a scene: a proposal    *)
(* that is placed or adjusted, its optimized form, an object moved,        *)
(* resized or turned, an object or component removed, a scene reset.       *)
Proposed == Layouts
Optimized(from) == IF from = Empty THEN {} ELSE Layouts
Transformed(from) == IF from = Empty THEN {} ELSE Layouts
Removed(from) == IF from = Empty THEN {} ELSE Scenes
Reset == {Empty}

Committed(from) ==
    Proposed \cup Optimized(from) \cup Transformed(from) \cup Removed(from) \cup Reset

(* What the executor has committed is recorded before the tool answers.    *)
ChangeLayout(c, layout) ==
    /\ AskedModel(c) /\ MayRecord(SessionOf(c))
    /\ layout \in Committed(SessionOf(c).layout)
    /\ Record(chats[c].session, SessionOf(c), layout, {})
    /\ chats' = [chats EXCEPT ![c] = NextRound(@)]
    /\ UNCHANGED ends

(* evaluate_scenario needs an object and a constraint. *)
EvaluateScenario(c, asked) ==
    /\ AskedModel(c) /\ MayRecord(SessionOf(c))
    /\ SessionOf(c).layout # Empty
    /\ Record(chats[c].session, SessionOf(c), SessionOf(c).layout, asked)
    /\ chats' = [chats EXCEPT ![c] = [NextRound(@) EXCEPT !.evaluated = chats[c].alternative]]
    /\ UNCHANGED ends

(* branch_scenario: the session goes on with the new scenario. *)
BranchScenario(c, source) ==
    LET child == Created(Latest(source).layout, Latest(source).world, Latest(source).constraints)
    IN /\ AskedModel(c)
       /\ Len(scenarios) < MaxScenarios
       /\ scenarios' = Append(scenarios, <<child>>)
       /\ sessions' = [sessions EXCEPT ![chats[c].session] =
              [layout |-> child.layout, world |-> child.world, evaluation |-> child.evaluation,
               active |-> Len(scenarios) + 1, constraints |-> child.constraints]]
       /\ chats' = [chats EXCEPT ![c] = NextRound(@)]
       /\ UNCHANGED ends

(* The tools that only read, and a proposal that finds no place.           *)
ReadTool(c) ==
    /\ AskedModel(c)
    /\ chats' = [chats EXCEPT ![c] = NextRound(@)]
    /\ UNCHANGED <<sessions, scenarios, ends>>

(* A call that is refused before anything is awaited leaves the session as *)
(* it was, and ends the chat.                                              *)
RejectCall(c) ==
    /\ AskedModel(c)
    /\ chats' = [chats EXCEPT ![c].at = "rejected"]
    /\ UNCHANGED <<sessions, scenarios, ends>>

(* A quote, a refresh or the build of a world: what the session was before *)
(* it is kept over the await.                                              *)
CallLifecycleTool(c) ==
    /\ AskedModel(c)
    /\ chats' = [chats EXCEPT ![c].at = "tool", ![c].previous = SessionOf(c)]
    /\ UNCHANGED <<sessions, scenarios, ends>>

LifecycleToolAnswers(c) ==
    /\ chats[c].at = "tool"
    /\ chats' = [chats EXCEPT ![c] = [NextRound(@) EXCEPT !.previous = NewSession]]
    /\ UNCHANGED <<sessions, scenarios, ends>>

(* Faulty: the scenario that was active is not put back. *)
RolledBack_SceneOnly(c) ==
    [chats[c].previous EXCEPT !.active = SessionOf(c).active]

(* Each field is put back, whatever other chats have done to it since.     *)
RolledBack(c) == chats[c].previous

LifecycleToolFails(c) ==
    /\ chats[c].at = "tool"
    /\ sessions' = [sessions EXCEPT ![chats[c].session] = RolledBack(c)]
    /\ chats' = [chats EXCEPT ![c].at = "rejected", ![c].previous = NewSession]
    /\ UNCHANGED <<scenarios, ends>>

(* ModelUnavailableError leaves the chat. *)
ModelFails(c) ==
    /\ AskedModel(c)
    /\ chats' = [chats EXCEPT ![c].at = "failed"]
    /\ UNCHANGED <<sessions, scenarios, ends>>

(* The end of the process takes the sessions and its chats.                *)
ProcessEnds ==
    /\ ends < MaxEnds
    /\ ends' = ends + 1
    /\ sessions' = [s \in Sessions |-> NewSession]
    /\ chats' = [c \in Chats |-> IF Running(c)
                                 THEN [chats[c] EXCEPT !.at = "lost", !.previous = NewSession]
                                 ELSE chats[c]]
    /\ UNCHANGED scenarios

Turn(c) ==
    \/ ReplyWithoutCall(c)
    \/ \E layout \in Scenes : ChangeLayout(c, layout)
    \/ \E asked \in Constraints : EvaluateScenario(c, asked)
    \/ \E source \in DOMAIN scenarios : BranchScenario(c, source)
    \/ ReadTool(c)
    \/ RejectCall(c)
    \/ CallLifecycleTool(c)
    \/ LifecycleToolAnswers(c)
    \/ LifecycleToolFails(c)
    \/ ModelFails(c)

Next ==
    \/ \E c \in Chats, id \in Sessions, sc \in DOMAIN scenarios \cup {None},
          world \in Worlds \cup {None}, alternative \in BOOLEAN :
              Start(c, id, sc, world, alternative)
    \/ \E c \in Chats : Turn(c)
    \/ ProcessEnds

Spec == Init /\ [][Next]_vars

(* Each await has a timeout (httpx, 120 s), so a chat that runs goes on.   *)
FairSpec == Spec /\ \A c \in Chats : WF_vars(Turn(c))

-------------------------------------------------------------------------------

(* The variables stay in their types, and no more is stored than there are *)
(* scenarios and revisions.                                                *)
TypeOK ==
    /\ sessions \in [Sessions -> SandboxSession]
    /\ scenarios \in Seq(Seq(Revision))
    /\ Len(scenarios) <= MaxScenarios
    /\ \A sc \in DOMAIN scenarios : Len(scenarios[sc]) \in 1..MaxRevisions
    /\ chats \in [Chats -> {Idle} \cup InChat]
    /\ ends \in 0..MaxEnds

(* Each stored revision has the evaluation of its own layout on its own    *)
(* constraints, although evaluate_scenario hands in an evaluation and the  *)
(* constraints come from the session, the head or the defaults.            *)
RevisionsEvaluated ==
    \A sc \in DOMAIN scenarios : \A r \in DOMAIN scenarios[sc] :
        LET revision == scenarios[sc][r]
        IN revision.evaluation = Evaluation(revision.layout, revision.constraints)

(* What a session shows has been accepted: a revision of its scenario has  *)
(* its layout and its evaluation, whatever chats that overlap have rolled  *)
(* back; without a scenario it shows nothing.                              *)
SessionIsRecorded ==
    \A id \in Sessions :
        LET s == sessions[id]
        IN IF s.active = None THEN s.layout = Empty
           ELSE /\ s.active \in DOMAIN scenarios
                /\ \E r \in DOMAIN scenarios[s.active] :
                       /\ scenarios[s.active][r].layout = s.layout
                       /\ scenarios[s.active][r].evaluation = s.evaluation

(* All revisions of a scenario stand in one world, although a chat may     *)
(* anchor the scene of its session in a world the scenario does not have.  *)
ScenarioKeepsWorld ==
    \A sc \in DOMAIN scenarios : \A q, r \in DOMAIN scenarios[sc] :
        scenarios[sc][q].world = scenarios[sc][r].world

(* Sessions and scenarios agree, whatever overlaps and fails.              *)
ScenariosAreSound == TypeOK /\ RevisionsEvaluated /\ SessionIsRecorded /\ ScenarioKeepsWorld

(* A chat that has begun ends: with an answer, a refusal, the limit of its *)
(* rounds, an error, or with the process.                                  *)
EveryChatReturns == \A c \in Chats : Running(c) ~> ~Running(c)
=============================================================================
