------------------------------- MODULE Ledger -------------------------------
(* The workspace ledger (engine.py, store.py): observations of keys, each with *)
(* the dossier the provider gave, a version and a time, never changed again;   *)
(* replay of a past time; the check of stored dossiers against live data.  The *)
(* API and the MCP server are two processes on one database.                   *)
EXTENDS Integers, FiniteSets, Sequences

CONSTANTS Servers,    \* processes with a WorkspaceEngine
          Keys,       \* local keys of one workspace
          MaxRows,    \* bound on observations
          LastInstant \* bound on the clock

VARIABLES instant,  \* time.time()
          live,     \* key -> value the provider would return now
          rows,     \* observations in the order of their commits
          drift,    \* rows of staleness_log
          server    \* server -> what it is doing
ledgerVars == <<instant, live, rows, drift, server>>

Resting == [doing |-> "nothing"]

RowsOf(k) == {i \in DOMAIN rows : rows[i].key = k}
Versions(is) == {rows[i].version : i \in is}
LastVersion(is) == CHOOSE v \in {0} \cup Versions(is) : \A w \in Versions(is) : w <= v

NextVersion_OfWorkspace(k) == LastVersion(DOMAIN rows) + 1
NextVersion(k) == LastVersion(RowsOf(k)) + 1

\* state and replay: of every key the rows of the highest version, of all rows
\* or of those not stamped after the given time.
Latest(is) == {i \in is : rows[i].version = LastVersion({j \in is : rows[j].key = rows[i].key})}
State == Latest(DOMAIN rows)
Replay_OfCurrent(t) == {rows[i] : i \in {i \in State : rows[i].at <= t}}
Replay(t) == {rows[i] : i \in Latest({i \in DOMAIN rows : rows[i].at <= t})}

-----------------------------------------------------------------------------
Do(s, step) ==
  /\ server' = [server EXCEPT ![s] = step]
  /\ UNCHANGED <<instant, live>>

\* observe: the dossier is fetched first.  Status and justification go with it
\* and are never compared.
FetchDossier(s, k) ==
  /\ server[s] = Resting
  /\ Len(rows) + Cardinality({r \in Servers : server[r].doing \in {"fetched", "counted", "stamped"}}) < MaxRows
  /\ Do(s, [doing |-> "fetched", key |-> k, dossier |-> live[k]])
  /\ UNCHANGED <<rows, drift>>

\* The version is read, the row is stamped and committed; nothing keeps another
\* process from doing the same in between.
CountVersions(s) ==
  /\ server[s].doing = "fetched"
  /\ Do(s, [key |-> server[s].key, dossier |-> server[s].dossier,
            doing |-> "counted", version |-> NextVersion(server[s].key), seen |-> RowsOf(server[s].key)])
  /\ UNCHANGED <<rows, drift>>

Stamp(s) ==
  /\ server[s].doing = "counted"
  /\ Do(s, [key |-> server[s].key, dossier |-> server[s].dossier,
            version |-> server[s].version, seen |-> server[s].seen,
            doing |-> "stamped", at |-> instant])
  /\ UNCHANGED <<rows, drift>>

\* seen is not stored: it tells whether another row came in between.
Commit(s) ==
  /\ server[s].doing = "stamped"
  /\ rows' = Append(rows, [key |-> server[s].key, version |-> server[s].version,
                           dossier |-> server[s].dossier, at |-> server[s].at, alone |-> server[s].seen = RowsOf(server[s].key)])
  /\ Do(s, Resting)
  /\ UNCHANGED drift

\* invalidate_check: the current rows are read once, then the live data of each
\* is awaited and compared.
BeginCheck(s) ==
  /\ server[s] = Resting
  /\ Do(s, [doing |-> "checking", left |-> State])
  /\ UNCHANGED <<rows, drift>>

Differs_FromLatest(i) == \E j \in State : rows[j].key = rows[i].key /\ rows[j].dossier /= live[rows[i].key]
Differs(i) == rows[i].dossier /= live[rows[i].key]
CheckRow(s) ==
  /\ server[s].doing = "checking"
  /\ \E i \in server[s].left :
       /\ Do(s, [server[s] EXCEPT !.left = @ \ {i}])
       /\ drift' = drift \cup
            IF Differs(i) THEN {[key |-> rows[i].key, old |-> rows[i].dossier, new |-> live[rows[i].key]]} ELSE {}
  /\ UNCHANGED rows

\* The check is done, or the provider fails, or the process ends.
Cease(s) ==
  /\ server[s] /= Resting
  /\ Do(s, Resting)
  /\ UNCHANGED <<rows, drift>>

ProviderChanges(k) ==
  /\ live' = [live EXCEPT ![k] = 1 - @]
  /\ UNCHANGED <<instant, rows, drift, server>>
InstantPasses ==
  /\ instant < LastInstant
  /\ instant' = instant + 1
  /\ UNCHANGED <<live, rows, drift, server>>

LedgerInit ==
  /\ instant = 0 /\ live = [k \in Keys |-> 0]
  /\ rows = <<>> /\ drift = {} /\ server = [s \in Servers |-> Resting]
LedgerNext ==
  \/ InstantPasses
  \/ \E k \in Keys : ProviderChanges(k)
  \/ \E s \in Servers : \/ \E k \in Keys : FetchDossier(s, k)
                        \/ CountVersions(s) \/ Stamp(s) \/ Commit(s)
                        \/ BeginCheck(s) \/ CheckRow(s) \/ Cease(s)

-----------------------------------------------------------------------------
\* What a replay of a past time shows never changes, but for a row that was
\* stamped by then and not committed yet.
PastIsFinal ==
  \A t \in 0..instant - 1 :
    Replay(t)' = Replay(t) \/ \E s \in Servers : server[s].doing = "stamped" /\ server[s].at <= t

\* Where no two observations of a key overlapped, its versions count them in
\* the order of their times, and it has one current row.
VersionsCount ==
  \A k \in Keys :
    (\A i \in RowsOf(k) : rows[i].alone) =>
      /\ \A i \in RowsOf(k) : rows[i].version = Cardinality({j \in RowsOf(k) : j <= i})
      /\ \A i, j \in RowsOf(k) : i < j => rows[i].at <= rows[j].at
      /\ Cardinality(State \cap RowsOf(k)) <= 1

\* Every logged difference is one: of two values, the old one observed before.
DriftIsReal ==
  \A d \in drift : d.old /= d.new /\ \E i \in RowsOf(d.key) : rows[i].dossier = d.old
=============================================================================
