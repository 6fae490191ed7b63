----------------------------- MODULE EntryStore -----------------------------
(***************************************************************************)
(* Registration entries: the SQLite table (internal/entry/sqlite.go), the  *)
(* `entry' commands that change it (internal/cli/entry.go) and the preload *)
(* of a YAML file at server start (internal/cli/server.go).  Each SQL      *)
(* statement is atomic; a command that issues two of them is not.          *)
(***************************************************************************)
EXTENDS Naturals, Sequences

CONSTANTS
  Id,         \* entry IDs (ranks in lexicographic order)
  Row,        \* [spiffeId, attestor, selectors, ttl]: what an entry says
  Change,     \* flags of `entry update': functions from the fields set to their values
  FileEntry,  \* the YAML file: a sequence of entries
  Cli,        \* operators' shells, each running one command at a time
  NoRow,      \* no entry read
  MaxWrites,  \* bound: create, update and delete commands
  MaxLoads    \* bound: server starts with --entries

Field == {"spiffeId", "attestor", "selectors", "ttl"}

\* An entry is a row under an ID.
WithId(i, r) == [id |-> i, spiffeId |-> r.spiffeId, attestor |-> r.attestor,
                 selectors |-> r.selectors, ttl |-> r.ttl]
Entries == {WithId(i, r) : i \in Id, r \in Row}

ASSUME FileAssumption == FileEntry \in Seq(Entries)
ASSUME ChangeAssumption == \A f \in Change : DOMAIN f \subseteq Field
ASSUME BoundAssumption == MaxWrites \in Nat /\ MaxLoads \in Nat
ASSUME NoRowAssumption == NoRow \notin Entries

VARIABLES
  table,    \* rows of registration_entries
  draft,    \* draft[c]: the row an `entry update' in shell c has read
  loading,  \* next entry of the file to preload; 0 when no preload runs
  deleted,  \* history: IDs deleted and not created again
  stale,    \* history: IDs whose last update wrote back a row it had read too early
  intent,   \* history: what the operators asked each ID to be
  writes, loads

storeVars == <<table, draft, loading, deleted, stale, intent, writes, loads>>

Ids(S) == {e.id : e \in S}
RowOf(S, i) == CHOOSE e \in S : e.id = i

StoreInit ==
  /\ table = {}
  /\ draft = [c \in Cli |-> NoRow]
  /\ loading = 0
  /\ deleted = {} /\ stale = {}
  /\ intent = {}
  /\ writes = 0 /\ loads = 0

-----------------------------------------------------------------------------
(* Statements of the store                                                 *)

\* Mutant: INSERT OR REPLACE.
InsertOrReplace(S, e) == {x \in S : x.id # e.id} \cup {e}

\* Mutant: the id column is not the primary key.
InsertDuplicate(S, e) == S \cup {e}

\* INSERT: fails, and changes nothing, when the ID is taken.
Create(S, e) == IF e.id \in Ids(S) THEN S ELSE S \cup {e}

\* Mutant: an update of a missing row inserts it.
Upsert(S, e) == {x \in S : x.id # e.id} \cup {e}

\* UPDATE ... WHERE id = ?: writes every column; affects no row when the ID is gone.
Update(S, e) == IF e.id \in Ids(S) THEN {x \in S : x.id # e.id} \cup {e} ELSE S

\* DELETE ... WHERE id = ?
Delete(S, i) == {x \in S : x.id # i}

\* History: creating an ID that exists is refused and asks for nothing.
Intend(e) == IF e.id \in Ids(intent) THEN intent ELSE intent \cup {e}

-----------------------------------------------------------------------------
(* Commands                                                                *)

\* entry create: at least one selector is required.
EntryCreate(e) ==
  /\ writes < MaxWrites
  /\ e.selectors # <<>>
  /\ table' = Create(table, e)
  /\ intent' = Intend(e)
  /\ deleted' = deleted \ {e.id}
  /\ writes' = writes + 1
  /\ UNCHANGED <<draft, loading, stale, loads>>

\* entry update, first statement: SELECT the row (the command ends if it is not there).
EntryUpdateGet(c, i) ==
  /\ draft[c] = NoRow
  /\ writes < MaxWrites
  /\ i \in Ids(table)
  /\ draft' = [draft EXCEPT ![c] = RowOf(table, i)]
  /\ writes' = writes + 1
  /\ UNCHANGED <<table, loading, deleted, stale, intent, loads>>

\* Mutant: the row is built from the flags alone.
ApplyFlagsOnly(e, change) == [f \in DOMAIN change \cup {"id"} |-> IF f = "id" THEN e.id ELSE change[f]]

\* The flags that were given replace the fields of the row read.
Apply(e, change) == [f \in DOMAIN e |-> IF f \in DOMAIN change THEN change[f] ELSE e[f]]

\* History: what an update asks of an entry.
Asked(x, change) == [f \in DOMAIN x |-> IF f \in DOMAIN change THEN change[f] ELSE x[f]]

\* entry update, second statement: write the whole row back.
EntryUpdatePut(c, change) ==
  LET e == Apply(draft[c], change)
      i == e.id
  IN  /\ draft[c] # NoRow
      /\ table' = Update(table, e)
      /\ stale' = IF i \in Ids(table) /\ RowOf(table, i) # draft[c] THEN stale \cup {i} ELSE stale
      /\ intent' = {IF x.id = i THEN Asked(x, change) ELSE x : x \in intent}
      /\ draft' = [draft EXCEPT ![c] = NoRow]
      /\ UNCHANGED <<loading, deleted, writes, loads>>

\* The update ends between its statements: a flag is refused, the second statement
\* fails or the command is killed.
EntryUpdateFails(c) ==
  /\ draft[c] # NoRow
  /\ draft' = [draft EXCEPT ![c] = NoRow]
  /\ UNCHANGED <<table, loading, deleted, stale, intent, writes, loads>>

\* entry delete
EntryDelete(i) ==
  /\ writes < MaxWrites
  /\ i \in Ids(table)
  /\ table' = Delete(table, i)
  /\ intent' = {x \in intent : x.id # i}
  /\ deleted' = deleted \cup {i}
  /\ stale' = stale \ {i}
  /\ writes' = writes + 1
  /\ UNCHANGED <<draft, loading, loads>>

\* server start --entries: one Create per entry of the file; an error is only logged.
PreloadBegin ==
  /\ loading = 0 /\ loads < MaxLoads
  /\ loading' = 1 /\ loads' = loads + 1
  /\ UNCHANGED <<table, draft, deleted, stale, intent, writes>>

PreloadEntry ==
  /\ loading \in 1..Len(FileEntry)
  /\ table' = Create(table, FileEntry[loading])
  /\ intent' = Intend(FileEntry[loading])
  /\ deleted' = deleted \ {FileEntry[loading].id}
  /\ loading' = loading + 1
  /\ UNCHANGED <<draft, stale, writes, loads>>

PreloadEnd ==
  /\ loading = Len(FileEntry) + 1
  /\ loading' = 0
  /\ UNCHANGED <<table, draft, deleted, stale, intent, writes, loads>>

\* The server is killed while it preloads.
PreloadAbort ==
  /\ loading # 0
  /\ loading' = 0
  /\ UNCHANGED <<table, draft, deleted, stale, intent, writes, loads>>

Preload == PreloadBegin \/ PreloadEntry \/ PreloadEnd \/ PreloadAbort

StoreNext ==
  \/ \E e \in Entries : EntryCreate(e)
  \/ \E c \in Cli, i \in Id : EntryUpdateGet(c, i)
  \/ \E c \in Cli, change \in Change : EntryUpdatePut(c, change)
  \/ \E c \in Cli : EntryUpdateFails(c)
  \/ \E i \in Id : EntryDelete(i)
  \/ Preload

StoreSpec == StoreInit /\ [][StoreNext]_storeVars

-----------------------------------------------------------------------------
(* Properties                                                              *)

\* Entries as the commands can build them: every field from some row or change.
FieldValues(f) == {r[f] : r \in Row} \cup {c[f] : c \in {d \in Change : f \in DOMAIN d}}
AnyEntry == [id : Id, spiffeId : FieldValues("spiffeId"), attestor : FieldValues("attestor"),
             selectors : FieldValues("selectors"), ttl : FieldValues("ttl")]

\* Types: rows, and rows under edit, have all fields, each with a value somebody gave.
StoreTypeOK ==
  /\ table \subseteq AnyEntry /\ intent \subseteq AnyEntry
  /\ draft \in [Cli -> AnyEntry \cup {NoRow}]
  /\ loading \in 0..(Len(FileEntry) + 1)
  /\ deleted \subseteq Id /\ stale \subseteq Id
  /\ writes \in 0..MaxWrites /\ loads \in 0..MaxLoads

\* An ID names one entry, whatever creates, updates and preloads overlap: Match
\* breaks ties between entries by ID and relies on it.
OneRowPerId == \A a, b \in table : a.id = b.id => a = b

\* A deleted entry does not come back unless somebody creates it again: not by an
\* `entry update' that had read it before, nor by anything else under way.
DeletedStaysDeleted == deleted \cap Ids(table) = {}

\* Every entry is what the commands that succeeded asked for, field by field: no
\* preload and no update of other fields undoes an edit.  The one exception the
\* code allows is an update that wrote back a row it had read before a change.
EditsKept == Ids(table) = Ids(intent) /\ \A e \in table : e.id \in stale \/ e \in intent
=============================================================================
