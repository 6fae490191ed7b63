------------------------- MODULE EntryStore_proofs -------------------------
(* The table under any number of shells, commands and preloads.            *)
EXTENDS EntryStore, TLAPS

\* The inductive invariant: types, one row per ID (of the history as well), and
\* the two properties.
StoreInv ==
  /\ StoreTypeOK /\ OneRowPerId /\ DeletedStaysDeleted /\ EditsKept
  /\ \A a, b \in intent : a.id = b.id => a = b

\* An entry that a command or the file creates is an entry.
LEMMA EntriesTyped == Entries \subseteq AnyEntry
<1> SUFFICES ASSUME NEW i \in Id, NEW r \in Row PROVE WithId(i, r) \in AnyEntry
  BY DEF Entries
<1> QED
  BY DEF WithId, AnyEntry, FieldValues

\* The flags of `entry update' leave an entry an entry, with its ID.
LEMMA ApplyTyped ==
  ASSUME NEW e \in AnyEntry, NEW change \in Change
  PROVE  Apply(e, change) \in AnyEntry /\ Apply(e, change).id = e.id
<1>1. DOMAIN change \subseteq Field
  BY ChangeAssumption
<1>2. DOMAIN e = Field \cup {"id"}
  BY DEF AnyEntry, Field
<1>3. "id" \notin DOMAIN change
  BY <1>1 DEF Field
<1>4. Apply(e, change).id = e.id
  BY <1>2, <1>3 DEF Apply
<1>5. \A f \in Field : e[f] \in FieldValues(f)
  BY DEF AnyEntry, Field
<1>6. \A f \in Field : Apply(e, change)[f] \in FieldValues(f)
  <2> SUFFICES ASSUME NEW f \in Field PROVE Apply(e, change)[f] \in FieldValues(f)
    OBVIOUS
  <2>1. CASE f \in DOMAIN change
    BY <1>2, <2>1 DEF Apply, FieldValues
  <2>2. CASE f \notin DOMAIN change
    BY <1>2, <1>5, <2>2 DEF Apply
  <2> QED
    BY <2>1, <2>2
<1>7. Apply(e, change) = [f \in {"id", "spiffeId", "attestor", "selectors", "ttl"} |-> Apply(e, change)[f]]
  BY <1>2 DEF Apply, Field
<1>8. e.id \in Id
  BY DEF AnyEntry
<1> QED
  BY <1>4, <1>6, <1>7, <1>8 DEF AnyEntry, Field

\* SELECT ... WHERE id = ? returns the row of that ID.
LEMMA RowOfId ==
  ASSUME NEW S, NEW i \in Ids(S)
  PROVE  RowOf(S, i) \in S /\ RowOf(S, i).id = i
BY DEF Ids, RowOf

\* Initially the table is empty.
LEMMA StoreInvInit == StoreInit => StoreInv
BY BoundAssumption
DEF StoreInit, StoreInv, StoreTypeOK, OneRowPerId, DeletedStaysDeleted, EditsKept, Ids

\* Creating an entry, by a command or from the file.
LEMMA CreateStep ==
  ASSUME StoreInv, NEW e \in Entries,
         table' = Create(table, e), intent' = Intend(e), deleted' = deleted \ {e.id},
         stale' = stale, draft' = draft
  PROVE  /\ table' \subseteq AnyEntry /\ intent' \subseteq AnyEntry /\ deleted' \subseteq Id
         /\ OneRowPerId' /\ DeletedStaysDeleted' /\ EditsKept'
         /\ (\A a, b \in intent : a.id = b.id => a = b)'
<1>1. e \in AnyEntry
  BY EntriesTyped
<1>2. Ids(table) = Ids(intent)
  BY DEF StoreInv, EditsKept
<1>3. CASE e.id \in Ids(table)
  <2>1. table' = table /\ intent' = intent
    BY <1>2, <1>3 DEF Create, Intend
  <2> QED
    BY <2>1 DEF StoreInv, StoreTypeOK, OneRowPerId, DeletedStaysDeleted, EditsKept, Ids
<1>4. CASE e.id \notin Ids(table)
  <2>1. table' = table \cup {e} /\ intent' = intent \cup {e}
    BY <1>2, <1>4 DEF Create, Intend
  <2>2. Ids(table') = Ids(table) \cup {e.id} /\ Ids(intent') = Ids(intent) \cup {e.id}
    BY <2>1 DEF Ids
  <2>3. \A x \in table \cup intent : x.id # e.id
    BY <1>2, <1>4 DEF Ids
  <2> QED
    BY <1>1, <2>1, <2>2, <2>3
    DEF StoreInv, StoreTypeOK, OneRowPerId, DeletedStaysDeleted, EditsKept
<1> QED
  BY <1>3, <1>4

\* Every command, statement by statement, keeps the invariant.
LEMMA StoreInvStep == StoreInv /\ [StoreNext]_storeVars => StoreInv'
<1> SUFFICES ASSUME StoreInv, [StoreNext]_storeVars PROVE StoreInv'
  OBVIOUS
<1> USE BoundAssumption
<1>0. CASE UNCHANGED storeVars
  BY <1>0 DEF storeVars, StoreInv, StoreTypeOK, OneRowPerId, DeletedStaysDeleted, EditsKept, Ids
<1>1. ASSUME NEW e \in Entries, EntryCreate(e) PROVE StoreInv'
  BY <1>1, CreateStep DEF EntryCreate, StoreInv, StoreTypeOK
<1>2. ASSUME NEW c \in Cli, NEW i \in Id, EntryUpdateGet(c, i) PROVE StoreInv'
  <2>1. RowOf(table, i) \in AnyEntry
    BY <1>2, RowOfId DEF EntryUpdateGet, StoreInv, StoreTypeOK
  <2>2. StoreTypeOK'
    BY <1>2, <2>1 DEF EntryUpdateGet, StoreInv, StoreTypeOK
  <2> QED
    BY <1>2, <2>2 DEF EntryUpdateGet, StoreInv, OneRowPerId, DeletedStaysDeleted, EditsKept, Ids
<1>3. ASSUME NEW c \in Cli, NEW change \in Change, EntryUpdatePut(c, change) PROVE StoreInv'
  <2> DEFINE d == draft[c]
             e == Apply(d, change)
  <2>1. d \in AnyEntry
    BY <1>3 DEF EntryUpdatePut, StoreInv, StoreTypeOK
  <2>2. e \in AnyEntry /\ e.id = d.id /\ e.id \in Id
    BY <2>1, ApplyTyped DEF AnyEntry
  <2>3. /\ table' = Update(table, e)
        /\ stale' = IF e.id \in Ids(table) /\ RowOf(table, e.id) # d THEN stale \cup {e.id} ELSE stale
        /\ intent' = {IF x.id = e.id THEN Asked(x, change) ELSE x : x \in intent}
        /\ draft' = [draft EXCEPT ![c] = NoRow]
        /\ UNCHANGED <<loading, deleted, writes, loads>>
    BY <1>3 DEF EntryUpdatePut
  <2>4. \A x \in intent : /\ x \in AnyEntry
                          /\ Asked(x, change) \in AnyEntry
                          /\ Asked(x, change).id = x.id
                          /\ Asked(x, change) = Apply(x, change)
    BY ApplyTyped DEF Apply, Asked, StoreInv, StoreTypeOK
  <2> HIDE DEF e, d
  <2>5. table' \subseteq AnyEntry /\ Ids(table') = Ids(table)
    BY <2>2, <2>3 DEF Update, Ids, StoreInv, StoreTypeOK
  <2>6. intent' \subseteq AnyEntry /\ Ids(intent') = Ids(intent)
    BY <2>3, <2>4 DEF Ids
  <2>7. StoreTypeOK'
    BY <2>2, <2>3, <2>5, <2>6 DEF StoreInv, StoreTypeOK
  <2>8. OneRowPerId' /\ (\A a, b \in intent : a.id = b.id => a = b)'
    BY <2>3, <2>4 DEF StoreInv, OneRowPerId, Update
  <2>9. DeletedStaysDeleted'
    BY <2>3, <2>5 DEF StoreInv, DeletedStaysDeleted
  <2>10. EditsKept'
    <3> SUFFICES ASSUME NEW y \in table', y.id \notin stale' PROVE y \in intent'
      BY <2>5, <2>6 DEF EditsKept, StoreInv
    <3>1. CASE y.id # e.id \/ e.id \notin Ids(table)
      <4>1. y \in table /\ y.id # e.id
        BY <2>3, <3>1 DEF Update, Ids
      <4>2. y.id \notin stale
        BY <2>3
      <4>3. y \in intent
        BY <4>1, <4>2 DEF StoreInv, EditsKept
      <4> QED
        BY <2>3, <4>1, <4>3
    <3>2. CASE y.id = e.id /\ e.id \in Ids(table)
      <4>1. y = e
        BY <2>3, <3>2 DEF Update
      <4>2. RowOf(table, e.id) = d /\ e.id \notin stale
        BY <2>3, <3>2
      <4>3. d \in table
        BY <3>2, <4>2, RowOfId
      <4>4. d \in intent
        BY <2>2, <4>2, <4>3 DEF StoreInv, EditsKept
      <4>5. Asked(d, change) = e
        BY <2>4, <4>4 DEF e
      <4> QED
        BY <2>2, <2>3, <4>1, <4>4, <4>5
    <3> QED
      BY <3>1, <3>2
  <2> QED
    BY <2>7, <2>8, <2>9, <2>10 DEF StoreInv
<1>f. ASSUME NEW c \in Cli, EntryUpdateFails(c) PROVE StoreInv'
  BY <1>f DEF EntryUpdateFails, StoreInv, StoreTypeOK, OneRowPerId, DeletedStaysDeleted, EditsKept
<1>4. ASSUME NEW i \in Id, EntryDelete(i) PROVE StoreInv'
  <2>1. StoreTypeOK'
    BY <1>4 DEF EntryDelete, Delete, StoreInv, StoreTypeOK
  <2>2. /\ table' = {x \in table : x.id # i} /\ intent' = {x \in intent : x.id # i}
        /\ deleted' = deleted \cup {i} /\ stale' = stale \ {i}
    BY <1>4 DEF EntryDelete, Delete
  <2>3. Ids(table') = Ids(table) \ {i} /\ Ids(intent') = Ids(intent) \ {i}
    BY <2>2 DEF Ids
  <2> QED
    BY <2>1, <2>2, <2>3 DEF StoreInv, OneRowPerId, DeletedStaysDeleted, EditsKept
<1>5. CASE PreloadEntry
  <2>1. FileEntry[loading] \in Entries
    BY <1>5, FileAssumption DEF PreloadEntry
  <2>2. loading' \in 0..(Len(FileEntry) + 1)
    BY <1>5 DEF PreloadEntry, StoreInv, StoreTypeOK
  <2> DEFINE e == FileEntry[loading]
  <2>3. /\ table' = Create(table, e) /\ intent' = Intend(e) /\ deleted' = deleted \ {e.id}
        /\ stale' = stale /\ draft' = draft /\ writes' = writes /\ loads' = loads
    BY <1>5 DEF PreloadEntry
  <2> HIDE DEF e
  <2>4. /\ table' \subseteq AnyEntry /\ intent' \subseteq AnyEntry /\ deleted' \subseteq Id
        /\ OneRowPerId' /\ DeletedStaysDeleted' /\ EditsKept'
        /\ (\A a, b \in intent : a.id = b.id => a = b)'
    BY <2>1, <2>3, CreateStep DEF e
  <2> QED
    BY <2>2, <2>3, <2>4 DEF StoreInv, StoreTypeOK
<1>6. CASE PreloadBegin \/ PreloadEnd \/ PreloadAbort
  <2>1. Len(FileEntry) \in Nat
    BY FileAssumption
  <2>2. StoreTypeOK'
    BY <1>6, <2>1 DEF PreloadBegin, PreloadEnd, PreloadAbort, StoreInv, StoreTypeOK
  <2> QED
    BY <1>6, <2>2 DEF PreloadBegin, PreloadEnd, PreloadAbort, StoreInv, OneRowPerId,
                      DeletedStaysDeleted, EditsKept, Ids
<1> QED
  BY <1>0, <1>1, <1>2, <1>3, <1>f, <1>4, <1>5, <1>6 DEF StoreNext, Preload

\* Type correctness of the table, the commands under way and the histories.
THEOREM StoreTypeCorrect == StoreSpec => []StoreTypeOK
<1>1. StoreInv => StoreTypeOK
  BY DEF StoreInv
<1> QED
  BY StoreInvInit, StoreInvStep, <1>1, PTL DEF StoreSpec

\* An ID names one entry, however commands and preloads overlap.
THEOREM OneRowPerIdAlways == StoreSpec => []OneRowPerId
<1>1. StoreInv => OneRowPerId
  BY DEF StoreInv
<1> QED
  BY StoreInvInit, StoreInvStep, <1>1, PTL DEF StoreSpec

\* A deleted entry does not come back by itself: no update under way revives it.
THEOREM DeletedStaysDeletedAlways == StoreSpec => []DeletedStaysDeleted
<1>1. StoreInv => DeletedStaysDeleted
  BY DEF StoreInv
<1> QED
  BY StoreInvInit, StoreInvStep, <1>1, PTL DEF StoreSpec

\* Edits are lost to an overlapping update of the same entry and to nothing else.
THEOREM EditsKeptAlways == StoreSpec => []EditsKept
<1>1. StoreInv => EditsKept
  BY DEF StoreInv
<1> QED
  BY StoreInvInit, StoreInvStep, <1>1, PTL DEF StoreSpec
\* As long as no update has written back a row it had read too early, the table is what
\* the commands that succeeded asked for: nothing is lost and nothing is left over.
THEOREM TableAsAskedUnlessStale == StoreSpec => [](stale = {} => table = intent)
<1>1. ASSUME StoreInv, stale = {} PROVE table = intent
  <2>1. table \subseteq intent /\ Ids(table) = Ids(intent)
    BY <1>1 DEF StoreInv, EditsKept
  <2>2. ASSUME NEW x \in intent PROVE x \in table
    <3>1. PICK e \in table : e.id = x.id
      BY <2>1 DEF Ids
    <3> QED
      BY <1>1, <2>1, <3>1 DEF StoreInv
  <2> QED
    BY <2>1, <2>2
<1> QED
  BY StoreInvInit, StoreInvStep, <1>1, PTL DEF StoreSpec
=============================================================================
