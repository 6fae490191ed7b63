-------------------------- MODULE RootStore_proofs --------------------------
(***************************************************************************)
(* Proofs about RootStore, for any number of processes, roots, commands,   *)
(* kills and failing calls of os.Stat.  LInv (types and what each process  *)
(* holds at each call) needs no assumption on scheduling, nor does InHand  *)
(* (who is still to write a file that is torn or missing).  SInv adds what *)
(* holds when commands start one at a time: how the files relate to the    *)
(* one process that is starting.                                           *)
(***************************************************************************)
EXTENDS RootStore, FiniteSetTheorems, TLAPS

\* The calls made with a freshly generated pair in hand.
Saving == {"truncKey", "writeKey", "truncCert", "writeCert"}

\* What process p holds in memory at each of its calls.
LocalOK ==
  \A p \in Proc :
    /\ pc[p] \in Saving => rootKey[p] \in Root /\ rootCert[p] = rootKey[p]
    /\ pc[p] = "loadCert" => rootKey[p] \in Root
    /\ pc[p] = "intermediate" => rootKey[p] \in Root /\ rootCert[p] \in Root
    /\ pc[p] = "up" => rootKey[p] \in Root /\ rootCert[p] = rootKey[p]
    /\ p \in orphaned => pc[p] \in {"writeKey", "writeCert"}
    /\ p \in missed => misses > 0

LInv == TypeOK /\ LocalOK

\* At most one command is starting.
OneStarter ==
  \A p, q \in Proc : pc[p] \notin Idle /\ pc[q] \notin Idle => p = q

\* Roots in files and in the hands of the saver have been generated.
KnownRoots ==
  /\ keyFile \in Root => keyFile \in used
  /\ certFile \in Root => certFile \in used
  /\ \A p \in Proc : pc[p] \in Saving => rootKey[p] \in used

\* A --force, or a stat that missed a file, has not led to a new root yet.
Unspent == Cardinality(served) <= forces + misses

\* What the files look like at each call of the starting process.
DiskOK ==
  \A p \in Proc :
    /\ pc[p] \in {"rmKey", "rmCert"} => cmd[p] = "force" /\ Unspent
    /\ pc[p] \notin Idle /\ p \in missed => Unspent
    /\ pc[p] \in {"generate", "truncKey"} => ~SoundPair \/ p \in missed
    /\ pc[p] \in Saving => certFile # rootKey[p]
    /\ pc[p] \in {"writeKey", "truncCert", "writeCert"} => ~SoundPair
    /\ p \notin orphaned
    /\ pc[p] \in {"truncCert", "writeCert"} => keyFile = rootKey[p]
    /\ pc[p] = "loadCert" => keyFile = rootKey[p]
    /\ pc[p] = "intermediate" => keyFile = rootKey[p] /\ certFile = rootCert[p]

\* The last root counted is the one on disk, or there is something left to spend.
Budget ==
  /\ IsFiniteSet(served)
  /\ Cardinality(served) <= forces + misses + 1
  /\ Unspent \/ (SoundPair /\ keyFile \in served)

SInv == LInv /\ OneStarter /\ KnownRoots /\ DiskOK /\ Budget

-----------------------------------------------------------------------------
(* Types and memory                                                        *)

\* FreshRoot is a root that was not generated before.
LEMMA FreshIsFresh ==
  ASSUME Root \ used # {}
  PROVE  FreshRoot \in Root /\ FreshRoot \notin used
BY DEF FreshRoot

\* Initially no process holds a root.
LEMMA LInvInit == Init => LInv
BY FileAssumption, BoundAssumption
DEF Init, LInv, TypeOK, LocalOK, File, PC, Idle, Command, Saving

\* Every call leaves the types right and hands each process what its next call needs.
LEMMA LInvStep == LInv /\ [Next]_vars => LInv'
<1> USE FileAssumption DEF LInv, TypeOK, LocalOK, File, PC, Idle, Command, Saving,
        disk, memory, counters, stats, Stat, Goto, Begin
<1> SUFFICES ASSUME LInv, [Next]_vars PROVE LInv'
  OBVIOUS
<1>0. CASE UNCHANGED vars
  BY <1>0 DEF vars
<1>1. ASSUME NEW p \in Proc, StartServer(p) \/ StartRotate(p) \/ StartInit(p) \/ StartForce(p)
      PROVE  LInv'
  BY <1>1 DEF StartServer, StartRotate, StartInit, StartForce
<1>2. ASSUME NEW p \in Proc, GuardKey(p) PROVE LInv'
  BY <1>2 DEF GuardKey
<1>3. ASSUME NEW p \in Proc, GuardCert(p) PROVE LInv'
  BY <1>3 DEF GuardCert
<1>4. ASSUME NEW p \in Proc, RemoveKey(p) PROVE LInv'
  BY <1>4 DEF RemoveKey
<1>5. ASSUME NEW p \in Proc, RemoveCert(p) PROVE LInv'
  BY <1>5 DEF RemoveCert
<1>6. ASSUME NEW p \in Proc, StatKey(p) PROVE LInv'
  BY <1>6 DEF StatKey
<1>7. ASSUME NEW p \in Proc, StatCert(p) PROVE LInv'
  BY <1>7 DEF StatCert
<1>8. ASSUME NEW p \in Proc, LoadKey(p) PROVE LInv'
  BY <1>8 DEF LoadKey
<1>9. ASSUME NEW p \in Proc, LoadCert(p) PROVE LInv'
  BY <1>9 DEF LoadCert
<1>10. ASSUME NEW p \in Proc, Generate(p) PROVE LInv'
  BY <1>10, FreshIsFresh DEF Generate
<1>11. ASSUME NEW p \in Proc, TruncateKey(p) PROVE LInv'
  BY <1>11 DEF TruncateKey
<1>12. ASSUME NEW p \in Proc, WriteKey(p) PROVE LInv'
  BY <1>12 DEF WriteKey
<1>13. ASSUME NEW p \in Proc, TruncateCert(p) PROVE LInv'
  BY <1>13 DEF TruncateCert
<1>14. ASSUME NEW p \in Proc, WriteCert(p) PROVE LInv'
  BY <1>14 DEF WriteCert
<1>15. ASSUME NEW p \in Proc, CreateIntermediate(p) PROVE LInv'
  BY <1>15 DEF CreateIntermediate, ParentMatches
<1>16. ASSUME NEW p \in Proc, Stop(p) PROVE LInv'
  BY <1>16 DEF Stop
<1> QED
  BY <1>0, <1>1, <1>2, <1>3, <1>4, <1>5, <1>6, <1>7, <1>8, <1>9, <1>10, <1>11, <1>12, <1>13, <1>14, <1>15, <1>16 DEF Next, Step, NewSelfSignedCA

\* Type correctness, for every number of processes and however their calls interleave.
THEOREM TypeCorrect == Spec => []TypeOK
<1>1. LInv => TypeOK
  BY DEF LInv
<1> QED
  BY LInvInit, LInvStep, <1>1, PTL DEF Spec

-----------------------------------------------------------------------------
(* Commands in any overlap, none of them killed                            *)

At(S) == \E p \in Proc : pc[p] \in S

\* Whoever truncated the file at a path is still to write it; where one file is missing and the
\* other is there or about to be, somebody is on the way to writing the missing one.
InHand ==
  stops = 0 =>
    /\ keyFile = Torn => \E p \in Proc \ orphaned : pc[p] = "writeKey"
    /\ certFile = Torn => \E p \in Proc \ orphaned : pc[p] = "writeCert"
    /\ keyFile = Absent =>
         \/ certFile = Absent /\ ~At({"writeKey", "truncCert", "writeCert"})
         \/ At({"rmCert", "statKey", "generate", "truncKey"})
    /\ certFile = Absent =>
         \/ keyFile = Absent
         \/ At({"statKey", "statCert", "generate", "truncKey", "writeKey", "truncCert"})

\* Nobody leaves a file that he has to finish, and nobody takes one away without going on
\* to look at both.
LEMMA InHandStep ==
  ASSUME LInv, InHand, [Next]_vars
  PROVE  InHand'
<1> USE FileAssumption DEF LInv, TypeOK, LocalOK, Saving, InHand, At, disk, memory, counters, stats, Stat, Goto
<1>0. CASE UNCHANGED vars
  BY <1>0 DEF vars
<1>1. ASSUME NEW p \in Proc, StartServer(p) \/ StartRotate(p) \/ StartInit(p) \/ StartForce(p)
      PROVE  InHand'
  BY <1>1 DEF StartServer, StartRotate, StartInit, StartForce, Begin
<1>2. ASSUME NEW p \in Proc, GuardKey(p) PROVE InHand'
  BY <1>2 DEF GuardKey
<1>3. ASSUME NEW p \in Proc, GuardCert(p) PROVE InHand'
  BY <1>3 DEF GuardCert
<1>4. ASSUME NEW p \in Proc, RemoveKey(p) PROVE InHand'
  BY <1>4 DEF RemoveKey
<1>5. ASSUME NEW p \in Proc, RemoveCert(p) PROVE InHand'
  BY <1>5 DEF RemoveCert
<1>6. ASSUME NEW p \in Proc, StatKey(p) PROVE InHand'
  BY <1>6 DEF StatKey
<1>7. ASSUME NEW p \in Proc, StatCert(p) PROVE InHand'
  BY <1>7 DEF StatCert
<1>8. ASSUME NEW p \in Proc, LoadKey(p) \/ LoadCert(p) PROVE InHand'
  BY <1>8 DEF LoadKey, LoadCert
<1>9. ASSUME NEW p \in Proc, Generate(p) PROVE InHand'
  BY <1>9 DEF Generate
<1>10. ASSUME NEW p \in Proc, TruncateKey(p) PROVE InHand'
  BY <1>10 DEF TruncateKey
<1>11. ASSUME NEW p \in Proc, WriteKey(p) PROVE InHand'
  BY <1>11 DEF WriteKey
<1>12. ASSUME NEW p \in Proc, TruncateCert(p) PROVE InHand'
  BY <1>12 DEF TruncateCert
<1>13. ASSUME NEW p \in Proc, WriteCert(p) PROVE InHand'
  BY <1>13 DEF WriteCert
<1>14. ASSUME NEW p \in Proc, CreateIntermediate(p) PROVE InHand'
  BY <1>14 DEF CreateIntermediate
<1>15. ASSUME NEW p \in Proc, Stop(p) PROVE InHand'
  BY <1>15 DEF Stop
<1> QED
  BY <1>0, <1>1, <1>2, <1>3, <1>4, <1>5, <1>6, <1>7, <1>8, <1>9, <1>10, <1>11, <1>12, <1>13, <1>14, <1>15
  DEF Next, Step, NewSelfSignedCA

\* When all processes are done and none was killed, the files are both whole or both
\* absent, for any number of overlapping starts, inits and forced inits.
THEOREM WholeWhenQuietAlways == Spec => []WholeWhenQuiet
<1>1. Init => InHand
  BY FileAssumption DEF Init, InHand, At
<1>2. LInv /\ InHand => WholeWhenQuiet
  <2> SUFFICES ASSUME LInv, InHand, stops = 0, \A p \in Proc : pc[p] \in Idle
               PROVE  (keyFile \in Root /\ certFile \in Root) \/ (keyFile = Absent /\ certFile = Absent)
    BY DEF WholeWhenQuiet
  <2>1. \A S : S \cap Idle = {} => ~At(S)
    BY DEF At
  <2> QED
    BY <2>1 DEF LInv, TypeOK, File, InHand, Idle, At
<1>3. InHand /\ LInv /\ [Next]_vars => InHand'
  BY InHandStep
<1> QED
  BY LInvInit, LInvStep, <1>1, <1>2, <1>3, PTL DEF Spec

-----------------------------------------------------------------------------
(* One command at a time                                                   *)

\* Initially the files are absent and nothing was served.
LEMMA SInvInit == Init => SInv
<1> SUFFICES ASSUME Init PROVE SInv
  OBVIOUS
<1>1. LInv
  BY LInvInit
<1>2. IsFiniteSet(served) /\ Cardinality(served) = 0
  BY FS_EmptySet DEF Init
<1> QED
  BY <1>1, <1>2, FileAssumption
  DEF Init, SInv, OneStarter, KnownRoots, DiskOK, Budget, SoundPair, Idle, Saving, Unspent

\* The induction step.  Only CreateIntermediate adds to served, and only when the
\* starting process holds what the files hold; every other change of the files
\* happens while they are no sound pair, or after a --force or a missed file was counted.
LEMMA SInvStep ==
  ASSUME Serialised
  PROVE  SInv /\ [Next]_vars => SInv'
<1> SUFFICES ASSUME SInv, [Next]_vars PROVE SInv'
  OBVIOUS
<1> USE FileAssumption
<1> DEFINE Rest == OneStarter /\ KnownRoots /\ DiskOK /\ Budget
<1>a. LInv /\ LInv'
  BY LInvStep DEF SInv
<1>b. Cardinality(served) \in Nat
  BY FS_CardinalityType DEF SInv, Budget
<1> USE <1>a, <1>b
    DEF SInv, LInv, TypeOK, LocalOK, OneStarter, KnownRoots, DiskOK, Budget, SoundPair, Unspent,
        File, PC, Idle, Command, Saving,
        disk, memory, counters, stats, Stat, Goto, Begin
<1>0. CASE UNCHANGED vars
  BY <1>0 DEF vars
<1>1. ASSUME NEW p \in Proc, StartServer(p) \/ StartRotate(p) \/ StartInit(p)
      PROVE  Rest'
  BY <1>1 DEF StartServer, StartRotate, StartInit
<1>2. ASSUME NEW p \in Proc, StartForce(p) PROVE Rest'
  BY <1>2 DEF StartForce
<1>3. ASSUME NEW p \in Proc, GuardKey(p) PROVE Rest'
  BY <1>3 DEF GuardKey
<1>4. ASSUME NEW p \in Proc, GuardCert(p) PROVE Rest'
  BY <1>4 DEF GuardCert
<1>5. ASSUME NEW p \in Proc, RemoveKey(p) PROVE Rest'
  BY <1>5 DEF RemoveKey
<1>6. ASSUME NEW p \in Proc, RemoveCert(p) PROVE Rest'
  BY <1>6 DEF RemoveCert
<1>7. ASSUME NEW p \in Proc, StatKey(p) PROVE Rest'
  BY <1>7 DEF StatKey
<1>8. ASSUME NEW p \in Proc, StatCert(p) PROVE Rest'
  BY <1>8 DEF StatCert
<1>9. ASSUME NEW p \in Proc, LoadKey(p) PROVE Rest'
  BY <1>9 DEF LoadKey
<1>10. ASSUME NEW p \in Proc, LoadCert(p) PROVE Rest'
  BY <1>10 DEF LoadCert
<1>11. ASSUME NEW p \in Proc, Generate(p) PROVE Rest'
  BY <1>11, FreshIsFresh DEF Generate
<1>12. ASSUME NEW p \in Proc, TruncateKey(p) PROVE Rest'
  BY <1>12 DEF TruncateKey
<1>13. ASSUME NEW p \in Proc, WriteKey(p) PROVE Rest'
  BY <1>13 DEF WriteKey
<1>14. ASSUME NEW p \in Proc, TruncateCert(p) PROVE Rest'
  BY <1>14 DEF TruncateCert
<1>15. ASSUME NEW p \in Proc, WriteCert(p) PROVE Rest'
  BY <1>15 DEF WriteCert
<1>16. ASSUME NEW p \in Proc, CreateIntermediate(p) PROVE Rest'
  <2>1. CASE served' = served
    BY <1>16, <2>1 DEF CreateIntermediate, ParentMatches
  <2>2. CASE served' # served
    <3>1. /\ served' = served \cup {keyFile} /\ keyFile \notin served
          /\ SoundPair /\ pc' = [pc EXCEPT ![p] = "up"]
          /\ UNCHANGED <<disk, cmd, memory, orphaned, stats, counters>>
      BY <1>16, <2>2 DEF CreateIntermediate, ParentMatches
    <3>2. /\ IsFiniteSet(served')
          /\ Cardinality(served') = Cardinality(served) + 1
      BY <3>1, FS_AddElement
    <3>3. Unspent
      BY <3>1
    <3>4. pc[p] = "intermediate"
      BY <1>16 DEF CreateIntermediate
    <3>5. OneStarter' /\ KnownRoots'
      BY <3>1, <3>4
    <3>6. \A q \in Proc : pc'[q] \notin Idle => q # p /\ pc[q] \notin Idle
      BY <3>1
    <3>7. \A q \in Proc : pc'[q] \in Idle
      BY <3>4, <3>6
    <3>8. DiskOK'
      BY <3>7
    <3>9. Budget'
      BY <3>1, <3>2, <3>3
    <3> QED
      BY <3>5, <3>8, <3>9
  <2> QED
    BY <2>1, <2>2
<1>17. ASSUME NEW p \in Proc, Stop(p) PROVE Rest'
  BY <1>17 DEF Stop
<1> QED
  BY <1>0, <1>1, <1>2, <1>3, <1>4, <1>5, <1>6, <1>7, <1>8, <1>9, <1>10, <1>11, <1>12, <1>13, <1>14, <1>15, <1>16, <1>17 DEF Next, Step, NewSelfSignedCA

\* When commands start one at a time, the servers that ever came up used at most
\* one root plus one for each `ca init --force' and each os.Stat that failed on a file
\* that was there, through any kills and restarts.
THEOREM RootContinuityAlways ==
  ASSUME Serialised
  PROVE  Spec => []RootContinuity
<1>1. SInv => RootContinuity
  BY DEF SInv, Budget, RootContinuity
<1> QED
  BY SInvInit, SInvStep, <1>1, PTL DEF Spec

\* When commands start one at a time, a whole pair on disk is only ever destroyed
\* by the removals of `ca init --force' or by a run that could not stat one of its files.
THEOREM SoundPairKeptAlways ==
  ASSUME Serialised
  PROVE  Spec => SoundPairKept
<1>1. SInv /\ [Next]_vars
        => [SoundPair /\ disk' # disk
              => \E p \in Proc :
                   \/ cmd[p] = "force" /\ pc[p] \in {"rmKey", "rmCert"}
                   \/ p \in missed /\ pc[p] = "truncKey"]_vars
  <2> SUFFICES ASSUME SInv, Next, SoundPair, disk' # disk
               PROVE  \E p \in Proc :
                        \/ cmd[p] = "force" /\ pc[p] \in {"rmKey", "rmCert"}
                        \/ p \in missed /\ pc[p] = "truncKey"
    BY DEF vars, disk
  <2>1. PICK p \in Proc : RemoveKey(p) \/ RemoveCert(p) \/ TruncateKey(p) \/ WriteKey(p)
                          \/ TruncateCert(p) \/ WriteCert(p)
    BY DEF Next, Step, NewSelfSignedCA, disk, Begin, StartServer, StartRotate, StartInit,
           StartForce, GuardKey, GuardCert, StatKey, StatCert, LoadKey, LoadCert,
           Generate, CreateIntermediate, Stop
  <2>2. pc[p] \notin {"writeKey", "truncCert", "writeCert"}
    BY DEF SInv, DiskOK
  <2>3. pc[p] \in {"rmKey", "rmCert", "truncKey"}
    BY <2>1, <2>2 DEF RemoveKey, RemoveCert, TruncateKey, WriteKey, TruncateCert, WriteCert
  <2>4. /\ pc[p] \in {"rmKey", "rmCert"} => cmd[p] = "force"
        /\ pc[p] = "truncKey" => p \in missed
    BY DEF SInv, DiskOK
  <2> QED
    BY <2>3, <2>4
<1> QED
  BY SInvInit, SInvStep, <1>1, PTL DEF Spec, SoundPairKept

\* Without a --force nobody removes files, and as long as nobody misses a file either
\* every server that is up has its root there.
Persisted ==
  forces = 0 /\ misses = 0 =>
    \A p \in Proc : /\ pc[p] \notin {"rmKey", "rmCert"}
                    /\ pc[p] = "up" => keyFile = rootKey[p] /\ certFile = rootCert[p]

\* The promise of NewSelfSignedCA that two servers starting at once break: with commands
\* one at a time, through any kills, and while every stat tells the truth, the root of a
\* server that is up is on disk.
THEOREM RootPersistedIfSerialised ==
  ASSUME Serialised
  PROVE  Spec => []RootPersisted
<1>1. Init => Persisted
  BY DEF Init, Persisted
<1>2. Persisted => RootPersisted
  BY DEF Persisted, RootPersisted
<1>3. SInv /\ Persisted /\ [Next]_vars => Persisted'
  <2> SUFFICES ASSUME SInv, Persisted, [Next]_vars PROVE Persisted'
    OBVIOUS
  <2> USE DEF Persisted, SInv, LInv, TypeOK, disk, memory, counters, stats, Stat, Goto
  <2>0. CASE UNCHANGED vars
    BY <2>0 DEF vars
  <2>1. ASSUME NEW p \in Proc, StartServer(p) \/ StartRotate(p) \/ StartInit(p) \/ StartForce(p)
        PROVE  Persisted'
    BY <2>1 DEF StartServer, StartRotate, StartInit, StartForce, Begin
  <2>2. ASSUME NEW p \in Proc, GuardKey(p) \/ GuardCert(p) \/ StatKey(p) \/ StatCert(p)
        PROVE  Persisted'
    BY <2>2 DEF GuardKey, GuardCert, StatKey, StatCert
  <2>3. ASSUME NEW p \in Proc, RemoveKey(p) \/ RemoveCert(p) PROVE Persisted'
    BY <2>3 DEF RemoveKey, RemoveCert
  <2>4. ASSUME NEW p \in Proc, LoadKey(p) \/ LoadCert(p) \/ Generate(p) PROVE Persisted'
    BY <2>4 DEF LoadKey, LoadCert, Generate
  <2>5. ASSUME NEW p \in Proc, TruncateKey(p) \/ WriteKey(p) \/ TruncateCert(p) \/ WriteCert(p)
        PROVE  Persisted'
    <3>1. pc[p] \in Saving /\ UNCHANGED <<forces, misses, rootKey, rootCert>>
          /\ \E l \in Saving \cup {"intermediate"} : Goto(p, l)
      BY <2>5 DEF TruncateKey, WriteKey, TruncateCert, WriteCert, Saving
    <3>2. misses = 0 => ~SoundPair
      BY <3>1 DEF DiskOK, LocalOK, Saving
    <3>3. forces = 0 /\ misses = 0 => \A q \in Proc : pc[q] # "up"
      BY <3>2 DEF LocalOK, SoundPair
    <3> QED
      BY <3>1, <3>3 DEF Saving
  <2>6. ASSUME NEW p \in Proc, CreateIntermediate(p) PROVE Persisted'
    BY <2>6 DEF CreateIntermediate, DiskOK
  <2>7. ASSUME NEW p \in Proc, Stop(p) PROVE Persisted'
    BY <2>7 DEF Stop
  <2> QED
    BY <2>0, <2>1, <2>2, <2>3, <2>4, <2>5, <2>6, <2>7 DEF Next, Step, NewSelfSignedCA
<1> QED
  BY SInvInit, SInvStep, <1>1, <1>2, <1>3, PTL DEF Spec

-----------------------------------------------------------------------------
(* The register                                                            *)

\* A new pair is generated only where one of the files is missing, or was missed.
Missing ==
  \A p \in Proc : pc[p] \in {"generate", "truncKey"}
                    => keyFile = Absent \/ certFile = Absent \/ p \in missed

RInv == SInv /\ Missing

\* One process at a time, so nobody fills in the missing file behind its back.
LEMMA MissingStep ==
  ASSUME SInv, Missing, [Next]_vars
  PROVE  Missing'
<1> USE DEF Missing, SInv, LInv, TypeOK, OneStarter, Idle, disk, memory, counters, stats, Stat, Goto, Begin
<1>0. CASE UNCHANGED vars
  BY <1>0 DEF vars
<1>1. ASSUME NEW p \in Proc, StartServer(p) \/ StartRotate(p) \/ StartInit(p) \/ StartForce(p)
      PROVE  Missing'
  BY <1>1 DEF StartServer, StartRotate, StartInit, StartForce
<1>2. ASSUME NEW p \in Proc, GuardKey(p) \/ GuardCert(p) \/ StatKey(p) \/ StatCert(p)
      PROVE  Missing'
  BY <1>2 DEF GuardKey, GuardCert, StatKey, StatCert
<1>3. ASSUME NEW p \in Proc, RemoveKey(p) \/ RemoveCert(p) PROVE Missing'
  BY <1>3 DEF RemoveKey, RemoveCert
<1>4. ASSUME NEW p \in Proc, LoadKey(p) \/ LoadCert(p) \/ Generate(p) \/ CreateIntermediate(p) \/ Stop(p)
      PROVE  Missing'
  BY <1>4 DEF LoadKey, LoadCert, Generate, CreateIntermediate, Stop
<1>5. ASSUME NEW p \in Proc, TruncateKey(p) \/ WriteKey(p) \/ TruncateCert(p) \/ WriteCert(p)
      PROVE  Missing'
  BY <1>5 DEF TruncateKey, WriteKey, TruncateCert, WriteCert
<1> QED
  BY <1>0, <1>1, <1>2, <1>3, <1>4, <1>5 DEF Next, Step, NewSelfSignedCA

\* The invariant of the refinement.
LEMMA RInvAlways ==
  ASSUME Serialised
  PROVE  Spec => []RInv
<1>1. Init => RInv
  BY SInvInit DEF Init, RInv, Missing
<1>2. RInv /\ [Next]_vars => RInv'
  BY SInvStep, MissingStep DEF RInv
<1> QED
  BY <1>1, <1>2, PTL DEF Spec

\* A process that was not up and does not come up changes nobody's root.
LEMMA ServingKept ==
  ASSUME TypeOK, NEW p \in Proc, NEW l, pc[p] # "up", l # "up", Goto(p, l),
         \A q \in Proc : q # p => rootCert'[q] = rootCert[q]
  PROVE  Serving' = Serving
BY DEF TypeOK, Goto, Serving

\* Files that stay as they are mean the same, unless a writer is gone.
LEMMA StoredKept ==
  ASSUME UNCHANGED disk, Writing' <=> Writing
  PROVE  Stored' = Stored
BY DEF Stored, SoundPair, Wedged, disk

\* Calls that neither write nor end a write leave the register alone.
LEMMA ReadsStutter ==
  ASSUME TypeOK, NEW p \in Proc, NEW l, Goto(p, l), UNCHANGED disk,
         pc[p] \notin {"up", "writeKey", "truncCert", "writeCert"},
         l \notin {"up", "writeKey", "truncCert", "writeCert"},
         \A q \in Proc : q # p => rootCert'[q] = rootCert[q]
  PROVE  UNCHANGED <<Stored, Serving>>
<1>1. Writing' <=> Writing
  BY DEF Writing, Goto, TypeOK
<1> QED
  BY <1>1, StoredKept, ServingKept

\* Every call of a process is a step of the register or changes nothing there.
LEMMA RegisterStep ==
  ASSUME RInv, [Next]_vars
  PROVE  [Register!Next]_(Register!vars)
<1> DEFINE Stutter == UNCHANGED <<Stored, Serving>>
<1>a. TypeOK /\ SInv
  BY DEF RInv, SInv, LInv
<1> USE <1>a, FileAssumption
<1>0. CASE UNCHANGED vars
  <2>1. Writing' <=> Writing
    BY <1>0 DEF vars, Writing
  <2>2. Serving' = Serving
    BY <1>0 DEF vars, Serving
  <2>3. Licence' = Licence
    BY <1>0 DEF vars, Licence
  <2> QED
    BY <1>0, <2>1, <2>2, <2>3, StoredKept DEF vars, disk, Register!vars
<1>1. ASSUME NEW p \in Proc, StartServer(p) \/ StartRotate(p) \/ StartInit(p) \/ StartForce(p)
      PROVE  Stutter
  <2>1. PICK l \in {"statKey", "guardKey", "rmKey"} : Goto(p, l) /\ pc[p] = "off" /\ UNCHANGED <<disk, memory>>
    BY <1>1 DEF StartServer, StartRotate, StartInit, StartForce, Begin
  <2> QED
    BY <2>1, ReadsStutter DEF memory
<1>2. ASSUME NEW p \in Proc, GuardKey(p) \/ GuardCert(p) \/ StatKey(p) \/ StatCert(p) \/ LoadKey(p)
      PROVE  Stutter
  <2>1. PICK l \in {"guardCert", "off", "statKey", "generate", "statCert", "loadKey", "loadCert"} : Goto(p, l)
    BY <1>2 DEF GuardKey, GuardCert, StatKey, StatCert, Stat, LoadKey
  <2>2. pc[p] \in {"guardKey", "guardCert", "statKey", "statCert", "loadKey"}
        /\ UNCHANGED <<disk, rootCert>>
    BY <1>2 DEF GuardKey, GuardCert, StatKey, StatCert, LoadKey, memory
  <2> QED
    BY <2>1, <2>2, ReadsStutter
<1>3. ASSUME NEW p \in Proc, LoadCert(p) \/ Generate(p) PROVE Stutter
  <2>1. PICK l \in {"intermediate", "off", "truncKey"} : Goto(p, l)
    BY <1>3 DEF LoadCert, Generate
  <2>2. pc[p] \in {"loadCert", "generate"} /\ UNCHANGED disk
    BY <1>3 DEF LoadCert, Generate
  <2>3. \A q \in Proc : q # p => rootCert'[q] = rootCert[q]
    BY <1>3 DEF LoadCert, Generate, TypeOK
  <2> QED
    BY <2>1, <2>2, <2>3, ReadsStutter
<1>4. ASSUME NEW p \in Proc, RemoveKey(p) \/ RemoveCert(p)
      PROVE  Stutter \/ Register!Discard
  <2>1. PICK l \in {"rmCert", "statKey"} : Goto(p, l)
    BY <1>4 DEF RemoveKey, RemoveCert
  <2>2. pc[p] \in {"rmKey", "rmCert"} /\ UNCHANGED rootCert
    BY <1>4 DEF RemoveKey, RemoveCert, memory
  <2>3. Serving' = Serving
    BY <2>1, <2>2, ServingKept
  <2>4. ~Writing /\ ~Writing'
    BY <2>1, <2>2 DEF SInv, OneStarter, Idle, TypeOK, Writing, Goto
  <2>5. Stored' = Stored \/ (Stored # Absent /\ Stored' = Absent)
    BY <1>4, <2>4 DEF RemoveKey, RemoveCert, Stored, SoundPair, Wedged, TypeOK, File
  <2>6. Licence
    BY <2>2 DEF Licence, SInv, DiskOK, Idle
  <2> QED
    BY <2>3, <2>5, <2>6 DEF Register!Discard
<1>5. ASSUME NEW p \in Proc, TruncateKey(p) \/ WriteKey(p) \/ TruncateCert(p)
      PROVE  Stutter \/ Register!Discard
  <2>1. PICK l \in {"writeKey", "truncCert", "writeCert"} : Goto(p, l)
    BY <1>5 DEF TruncateKey, WriteKey, TruncateCert
  <2>2. pc[p] \in Saving /\ UNCHANGED rootCert
    BY <1>5 DEF TruncateKey, WriteKey, TruncateCert, memory, Saving
  <2>3. Serving' = Serving
    BY <2>1, <2>2, ServingKept DEF Saving
  <2>4. Writing'
    BY <2>1 DEF Writing, Goto, TypeOK
  <2>5. Stored = Absent \/ p \in missed
    BY <1>5, <2>2 DEF TruncateKey, WriteKey, TruncateCert, RInv, Missing, SInv, DiskOK, Stored,
                Wedged, Writing
  <2>7. p \in missed => Licence
    BY <2>2 DEF Licence, Saving, Idle
  <2>6. ~SoundPair'
    BY <1>5, <2>2 DEF TruncateKey, WriteKey, TruncateCert, SInv, DiskOK, SoundPair, Saving
  <2> QED
    BY <2>3, <2>4, <2>5, <2>6, <2>7 DEF Stored, Register!Discard
<1>6. ASSUME NEW p \in Proc, WriteCert(p)
      PROVE  \E r \in Root : Register!Write(r)
  <2>1. Goto(p, "intermediate") /\ pc[p] = "writeCert" /\ UNCHANGED rootCert
    BY <1>6 DEF WriteCert, memory
  <2>2. Serving' = Serving
    BY <2>1, ServingKept
  <2>3. Stored = Absent
    BY <2>1 DEF SInv, DiskOK, Saving, Stored, Writing
  <2>4. rootKey[p] \in Root /\ Stored' = rootKey[p]
    BY <1>6, <2>1 DEF WriteCert, SInv, LInv, LocalOK, DiskOK, Saving, Stored, SoundPair
  <2> QED
    BY <2>2, <2>3, <2>4 DEF Register!Write
<1>7. ASSUME NEW p \in Proc, CreateIntermediate(p)
      PROVE  Stutter \/ Register!Up(p)
  <2>1. pc[p] = "intermediate" /\ UNCHANGED <<disk, memory>>
    BY <1>7 DEF CreateIntermediate
  <2>2. CASE Goto(p, "off")
    BY <2>1, <2>2, ReadsStutter DEF memory
  <2>3. CASE ParentMatches(p) /\ Goto(p, "up")
    <3>1. Stored' = Stored
      <4>1. Writing' <=> Writing
        BY <2>1, <2>3 DEF Writing, Goto, TypeOK
      <4> QED
        BY <2>1, <4>1, StoredKept
    <3>2. Stored = rootCert[p] /\ Stored \in Root
      BY <2>1, <2>3 DEF ParentMatches, SInv, LInv, LocalOK, DiskOK, Stored, SoundPair
    <3>3. Serving[p] = Absent /\ Serving' = [Serving EXCEPT ![p] = rootCert[p]]
      BY <2>1, <2>3 DEF Serving, Goto, TypeOK, memory
    <3> QED
      BY <3>1, <3>2, <3>3 DEF Register!Up
  <2> QED
    BY <1>7, <2>2, <2>3 DEF CreateIntermediate
<1>8. ASSUME NEW p \in Proc, Stop(p)
      PROVE  Stutter \/ Register!Spoil \/ Register!Down(p)
  <2>1. Goto(p, "off") /\ UNCHANGED <<disk, memory>>
    BY <1>8 DEF Stop
  <2>2. CASE pc[p] = "up"
    <3>1. Writing' <=> Writing
      BY <2>1, <2>2 DEF Writing, Goto, TypeOK
    <3>2. Serving' = [Serving EXCEPT ![p] = Absent]
      BY <2>1 DEF Serving, Goto, TypeOK, memory
    <3> QED
      BY <2>1, <3>1, <3>2, StoredKept DEF Register!Down
  <2>3. CASE pc[p] \in {"writeKey", "truncCert", "writeCert"}
    <3>1. Serving' = Serving
      BY <2>1, <2>3, ServingKept DEF memory
    <3>2. Stored = Absent
      BY <2>3 DEF SInv, DiskOK, Saving, Stored, Writing
    <3>3. Stored' \in {Absent, Torn}
      BY <2>1, <2>3 DEF SInv, DiskOK, Saving, Stored, SoundPair, disk
    <3> QED
      BY <3>1, <3>2, <3>3 DEF Register!Spoil
  <2>4. CASE pc[p] \notin {"up", "writeKey", "truncCert", "writeCert"}
    BY <2>1, <2>4, ReadsStutter DEF memory
  <2> QED
    BY <2>2, <2>3, <2>4
<1>9. Licence' \in BOOLEAN
  BY DEF Licence
<1>10. CASE Next
  <2>1. \/ Stutter \/ Register!Spoil \/ Register!Discard
        \/ \E r \in Root : Register!Write(r)
        \/ \E p \in Proc : Register!Up(p) \/ Register!Down(p)
    BY <1>10, <1>1, <1>2, <1>3, <1>4, <1>5, <1>6, <1>7, <1>8 DEF Next, Step, NewSelfSignedCA
  <2> QED
    BY <1>9, <2>1 DEF Register!Next
<1> QED
  BY <1>0, <1>10

\* With commands one at a time, through any kills, the two files implement the register
\* of RootRegister: written where there is nothing, emptied by a --force or by a run that
\* missed a file only, and served as it is stored by every server that comes up.
THEOREM ImplementsRegister ==
  ASSUME Serialised
  PROVE  Spec => IsRegister
<1>1. Init => Register!Init
  BY FileAssumption DEF Init, Register!Init, Stored, Serving, SoundPair, Wedged, Licence, Idle
<1>2. RInv /\ [Next]_vars => [Register!Next]_(Register!vars)
  BY RegisterStep
<1> QED
  BY <1>1, <1>2, RInvAlways, PTL DEF Spec, IsRegister, Register!Spec
=============================================================================
