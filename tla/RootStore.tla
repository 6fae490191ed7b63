----------------------------- MODULE RootStore -----------------------------
(***************************************************************************)
(* The root of trust on disk: the two files root_key_path and              *)
(* root_cert_path, and the commands that read and write them.  `server     *)
(* start', `ca init [--force]' and `ca rotate' all run NewSelfSignedCA     *)
(* (internal/ca/self_signed.go), which loads the pair when both files      *)
(* exist and otherwise generates a pair and saves the key, then the        *)
(* certificate, each with os.WriteFile: open-and-truncate, then write.     *)
(* A process may stop between any two file system calls.  Every error of   *)
(* os.Stat reads as "there is no such file", and every error of os.Remove  *)
(* is dropped.                                                             *)
(*                                                                         *)
(* A root is named by its key pair.  A file is Absent, Torn (it exists but *)
(* holds no whole PEM block) or the root whose key or certificate it holds.*)
(***************************************************************************)
EXTENDS Naturals, FiniteSets

CONSTANTS
  Root,        \* key pairs that generateECKey can return
  Absent,      \* the file does not exist
  Torn,        \* the file exists and holds no whole PEM block
  Proc,        \* slots for svidmint processes on this host or volume
  Serialised,  \* TRUE: the operator starts a command only when no other is starting
  MaxForces,   \* bound: runs of `ca init --force'
  MaxClis,     \* bound: runs of `ca init' without --force and of `ca rotate'
  MaxStops,    \* bound: processes killed, or given up on an I/O error
  MaxMisses    \* bound: calls of os.Stat that fail on a file that is there

ASSUME SerialisedAssumption == Serialised \in BOOLEAN
ASSUME FileAssumption == Absent \notin Root /\ Torn \notin Root /\ Absent # Torn
ASSUME BoundAssumption ==
  MaxForces \in Nat /\ MaxClis \in Nat /\ MaxStops \in Nat /\ MaxMisses \in Nat

VARIABLES
  keyFile, certFile,  \* contents of the two files
  pc,                 \* pc[p]: the next call process p makes
  cmd,                \* cmd[p]: the command p runs
  rootKey, rootCert,  \* SelfSignedCA.rootKey and .rootCert of each process
  orphaned,           \* processes whose open file has been unlinked meanwhile
  used,               \* roots generated so far (fresh keys never repeat)
  served,             \* history: roots of the servers that came up
  missed,             \* history: processes that took a file that is there for absent
  forces, clis, stops, misses \* counters behind the bounds

vars == <<keyFile, certFile, pc, cmd, rootKey, rootCert, orphaned, used, served,
          missed, forces, clis, stops, misses>>

disk == <<keyFile, certFile>>
memory == <<rootKey, rootCert, used>>
counters == <<forces, clis, stops>>
stats == <<missed, misses>>

File == Root \cup {Absent, Torn}
Command == {"server", "init", "force", "rotate"}
Idle == {"off", "up"}
PC == Idle \cup {"guardKey", "guardCert", "rmKey", "rmCert", "statKey", "statCert",
                 "loadKey", "loadCert", "generate", "truncKey", "writeKey",
                 "truncCert", "writeCert", "intermediate"}

\* Both files are whole and belong together.
SoundPair == keyFile \in Root /\ certFile = keyFile

Init ==
  /\ keyFile = Absent /\ certFile = Absent
  /\ pc = [p \in Proc |-> "off"]
  /\ cmd = [p \in Proc |-> "server"]
  /\ rootKey = [p \in Proc |-> Absent]
  /\ rootCert = [p \in Proc |-> Absent]
  /\ orphaned = {}
  /\ used = {} /\ served = {}
  /\ missed = {}
  /\ forces = 0 /\ clis = 0 /\ stops = 0 /\ misses = 0

Goto(p, l) == pc' = [pc EXCEPT ![p] = l]

-----------------------------------------------------------------------------
(* Commands                                                                *)

\* An operator, or the orchestrator, starts command c in slot p.
Begin(p, c, first) ==
  /\ pc[p] = "off"
  /\ Serialised => \A q \in Proc : pc[q] \in Idle
  /\ cmd' = [cmd EXCEPT ![p] = c]
  /\ Goto(p, first)
  /\ missed' = missed \ {p}
  /\ UNCHANGED <<disk, memory, orphaned, served, stops, misses>>

StartServer(p) == Begin(p, "server", "statKey") /\ UNCHANGED <<forces, clis>>

StartRotate(p) ==
  /\ clis < MaxClis
  /\ Begin(p, "rotate", "statKey")
  /\ clis' = clis + 1 /\ UNCHANGED forces

\* Mutant: the --force branch is taken without the flag.
StartInitAlwaysForces(p) ==
  /\ clis < MaxClis
  /\ Begin(p, "init", "rmKey")
  /\ clis' = clis + 1 /\ UNCHANGED forces

StartInit(p) ==
  /\ clis < MaxClis
  /\ Begin(p, "init", "guardKey")
  /\ clis' = clis + 1 /\ UNCHANGED forces

StartForce(p) ==
  /\ forces < MaxForces
  /\ Begin(p, "force", "rmKey")
  /\ forces' = forces + 1 /\ UNCHANGED clis

\* os.Stat: only err == nil counts as "there".  A file that is there is found, or the
\* call fails for a reason of its own (EIO, ESTALE, a permission), and p takes the file
\* for absent.
Stat(p, file, found, absent) ==
  \/ file # Absent /\ Goto(p, found) /\ UNCHANGED stats
  \/ file = Absent /\ Goto(p, absent) /\ UNCHANGED stats
  \/ /\ file # Absent /\ misses < MaxMisses
     /\ Goto(p, absent)
     /\ missed' = missed \cup {p} /\ misses' = misses + 1

\* `ca init' without --force refuses when either file is there.
GuardKey(p) ==
  /\ pc[p] = "guardKey"
  /\ Stat(p, keyFile, "off", "guardCert")
  /\ UNCHANGED <<disk, cmd, memory, orphaned, served, counters>>

GuardCert(p) ==
  /\ pc[p] = "guardCert"
  /\ Stat(p, certFile, "off", "statKey")
  /\ UNCHANGED <<disk, cmd, memory, orphaned, served, counters>>

\* `ca init --force' removes both files; the errors of os.Remove are dropped.  Whoever
\* has the file open for writing goes on writing to a file that no path leads to.
RemoveKey(p) ==
  /\ pc[p] = "rmKey"
  /\ \/ keyFile' = Absent /\ orphaned' = orphaned \cup {q \in Proc : pc[q] = "writeKey"}
     \/ UNCHANGED <<keyFile, orphaned>>
  /\ Goto(p, "rmCert")
  /\ UNCHANGED <<certFile, cmd, memory, served, stats, counters>>

RemoveCert(p) ==
  /\ pc[p] = "rmCert"
  /\ \/ certFile' = Absent /\ orphaned' = orphaned \cup {q \in Proc : pc[q] = "writeCert"}
     \/ UNCHANGED <<certFile, orphaned>>
  /\ Goto(p, "statKey")
  /\ UNCHANGED <<keyFile, cmd, memory, served, stats, counters>>

-----------------------------------------------------------------------------
(* NewSelfSignedCA                                                         *)

\* Mutant: fileExists(RootKeyPath) || fileExists(RootCertPath).
StatKeyOr(p) ==
  /\ pc[p] = "statKey"
  /\ Goto(p, IF keyFile = Absent /\ certFile = Absent THEN "generate" ELSE "loadKey")
  /\ UNCHANGED <<disk, cmd, memory, orphaned, served, stats, counters>>

\* fileExists(RootKeyPath) && fileExists(RootCertPath)
StatKey(p) ==
  /\ pc[p] = "statKey"
  /\ Stat(p, keyFile, "statCert", "generate")
  /\ UNCHANGED <<disk, cmd, memory, orphaned, served, counters>>

\* Mutant: the certificate's presence is not asked for.
StatCertSkipped(p) ==
  /\ pc[p] = "statCert"
  /\ Goto(p, "loadKey")
  /\ UNCHANGED <<disk, cmd, memory, orphaned, served, stats, counters>>

\* Mutant: `ca rotate' regenerates the root instead of the intermediate.
StatCertRotatesRoot(p) ==
  /\ pc[p] = "statCert"
  /\ Stat(p, certFile, IF cmd[p] = "rotate" THEN "generate" ELSE "loadKey", "generate")
  /\ UNCHANGED <<disk, cmd, memory, orphaned, served, counters>>

StatCert(p) ==
  /\ pc[p] = "statCert"
  /\ Stat(p, certFile, "loadKey", "generate")
  /\ UNCHANGED <<disk, cmd, memory, orphaned, served, counters>>

\* Mutant: whatever the key file holds is taken for a key.
LoadKeyUnchecked(p) ==
  /\ pc[p] = "loadKey"
  /\ rootKey' = [rootKey EXCEPT ![p] = keyFile]
  /\ Goto(p, "loadCert")
  /\ UNCHANGED <<disk, cmd, rootCert, orphaned, used, served, stats, counters>>

\* loadKey and loadCert fail on a file that is gone or holds no PEM block.
LoadKey(p) ==
  /\ pc[p] = "loadKey"
  /\ IF keyFile \in Root
     THEN rootKey' = [rootKey EXCEPT ![p] = keyFile] /\ Goto(p, "loadCert")
     ELSE Goto(p, "off") /\ UNCHANGED rootKey
  /\ UNCHANGED <<disk, cmd, rootCert, orphaned, used, served, stats, counters>>

LoadCert(p) ==
  /\ pc[p] = "loadCert"
  /\ IF certFile \in Root
     THEN rootCert' = [rootCert EXCEPT ![p] = certFile] /\ Goto(p, "intermediate")
     ELSE Goto(p, "off") /\ UNCHANGED rootCert
  /\ UNCHANGED <<disk, cmd, rootKey, orphaned, used, served, stats, counters>>

\* A key nobody generated before; keys are interchangeable, so one stands for all.
FreshRoot == CHOOSE r \in Root : r \notin used

\* Mutant: the generated pair is not saved.
GenerateUnsaved(p) ==
  /\ pc[p] = "generate"
  /\ Root \ used # {}
  /\ rootKey' = [rootKey EXCEPT ![p] = FreshRoot]
  /\ rootCert' = [rootCert EXCEPT ![p] = FreshRoot]
  /\ used' = used \cup {FreshRoot}
  /\ Goto(p, "intermediate")
  /\ UNCHANGED <<disk, cmd, orphaned, served, stats, counters>>

\* generateECKey and createRootCert
Generate(p) ==
  /\ pc[p] = "generate"
  /\ Root \ used # {}
  /\ rootKey' = [rootKey EXCEPT ![p] = FreshRoot]
  /\ rootCert' = [rootCert EXCEPT ![p] = FreshRoot]
  /\ used' = used \cup {FreshRoot}
  /\ Goto(p, "truncKey")
  /\ UNCHANGED <<disk, cmd, orphaned, served, stats, counters>>

\* saveKey, then saveCert: os.WriteFile opens and truncates the file at the path, then
\* writes to the file it opened, wherever the path leads by then, and closes it.
TruncateKey(p) ==
  /\ pc[p] = "truncKey"
  /\ keyFile' = Torn
  /\ Goto(p, "writeKey")
  /\ UNCHANGED <<certFile, cmd, memory, orphaned, served, stats, counters>>

WriteKey(p) ==
  /\ pc[p] = "writeKey"
  /\ keyFile' = IF p \in orphaned THEN keyFile ELSE rootKey[p]
  /\ orphaned' = orphaned \ {p}
  /\ Goto(p, "truncCert")
  /\ UNCHANGED <<certFile, cmd, memory, served, stats, counters>>

TruncateCert(p) ==
  /\ pc[p] = "truncCert"
  /\ certFile' = Torn
  /\ Goto(p, "writeCert")
  /\ UNCHANGED <<keyFile, cmd, memory, orphaned, served, stats, counters>>

WriteCert(p) ==
  /\ pc[p] = "writeCert"
  /\ certFile' = IF p \in orphaned THEN certFile ELSE rootCert[p]
  /\ orphaned' = orphaned \ {p}
  /\ Goto(p, "intermediate")
  /\ UNCHANGED <<keyFile, cmd, memory, served, stats, counters>>

\* createIntermediateCert: x509.CreateCertificate refuses a parent certificate
\* that is not the signing key's.
ParentMatches(p) == rootKey[p] = rootCert[p]

\* The intermediate is signed: a server is up, a CLI command is done and drops
\* the CA it built.
CreateIntermediate(p) ==
  /\ pc[p] = "intermediate"
  /\ IF ParentMatches(p) /\ cmd[p] = "server"
     THEN Goto(p, "up") /\ served' = served \cup {rootCert[p]}
     ELSE Goto(p, "off") /\ UNCHANGED served
  /\ UNCHANGED <<disk, cmd, memory, orphaned, stats, counters>>

\* The process is killed, or returns the error of a call that fails: reading, opening
\* or writing a file.
Stop(p) ==
  /\ pc[p] # "off"
  /\ stops < MaxStops
  /\ Goto(p, "off")
  /\ stops' = stops + 1
  /\ orphaned' = orphaned \ {p}
  /\ UNCHANGED <<disk, cmd, memory, served, stats, forces, clis>>

-----------------------------------------------------------------------------
NewSelfSignedCA(p) ==
  \/ StatKey(p) \/ StatCert(p) \/ LoadKey(p) \/ LoadCert(p) \/ Generate(p)
  \/ TruncateKey(p) \/ WriteKey(p) \/ TruncateCert(p) \/ WriteCert(p)
  \/ CreateIntermediate(p)

Step(p) ==
  \/ GuardKey(p) \/ GuardCert(p) \/ RemoveKey(p) \/ RemoveCert(p)
  \/ NewSelfSignedCA(p)

Next == \E p \in Proc :
  \/ StartServer(p) \/ StartRotate(p) \/ StartInit(p) \/ StartForce(p)
  \/ Step(p) \/ Stop(p)

Spec == Init /\ [][Next]_vars

\* Every started process keeps running until it ends or is stopped, and the
\* orchestrator restarts the server while none is up (a Deployment's pods).
Fairness ==
  /\ \A p \in Proc : WF_vars(Step(p))
  /\ WF_vars(\E p \in Proc : StartServer(p) /\ \A q \in Proc : pc[q] # "up")

FairSpec == Spec /\ Fairness

-----------------------------------------------------------------------------
(* Properties                                                              *)

\* Types: a process only ever holds whole keys and certificates in memory, never the
\* contents of a torn file.
TypeOK ==
  /\ keyFile \in File /\ certFile \in File
  /\ pc \in [Proc -> PC]
  /\ cmd \in [Proc -> Command]
  /\ rootKey \in [Proc -> Root \cup {Absent}]
  /\ rootCert \in [Proc -> Root \cup {Absent}]
  /\ orphaned \subseteq Proc
  /\ used \subseteq Root /\ served \subseteq Root
  /\ missed \subseteq Proc
  /\ forces \in Nat /\ clis \in Nat /\ stops \in Nat /\ misses \in Nat

\* Relying parties pin the root.  Over any sequence of starts, kills, `ca init'
\* and `ca rotate', the servers that come up use at most one root, and one more for
\* each `ca init --force' and each os.Stat that failed on a file that was there: no
\* crash and no restart mints a new trust domain by itself.
RootContinuity == Cardinality(served) <= forces + misses + 1

\* A whole pair on disk is destroyed by the removals of `ca init --force', or by a
\* process that could not stat one of its files, and in no other way: no crash, no
\* restart or rotation that finds the files and no refused init touches it.
SoundPairKept ==
  [][SoundPair /\ disk' # disk
       => \E p \in Proc :
            \/ cmd[p] = "force" /\ pc[p] \in {"rmKey", "rmCert"}
            \/ p \in missed /\ pc[p] = "truncKey"]_vars

\* Files that both exist and cannot be loaded: every later start fails on them.
Wedged ==
  /\ keyFile # Absent /\ certFile # Absent /\ ~SoundPair

\* Restarted after every kill, a server ends up serving for good, or the files
\* are wedged for good: no third outcome, such as starting over forever.
Settles == <>[](\E p \in Proc : pc[p] = "up") \/ <>[]Wedged

\* Processes may overlap in any way: when they are all done and none of them
\* was killed, the files are both there or both absent, and neither is torn.
WholeWhenQuiet ==
  stops = 0 /\ (\A p \in Proc : pc[p] \in Idle)
    => (keyFile \in Root /\ certFile \in Root) \/ (keyFile = Absent /\ certFile = Absent)

\* What NewSelfSignedCA's comment promises of a server that is up: its root is
\* the one on disk (loaded from there, or generated and persisted), as long as
\* nobody ran `ca init --force', every os.Stat told the truth and no command is under
\* way.
RootPersisted ==
  forces = 0 /\ misses = 0 /\ (\A p \in Proc : pc[p] \in Idle) =>
    \A p \in Proc : pc[p] = "up" => keyFile = rootKey[p] /\ certFile = rootCert[p]

-----------------------------------------------------------------------------
(* The register that the two files implement                               *)

\* A process is between the first and the last write of a new pair.
Writing == \E p \in Proc : pc[p] \in {"writeKey", "truncCert", "writeCert"}

\* A pair under construction does not count until it is whole.
Stored ==
  IF SoundPair THEN keyFile ELSE IF Wedged /\ ~Writing THEN Torn ELSE Absent

Serving == [p \in Proc |-> IF pc[p] = "up" THEN rootCert[p] ELSE Absent]

\* A run is under way that may discard what is stored: the operator said --force, or
\* the run took a file that is there for absent.
Licence == \E p \in Proc : pc[p] \notin Idle /\ (cmd[p] = "force" \/ p \in missed)

Register == INSTANCE RootRegister WITH
  Empty <- Absent, Spoilt <- Torn, stored <- Stored, serving <- Serving, licence <- Licence

\* With commands one at a time, the two files that are read, removed, truncated and
\* written one call after the other, and the processes killed in between, behave as
\* one register: written where there is nothing, emptied under a licence only, and a
\* server that comes up serves what is stored at that very moment.
IsRegister == Register!Spec
=============================================================================
