# svidmint: TLA+ models and proofs

This directory holds TLA+ models of svidmint's core, TLC configurations that
check them on small instances and TLAPS proofs for every instance. The source is
the reference; `PROJECT.json` maps each definition to the lines it stands for.

- `tlc -config <X>.cfg <module>` checks a run (the table below names the module).
- `tlapm <M>_proofs.tla` checks the proofs of module `M`.

## 1. The system

svidmint turns a credential of a serverless platform (AWS STS request, Cloudflare
Access, GitHub or Deno OIDC token) into a SPIFFE identity document (SVID).

| Component | State | Operations | Interacts with |
|---|---|---|---|
| Root of trust (`internal/ca/self_signed.go`, `internal/cli/ca.go`) | two files: root key, root certificate; the CA object in each process | load or generate at `server start`, `ca init [--force]`, `ca rotate` | every process on the same host or volume, through the files only |
| CA (`internal/ca/self_signed.go`) | intermediate and JWT key, fresh in each process and never renewed; TTL limits | `SignX509SVID`, `SignJWTSVID`, `ValidateX509SVID`, `ValidateJWTSVID`, `computeTTL` | called by the API |
| Entry store (`internal/entry`) | table of registration entries (SQLite; JSON file and Postgres exist, unused) | Create, Get, Update, Delete, Match | server and `entry` commands share the database |
| `entry` commands (`internal/cli/entry.go`) | the row between the read and the write of `update` | create, list, show, update, delete | the store |
| Attest API (`internal/server/attest.go`) | one handler goroutine per request | evidence → claims → entry → SVID | registry, store, CA |
| Validate API (`internal/server/validate.go`) | none | verdict on an SVID | CA |
| Attestors (`internal/attestor`) | key caches of Cloudflare (RWMutex) and GitHub (Mutex) | `Attest`, `fetchJWKS` | the platforms' JWKS endpoints, STS |
| Process (`internal/cli/server.go`, `internal/server/server.go`) | CA, store, listener | start, preload, serve, shut down | all of the above |
| Federation (`internal/ca/federation.go`) | fetched bundles | Fetch, Start | started by no command |
| SDKs (`sdk/go`, `sdk/typescript`) | `X509Source`: SVID, bundle, refresh goroutine | refresh, Close | the API |

What is hard here: crashes between two file system calls and processes that share
files without a lock; the read-modify-write of `entry update` against other
commands and against requests under way; key caches with concurrent fetches while
the platform rotates keys; durations that wrap; and credentials, SVIDs and
intermediates that expire independently of each other; two goroutines that share a
pointer while a signal arrives; and a client that renews its identity against a
server that fails, hangs or changes its root. `PROJECT.json` lists each hazard at its
line.

Correct means, per component:

- root: relying parties pin it, so it changes only when the operator asks; what is
  served is what is stored; a crash does not lose it;
- CA: lifetimes within the limits; what it issues verifies until it expires;
- store: one row per ID, no resurrection of deleted entries, no lost edits;
- matching: the most specific entry the workload is entitled to, whatever the row
  order;
- attest: nothing from an entry that was deleted before the request came;
- attestors: bounded age of the keys used, no blocked mutex;
- process: ends when told to, loses no request on the way, and does not stay without
  serving;
- SDK source: renews in time, follows the root, does not flood a failing server, and
  stops when closed.

## 2. Modules

| Module | Models | Extends |
|---|---|---|
| `RootStore` | the two files and the processes that read and write them | instance of `RootRegister` |
| `RootRegister` | abstract: what the root of trust promises | |
| `Ttl` | `computeTTL` and the handler's default, with w-bit wrap-around | |
| `Matching` | selectors, the loop's comparison, and the reference definition of the right entry | |
| `MatchEntries` | the loop over the rows in any order | `Matching` |
| `EntryStore` | the SQLite table, the `entry` commands, the preload | |
| `JwksCache` | how the Cloudflare, GitHub and Deno attestors obtain and use keys | |
| `Lifecycle` | the server process from start to end: two goroutines, handlers, signals | |
| `X509Source` | the Go SDK's source: refresh goroutine, readers, Close | |
| `IdentityApi` | server process, attest and validate handlers, CA, clock | `EntryStore`, `Matching`, `Ttl` |
| `*_proofs` | the theorems of a module | the module, `TLAPS` |
| `MC*` | instances for TLC | the module |

Definitions whose comment begins with "Mutant" are plausible mistakes in the code
(a dropped guard, an upsert for an update, a lock released early). No next-state
relation uses them; `PROJECT.json` pairs each with the property it breaks.

### RootStore

A root is named by its key pair. A file is `Absent`, `Torn` (it exists and holds
no whole PEM block) or a root. `pc[p]` is the next file system call of process
`p`; one action is one call: the two `os.Stat` of `ca init`'s guard, the two
`os.Remove` of `--force` (whose errors are dropped: the file may stay), the two
`fileExists`, `loadKey`, `loadCert`, key generation, and truncate and write of
each file. `Stat` is what the code makes of `os.Stat`: only `err == nil` counts as
"there", so a call that fails on a file that is there (`misses`) sends the process
(`missed`) on as if the file were absent, past the guard of `ca init` or to generate
a pair over the one on disk. A write goes to the file that was opened: when `--force`
has unlinked it meanwhile (`orphaned`), nothing appears at the path.
`CreateIntermediate` fails when key and certificate do not belong together, because
`x509.CreateCertificate` checks the parent (external). `Stop` is a kill, or an error
that the code returns, between any two calls. `Serialised` says whether the operator
starts a command only when no other one is starting.

`RootRegister` says what this is for: one register, written where there is nothing,
emptied under a licence only, and every server that comes up serves what is stored at
that moment. The refinement mapping (`Stored`, `Serving`, `Licence`) reads a sound pair
as its root, a pair under construction as nothing yet, a pair that cannot be loaded as
`Spoilt`, and a run of `--force` or of a process that missed a file as the licence. A
step of the two files that does not change what they mean is a stutter.

### Ttl, Matching, MatchEntries

`Ttl` keeps the width: `Seconds(n)` wraps at `2 * WordHalf`. `computeTTL` and its
callers are operators. `Matching` represents a selector by its key and the set of
values its glob matches; `IsAnswer` is the reference (from the comment on
`MatchEntries`), `allSelectorsMatch` and `Replaces` are the code. `MatchEntries`
visits the rows one by one in any order.

### EntryStore

An SQL statement is one action. `entry update` is two (`EntryUpdateGet`,
`EntryUpdatePut`; `EntryUpdateFails` when it ends in between), so other commands
come between them. The preload is one `Create` per entry of the file. `deleted`,
`stale` and `intent` are histories the properties use: IDs deleted and not created
again; IDs last written by an update that had read an older row; what the commands
that succeeded asked each entry to be.

### JwksCache

The platform publishes and retires keys at any time. A request looks its keys up,
on a miss it fetches: the endpoint answers with the keys of some moment (`Serve`)
and the answer arrives later or never. Cloudflare's lookups and stores are
separate critical sections, so fetches race; GitHub's mutex is held from the
lookup to the end of the fetch; Deno fetches always. The clients of Cloudflare and
Deno time out, GitHub's does not. Local computation takes no time; in particular
a body that has been read is stored at once.

### IdentityApi

A request goes through `Receive` (decode and checks, 400), `RegistryAttest` (401),
for AWS the wait for STS (`StsAnswers`, `StsFails`), `StoreMatch` or
`StoreMatchFails` (403), `Sign` (200 or 500). `StoreMatch` takes
the answer that `MatchEntries` is proved to return. Between any two of these steps
entries change, time passes or the server is killed. `BootBegin` makes the
intermediate (valid for `SigningTTL` from then on, never renewed) and opens the
store; `BootLoad` preloads an entry; `BootEnd` starts to serve. An incarnation of the
server is numbered by `loads`, and so is its JWT key. The root does not change
here (RootStore says when that is so), and ends at `RootEnd`, ten years after it was
generated. A credential in `Evidence` is `genuine` when the platform stands for it: its
signature, which the attestors of the JWT kind check themselves (`TokenVerified`, with
the expiry; `JwksCache` is about the keys they use) and STS checks for AWS. The AWS
attestor checks the date of the signed request (`AwsTimely`), passes it on to STS, which
refuses one that is not genuine, and checks the account of the answer
(`AccountAllowed`). Histories: `req[q].at` is when request `q` came, `barred[q]` the IDs
that were deleted then and have not been created since.

### Lifecycle

`main` is where `runServerStart` is from its `select` on, `serve` where the goroutine
of `Server.Start` is; `server` is the pointer `s.server` that the one writes and
`Shutdown` reads in the other. `errCh` is the channel of one error. `Shutdown` closes
the listener and waits (`Drained`) for the handlers, without a deadline; it does
nothing when `s.server` is not set yet. `Return` is the deferred `store.Close()`,
`Exit` the end of `main`, which cuts off what still runs. A handler matches, answers,
or hangs until its client leaves: in a fetch without timeout, or in reading a request
body that the client does not finish (`attest.go:37`; the server sets no
`ReadTimeout`). Only the first signal is
an action: `signal.NotifyContext` catches the later ones and nobody looks at them.

### X509Source

`pc` is where `NewX509Source`, and after it `refreshLoop`, is. A refresh is two calls
and one store under the lock. A call is two steps, as its answer travels: the server
signs or reads its root (`ServerSigns`, `ServerSendsBundle`), and later the answer
arrives (`AttestX509`, `GetBundle`), when the root may have changed. A call is answered
within `Latency`, fails, or hangs for good; it fails when the context ends. `NewX509Source` that fails leaves nothing behind
and is called again. `Check` reads `closed` and the expiry under the read lock and sets
the timer; `Wake` and `Exit` are the two arms of the `select`. `CloseCancels` and
`CloseReturns` are the two halves of `Close`, `CallerCancels` the end of the caller's
context. `cred` is what the attestor's evidence has left: a Cloudflare token is given
once, GitHub's is fetched anew each time (`Forever`). Times are relative (what an SVID
has left, until the timer fires), so that no clock has to be bounded; the goroutine is
taken to be scheduled at once, so time passes only while it waits. `calm`, `settled`
and `pow` (2 to the number of failed attempts) are histories.

## 3. Runs

| Run | Module, cfg | Shows | Size |
|---|---|---|---|
| `roots_serial` | `MCRootStore`, `RootStoreSerial` | commands one at a time, kills and failing stats anywhere: `RootContinuity`, `SoundPairKept`, `Settles`, and `IsRegister` (the refinement) | 0.15 million states |
| `roots_concurrent` | `MCRootStore`, `RootStoreConcurrent` | three overlapping processes: `WholeWhenQuiet` | 9 million |
| `roots_race` | `MCRootStore`, `RootStoreRace` | violation of `RootPersisted` | |
| `match` | `MCMatchEntries`, `MatchEntries` | `ReturnsAnswer` for all tables of up to 3 entries | 64 thousand |
| `entries` | `MCEntryStore`, `EntryStore` | `OneRowPerId`, `DeletedStaysDeleted`, `EditsKept` | 25 thousand |
| `jwks` | `MCJwksCache`, `JwksCache` | `RetiredKeyDies`, `PublishedKeyWorks`, `KeysNeverOlder`, `MutexReleased` | 0.7 million |
| `lifecycle` | `MCLifecycle`, `Lifecycle` | `GracefulStop`, `QuietExitWasAsked`, `NoWorkAfterShutdown`, `SignalStops`, `FailureEnds` | 6.5 thousand |
| `source` | `MCX509Source`, `X509Source` | `BundleNotOlder`, `ExpiredByFailure`, `RootArrives`, `FewAttempts`, `LastGoodKept`, `CloseStops` | 1 million |
| `api` | `MCIdentityApi`, `IdentityApi` | `LifetimeBounded`, `RevokedGetsNothing`, `OnlyEntitled` | 3.1 million |
| `api_platform_token`, `api_x509_verifies`, `api_jwt_validates` | `MCIdentityApi`, `Api*` | violations of `WithinPlatformToken`, `X509Verifies`, `JwtValidates` | |

Each of the passing runs but `match` also checks its module's type invariant or,
for `roots_concurrent`, leaves it to `roots_serial` and the proof.

**What the violations show.**

- `roots_race`: two servers starting at once on empty paths both generate a root;
  both come up, at most one root is on disk. The next restart of the other server
  changes its trust root. The comment on `NewSelfSignedCA` says the root is
  "generated and persisted".
- `api_platform_token`: the README bounds the lifetime by `platformTokenRemaining`;
  the signers pass `time.Time{}` to `computeTTL` and nobody reads `ExpiresAt`.
- `api_x509_verifies`: the intermediate ends `signing_ttl` after the start; leaves
  issued later, or near the end, do not verify although they have not expired.
- `api_jwt_validates`: `/v1/validate` validates for the empty audience and refuses
  the JWT SVIDs the server issues.

**What the passing runs say that a reader of the code may not expect.**

- `roots_serial`: the trust root can change without `ca init --force`. A server is
  restarted over a sound pair, one `os.Stat` fails with an I/O error or a stale handle,
  `fileExists` (`self_signed.go:249`) says the file is absent, and the server generates a
  root, overwrites the pair and serves the new root, although the comment on
  `NewSelfSignedCA` says that a root that exists is loaded. `ca init` without `--force`
  gets past its guards (`ca.go:49`, `ca.go:52`) in the same way. `RootContinuity`,
  `SoundPairKept` and the register's `licence` state that nothing else does this, and
  how much each such failure can do: one more root.
- `lifecycle`: a signal that comes before the starting goroutine has set `s.server`
  ends the process without a shutdown, and a request that was accepted meanwhile may
  be cut off; `GracefulStop` is therefore about a signal that finds `s.server` set.
  `SignalStops` needs its escape clause: with a hung handler no signal but SIGKILL
  ends the process.
- `source`: an expired SVID is handed out while calls keep failing, hang or after the
  caller's context has ended, and in no other case. The `Lifetime` of an SVID has to
  exceed six latencies (`LifetimeAssumption`): two are gone when the SVID and the bundle
  have arrived, half of the rest is waited for, and two calls have to fit in the other
  half. The bound is sharp: with a latency of 3 and a lifetime of 18 a source hands out
  an expired SVID although no call ever failed.
- `source`: a new root is trusted one wait and three calls after the change at the
  latest (`RootArrives`), where two calls are not enough: an answer with the old root may
  have been on its way when the root changed.

**Bounds.** `RootStoreSerial`: two slots, one `--force`, one other command, two
kills, one failing stat: a second crash can hit the recovery from the first, and the
stat can fail in either. `RootStoreConcurrent`: three processes, two `--force`, one
other command and one failing stat: one can read while one removes and one writes.
Kills are left out there, since `WholeWhenQuiet` is about processes that end by
themselves. `Root` has as many members as the serial run can generate, five; in the
concurrent run a process that would generate a fifth waits. `MaxMisses` is 0 in
`roots_race`, where the two starters alone are at fault. `entries`: five commands, two shells, two
preloads: two updates overlap with each other, a delete and a create. `match`: three
entries are enough for a tie and a more specific third. `jwks`: two requests (one
slow, one fast, and either may be followed by a third), a clock that goes beyond
every cache lifetime plus timeout; one key, because what is stated of a key does not
depend on the others. `api`: one request, since requests do not touch each other's
state and meet in the table only; two entries, three commands, two
incarnations; evidence that is genuine, forged, of another account and of an attestor
not enabled, on a clock that goes beyond its expiry and both ends of the AWS window; TTLs whose product wraps to a negative and to a tiny duration
(8-bit durations). `lifecycle`: three clients, each with any number of requests: one
hangs, one is served and one comes. `source`: two lifetimes, an odd and an even one,
so that a renewal may shorten and lengthen what is left; a second that is longer than
a latency; one change of the root, as what is stated is about the last one; histories
that stop counting at 10, beyond every limit the properties compare them with. The
proofs lift these bounds where there are any.

**Deadlock** is checked in `jwks` and `source`. The other models may stop: all servers
are up and the budget of commands is spent, all requests are answered, or the process
has ended.

**Fairness.** `Settles`: a process that was started takes its next step (the operating
system schedules it), and a server is started again while none is up (a Deployment
restarts its pods). `SignalStops`, `FailureEnds`: the goroutines of the process and
the handlers that do not wait for a platform are scheduled, and a listener that
Shutdown has closed ends `Accept`. Nothing is assumed of platforms and signals, and
of clients nothing beyond what the escape clause says: one that stalls in its request
body is a handler that hangs. `CloseStops`: the goroutine is scheduled, and net/http ends a call whose
context is done; nothing is assumed of the server.

## 4. Proofs

TLAPS checks all of these for every value of the constants.

- **RootStore_proofs.** `TypeCorrect` holds under any overlap.
  The inductive invariant `LInv` adds to the types that a process past `generate`
  holds the key and certificate of one root until it has saved them.
  `RootContinuityAlways` and `SoundPairKeptAlways` assume `Serialised`; their
  invariant `SInv` says that at most one process is starting, what each program
  counter implies about the files, and that as soon as `forces + misses + 1` roots have
  been served the last of them is the sound pair on disk (`Budget`), so that the next
  start can only load it, unless a `--force` or a failing stat adds to what may be spent
  (`Unspent`). Without `Serialised` both fail: the two starters of `roots_race` break
  them.
  `ImplementsRegister` is the refinement, under the same assumption: `RInv` adds to
  `SInv` that a pair is generated only where a file is missing or the process missed one
  (`Missing`), and `RegisterStep` goes through the calls: most stutter, the last write of
  a pair is `Write`, a kill during the writes may be `Spoil`, a removal, or a truncation
  by a process that missed a file, `Discard`, the signing of the intermediate `Up`, the
  kill of a server `Down`.
  `WholeWhenQuietAlways` needs no serialisation: `InHand` says that a torn file has a
  writer who is about to finish it, and that where one file is missing while the other
  is there, or is about to be written, somebody is on the way to writing the missing
  one. A removal is such a way, as `ca init --force` goes on to look at both files.
  `RootPersistedIfSerialised` is the other side of the finding of `roots_race`: what the
  comment on `NewSelfSignedCA` promises does hold, through any kills, as long as no two
  commands start at once and no stat fails on a file that is there.
- **Lifecycle_proofs.** `TypeCorrect`, `GracefulStopAlways`, `QuietExitWasAskedAlways` and
  the action property `NoWorkAfterShutdownAlways` (the requests that Shutdown waits for
  only get fewer: the safety half of `SignalStops`), for any number of clients. `GracefulStop` is not inductive: `IInv` adds that the store
  is open and no request has ended badly until the deferred calls have run (`Orderly`),
  that after Shutdown nothing is listened to and nothing runs past the drain
  (`Drains`), that a listener belongs to an accepting goroutine (`Listens`), and that
  only a signal leads to Shutdown (`Asked`).
- **JwksCache_proofs.** All five properties of the `jwks` run, for any number of
  requests, keys and tokens, any lifetimes and timeouts, and a clock without bound.
  None of them but the types is inductive: a decision inherits the age of its key set.
  `Recent(s, t, n)` says that the key set `s` was the platform's at most `n` before
  `t`, and `IInv` states it at every place a key set passes: of the answer under way
  since its request was sent (age 0), of the cache when it was filled (`FetchAge`: the
  timeout, for GitHub the slowest fetch), of a decision (`UseAge`: a cache lifetime
  more). For GitHub it also orders versions: floors, decisions, cache, answer under
  way, platform (`CacheOK`, `Versions`), which rests on the holder of the mutex being
  the only one who fetches (`Locked`). What a step of one request leaves of the others
  is shown once (`OthersKept`), so that each action is left with its own request.
- **X509Source_proofs.** `TypeCorrect` and `BundleNotOlderAlways`: the invariant follows
  a root through a refresh, an SVID in hand has the server's root or an older one, and
  a bundle answered after it is not older (`InOrder`); the two are stored together
  (`StoredInOrder`). `ExpiredByFailureAlways`, `RootArrivesAlways` and
  `FewAttemptsAlways`, for any lifetimes, latencies and root changes: `Due` is how long
  the refresh under way can still take; no step but the start of a wait makes it
  longer, and time makes it shorter by as much as it takes from the SVID (`DueStep`).
  `Outlives`: the SVID has more left than `Due`, or a failure will be recent still
  when the refresh ends. `CatchesUp`: the same of the time since the root changed, also
  for a bundle with the old root that is on its way.
  `Halved`: at the end of a wait what is left has been halved once more than the
  failures counted. `LastGoodKeptAlways` is an action property; `Forward` says that what
  a refresh has in hand is not older than what is stored and not newer than the server.
- **Ttl_proofs.** `LifetimeCapped`: any input, wrapping or not, stays within the larger
  of the two configured limits. `LifetimeWithinBounds`: without overflow the result is
  at least a second and within each of the four bounds the comment on `computeTTL`
  names. `NeverLongerThanAsked`: wrap-around never lengthens a lifetime, if
  `max_svid_ttl` is positive.
- **MatchEntries_proofs.** `AnswerUnique`, and `ReturnsAnswerAlways` by the loop
  invariant "`best` is the answer for the rows visited".
- **EntryStore_proofs.** One invariant, `StoreInv`: the four properties checked, and
  that `intent` too has one entry per ID. `TableAsAskedUnlessStale` follows from it: the
  overlapping updates that `stale` records are the only way in which the table comes to
  differ from what the operators asked for.
- **IdentityApi_proofs.** Every step of the composition is a step of the store or
  leaves it alone (`StepsOfStore`), so `StoreInv` carries over. Added: a request
  about to sign holds an entry that was not barred to it when it was matched, and a
  barred ID is deleted still. `LifetimeBoundedAlways` uses the theorems of
  `Ttl_proofs` and assumes `MaxTTL > 0`, a configuration with a positive
  `max_svid_ttl` (otherwise every SVID gets the default lifetime, whatever its entry
  says); the others hold for every configuration. `OnlyEntitledAlways`: `Vetted` says what
  the handler has made sure of at each place of a request (audience, attestor, date or
  expiry, signature, account, entry), and that nothing the operators do meanwhile undoes
  it, as the handler keeps the entry it was given. What was checked against the clock is
  stated in a form that time preserves (`Timely`, `VettedLater`): not older than allowed
  when the request came, not dated further ahead of the present than allowed.
  `X509VerifiesInTimeAlways` is the other side of the finding of `api_x509_verifies`:
  while the root is valid, an X.509 SVID issued at least `LifetimeCap` before the end of its
  intermediate verifies for all of its lifetime, and one issued later by the server that
  is running verifies until that end. It rests on the cap of `Ttl_proofs` and on
  `Incarnation`: the intermediate changes with the number of the incarnation only.

Only model-checked: `Settles`, `SignalStops`, `FailureEnds`, `CloseStops` (liveness, out
of the prover's reach). Every other property of a passing run is a theorem. The
histories `calm` and `settled` stop counting at `Cap`; the theorems hold for every `Cap`.
`FewAttempts` is stated with the history `pow` rather than with a power of two, as the
prover knows nothing of exponentiation.

## 5. Not modelled

- Encodings (PEM, JWT, JSON, YAML, XML), metrics and logging, `list` and `show`.
- The JWKS and health endpoints, which only print the CA's public material (of the
  bundle endpoint `X509Source` keeps the root it answers with).
- Configuration parsing: the values that matter are constants.
- The AWS attestor's parsing of evidence, URL and ARN.
- Code that the program never runs: the JSON and the Postgres store (every command
  opens SQLite), the federation fetcher (constructed by no command, its bundles read by
  nobody) and the claim mapper (no caller). Without a caller there is no schedule,
  configuration or client to check them against.
- The TypeScript SDK and the Go SDK's `JWTSource`: one request per call, no state.
- Two servers sharing one database are covered by `EntryStore` (their preloads overlap
  with commands) but not by `IdentityApi`, which has one server.

## 6. Plan

Every safety property of the passing runs is proved; the liveness properties stay with
TLC. What could be added: a refinement of `JwksCache` by an abstract key directory with
a bounded age, and the code that no command runs today (the JSON and Postgres stores,
the federation fetcher), once something calls it.
