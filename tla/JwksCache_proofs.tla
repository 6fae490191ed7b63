-------------------------- MODULE JwksCache_proofs --------------------------
(***************************************************************************)
(* Proofs about JwksCache, for any number of requests, keys, tokens, cache *)
(* lifetimes and timeouts, and for a clock without bound.  A key set is    *)
(* followed from the endpoint that served it, through the answer, the      *)
(* cache and the request that decides with it: at each place IInv bounds   *)
(* how long ago it was the platform's.  For GitHub, where fetches cannot   *)
(* overlap, it also orders the versions met at these places.               *)
(***************************************************************************)
EXTENDS JwksCache, FiniteSetTheorems, TLAPS

Job == [pc : Ended \cup {"lookup", "fetch", "receive", "verify"},
        tok : Token \cup {NoToken}, sent : Nat, snap : Snap \cup {NoSnap}, got : Nat, floor : Nat]

Decided == {"verify", "accepted", "badSignature"}

\* Key set s was the platform's at most n before time t: a key in it was not retired
\* before that, a published key that it lacks was not published before that.
Recent(s, t, n) ==
  /\ \A k \in s.keys : gone[k] # Never => t <= gone[k] + n
  /\ \A k \in Key \ s.keys : born[k] # Never /\ gone[k] = Never => t <= born[k] + n

\* How old the key set of a fetch may be when it has arrived, and of a decision.
FetchAge == IF attestor = "github" THEN slowest ELSE Timeout
UseAge ==
  CASE attestor = "cloudflare" -> CloudflareTTL + Timeout - 1
    [] attestor = "github"     -> GitHubTTL + slowest - 1
    [] attestor = "deno"       -> Timeout

CacheVersion == IF cache.snap = NoSnap THEN 0 ELSE cache.snap.version

\* Nothing happened in the future.
PlatformOK ==
  \A k \in Key : (born[k] # Never => born[k] <= now) /\ (gone[k] # Never => gone[k] <= now)

CacheOK ==
  /\ cache.fetchedAt <= now
  /\ cache.snap # NoSnap => Recent(cache.snap, cache.fetchedAt, FetchAge)
  /\ CacheVersion <= KeySet.version
  /\ attestor = "github" => newest <= CacheVersion

\* A request has its token and, from the answer on, a key set; both decide its end.
HoldsInput(w) ==
  /\ job[w].pc # "idle" => job[w].tok \in Token
  /\ job[w].pc \in Decided \cup {"receive"} => job[w].snap \in Snap
  /\ job[w].pc = "accepted" => job[w].tok.key \in job[w].snap.keys
  /\ job[w].pc = "badSignature" => job[w].tok.key \notin job[w].snap.keys

Aged(w) ==
  /\ job[w].sent <= now /\ job[w].got <= now
  /\ job[w].pc = "receive" => Recent(job[w].snap, job[w].sent, 0)
  /\ job[w].pc \in Decided => Recent(job[w].snap, job[w].got, UseAge)

\* GitHub: an answer under way is newer than the cache, what a request decides with
\* is what was in the cache, or an answer that went there.
Versions(w) ==
  /\ job[w].pc = "receive" => job[w].snap.version <= KeySet.version
  /\ attestor = "github" =>
       /\ job[w].floor <= newest
       /\ job[w].pc = "receive" => CacheVersion <= job[w].snap.version
       /\ job[w].pc = "verify" => job[w].snap.version <= CacheVersion
       /\ job[w].pc \in Decided => job[w].floor <= job[w].snap.version

\* Who fetches for GitHub holds the mutex.
Locked(w) == attestor = "github" /\ job[w].pc \in {"fetch", "receive"} => jwksMu = w

IInv ==
  /\ TypeOK /\ PlatformOK /\ CacheOK /\ MutexReleased
  /\ \A w \in Worker : HoldsInput(w) /\ Aged(w) /\ Versions(w) /\ Locked(w)

WorkerOK(w) == HoldsInput(w) /\ Aged(w) /\ Versions(w) /\ Locked(w)

-----------------------------------------------------------------------------
(* Key sets and versions                                                   *)

\* What the endpoint serves is a key set.
LEMMA KeySetType == TypeOK => KeySet \in Snap
<1> SUFFICES ASSUME TypeOK PROVE KeySet \in Snap
  OBVIOUS
<1>1. ASSUME NEW S \in SUBSET Key PROVE Cardinality(S) \in Nat
  BY <1>1, KeyAssumption, FS_Subset, FS_CardinalityType
<1>2. {k \in Key : born[k] # Never} \in SUBSET Key /\ {k \in Key : gone[k] # Never} \in SUBSET Key
  OBVIOUS
<1>3. Live \in SUBSET Key
  BY DEF Live
<1> QED
  BY <1>1, <1>2, <1>3 DEF KeySet, Snap

\* The same after a step.
LEMMA KeySetTypeNext == TypeOK' => (KeySet \in Snap)'
BY KeySetType, PTL

\* Keys are published and retired, never the reverse.
PlatformStep ==
  /\ \A k \in Key : born[k] # Never => born'[k] = born[k]
  /\ \A k \in Key : gone[k] # Never => gone'[k] = gone[k]
  /\ \A k \in Key : born[k] = Never => born'[k] \in {Never, now}
  /\ \A k \in Key : gone[k] = Never => gone'[k] \in {Never, now}

\* The version of the platform's key set grows with every change.
LEMMA VersionGrows ==
  ASSUME TypeOK, TypeOK', PlatformStep
  PROVE  KeySet.version <= KeySet'.version
<1> DEFINE B == {k \in Key : born[k] # Never}
           G == {k \in Key : gone[k] # Never}
<1>1. B \subseteq B' /\ G \subseteq G'
  BY DEF PlatformStep
<1>2. IsFiniteSet(B') /\ IsFiniteSet(G')
  BY KeyAssumption, FS_Subset
<1>3. Cardinality(B) <= Cardinality(B') /\ Cardinality(G) <= Cardinality(G')
  BY <1>1, <1>2, FS_Subset
<1>4. /\ Cardinality(B) \in Nat /\ Cardinality(B') \in Nat
      /\ Cardinality(G) \in Nat /\ Cardinality(G') \in Nat
  BY <1>1, <1>2, FS_Subset, FS_CardinalityType
<1>5. KeySet.version = Cardinality(B) + Cardinality(G)
  BY DEF KeySet
<1>6. KeySet'.version = Cardinality(B') + Cardinality(G')
  BY DEF KeySet
<1> HIDE DEF B, G
<1> QED
  BY <1>3, <1>4, <1>5, <1>6

\* The key set served now is as recent as can be.
LEMMA ServedIsRecent == \A t, n : Recent(KeySet, t, n)
BY DEF Recent, KeySet, Live

\* A key set does not become less recent by what the platform does later.
LEMMA RecentKept ==
  ASSUME TypeOK, PlatformStep, NEW s \in Snap, NEW t \in Nat, t <= now,
         NEW n \in Nat, NEW m \in Nat, n <= m, Recent(s, t, n)
  PROVE  Recent(s, t, m)'
BY NeverAssumption DEF TypeOK, PlatformStep, Snap, Recent

\* A key set that was recent when it was stored is recent, by the time in between, when
\* it is used.
LEMMA RecentLater ==
  ASSUME TypeOK, NEW s \in Snap, NEW t \in Nat, NEW u \in Nat, NEW n \in Nat, NEW m \in Nat,
         u + n <= t + m, Recent(s, t, n)
  PROVE  Recent(s, u, m)
BY NeverAssumption DEF TypeOK, Snap, Recent

\* Ages are durations, whichever attestor it is.
LEMMA Ages == TypeOK => FetchAge \in Nat /\ UseAge \in Nat
BY DurationAssumption DEF TypeOK, Attestor, FetchAge, UseAge

-----------------------------------------------------------------------------
(* What a step of one request does to the others                           *)

\* How the shared state moves on, whoever moves it.
Onward ==
  /\ PlatformStep
  /\ now <= now' /\ attestor' = attestor
  /\ slowest <= slowest' /\ newest <= newest'
  /\ attestor = "github" => CacheVersion <= CacheVersion'

\* A request that does not move itself keeps what is known of it, if nobody stores keys
\* or frees the mutex while it fetches for GitHub.
LEMMA OthersKept ==
  ASSUME IInv, TypeOK', Onward, NEW q \in Worker, job'[q] = job[q],
         Locked(q)',
         attestor = "github" /\ job[q].pc = "receive" => cache' = cache
  PROVE  WorkerOK(q)'
<1> USE DEF IInv
<1>1. HoldsInput(q)'
  BY DEF HoldsInput
<1>2. Aged(q)'
  <2>1. /\ job[q].sent \in Nat /\ job[q].got \in Nat /\ now \in Nat /\ now' \in Nat
        /\ job[q].sent <= now /\ job[q].got <= now
    BY DEF TypeOK, Aged
  <2>2. job[q].pc \in Decided \cup {"receive"} => job[q].snap \in Snap
    BY DEF HoldsInput
  <2>3. UseAge \in Nat /\ UseAge' \in Nat /\ UseAge <= UseAge'
    BY Ages, DurationAssumption DEF Onward, UseAge, TypeOK, Attestor
  <2>4. job[q].pc = "receive" => Recent(job[q].snap, job[q].sent, 0)'
    BY <2>1, <2>2, RecentKept DEF Aged, Onward
  <2>5. job[q].pc \in Decided => Recent(job[q].snap, job[q].got, UseAge)'
    BY <2>1, <2>2, <2>3, RecentKept DEF Aged, Onward
  <2> QED
    BY <2>1, <2>4, <2>5 DEF Aged, Onward
<1>3. Versions(q)'
  <2>1. KeySet \in Snap /\ KeySet' \in Snap /\ KeySet.version <= KeySet'.version
    BY KeySetType, KeySetTypeNext, VersionGrows DEF Onward
  <2> QED
    BY <2>1 DEF Versions, Onward, TypeOK, Snap, CacheVersion, HoldsInput, Decided
<1> QED
  BY <1>1, <1>2, <1>3 DEF WorkerOK

-----------------------------------------------------------------------------
(* What the steps do to the request that takes them                        *)

\* Only request w changes.
Moves(w) == job' \in [Worker -> Job] /\ \A q \in Worker : q # w => job'[q] = job[q]

\* The requests are typed.
LEMMA JobType == TypeOK => job \in [Worker -> Job]
BY DEF TypeOK, Job

\* A request that is given another record is the only one to change.
LEMMA MovesTo ==
  ASSUME TypeOK, NEW w \in Worker, NEW r \in Job, job' = [job EXCEPT ![w] = r]
  PROVE  Moves(w) /\ job'[w] = r
BY JobType DEF Moves

\* A request begins with its token and the floor of the moment, or is refused.
LEMMA BeginJob ==
  ASSUME TypeOK, NEW w \in Worker, NEW a, NEW tok \in Token, NEW worth \in BOOLEAN,
         Begin(w, a, tok, worth)
  PROVE  /\ Moves(w)
         /\ job'[w].pc \in {"idle", "lookup"} /\ (job'[w].pc = "lookup" => job'[w].tok = tok)
         /\ job'[w].sent = 0 /\ job'[w].got = 0 /\ job'[w].floor \in {0, newest}
BY JobType DEF Begin, Blank, Moves, Job, Ended, TypeOK

\* A hit takes the key set of the cache.
LEMMA HitJob ==
  ASSUME TypeOK, NEW w \in Worker, Hit(w), cache.snap # NoSnap
  PROVE  /\ Moves(w)
         /\ job'[w].pc = "verify" /\ job'[w].snap = cache.snap /\ job'[w].got = now
         /\ job'[w].tok = job[w].tok /\ job'[w].sent = job[w].sent /\ job'[w].floor = job[w].floor
<1> DEFINE r == [job[w] EXCEPT !.pc = "verify", !.snap = cache.snap, !.got = now]
<1>1. job[w] \in Job /\ cache.snap \in Snap \cup {NoSnap} /\ now \in Nat
  BY JobType DEF TypeOK
<1>2. /\ r \in Job
      /\ r.pc = "verify" /\ r.snap = cache.snap /\ r.got = now
      /\ r.tok = job[w].tok /\ r.sent = job[w].sent /\ r.floor = job[w].floor
  BY <1>1 DEF Job
<1>3. job' = [job EXCEPT ![w] = r]
  BY JobType DEF Hit
<1> HIDE DEF r
<1> QED
  BY <1>2, <1>3, MovesTo

\* A miss sends a request to the endpoint.
LEMMA MissJob ==
  ASSUME TypeOK, NEW w \in Worker, Miss(w)
  PROVE  /\ Moves(w)
         /\ job'[w].pc = "fetch" /\ job'[w].sent = now
         /\ job'[w].tok = job[w].tok /\ job'[w].got = job[w].got /\ job'[w].floor = job[w].floor
<1> DEFINE r == [job[w] EXCEPT !.pc = "fetch", !.sent = now]
<1>1. job[w] \in Job /\ now \in Nat
  BY JobType DEF TypeOK
<1>2. /\ r \in Job /\ r.pc = "fetch" /\ r.sent = now
      /\ r.tok = job[w].tok /\ r.got = job[w].got /\ r.floor = job[w].floor
  BY <1>1 DEF Job
<1>3. job' = [job EXCEPT ![w] = r]
  BY JobType DEF Miss
<1> HIDE DEF r
<1> QED
  BY <1>2, <1>3, MovesTo

\* The endpoint answers with the platform's key set.
LEMMA ServeJob ==
  ASSUME TypeOK, NEW w \in Worker, Serve(w)
  PROVE  /\ Moves(w)
         /\ job'[w].pc = "receive" /\ job'[w].snap = KeySet /\ job'[w].sent = job[w].sent
         /\ job'[w].tok = job[w].tok /\ job'[w].got = job[w].got /\ job'[w].floor = job[w].floor
<1> DEFINE r == [job[w] EXCEPT !.pc = "receive", !.snap = KeySet]
<1>1. job[w] \in Job /\ KeySet \in Snap
  BY JobType, KeySetType
<1>2. /\ r \in Job /\ r.pc = "receive" /\ r.snap = KeySet /\ r.sent = job[w].sent
      /\ r.tok = job[w].tok /\ r.got = job[w].got /\ r.floor = job[w].floor
  BY <1>1 DEF Job
<1>3. job' = [job EXCEPT ![w] = r]
  BY JobType DEF Serve
<1> HIDE DEF r
<1> QED
  BY <1>2, <1>3, MovesTo

\* An answer that arrives is what the request will decide with.
LEMMA ReceivedJob ==
  ASSUME TypeOK, NEW w \in Worker, NEW a, Received(w, a)
  PROVE  /\ Moves(w)
         /\ job'[w].pc = "verify" /\ job'[w].got = now /\ job'[w].sent = 0
         /\ job'[w].tok = job[w].tok /\ job'[w].snap = job[w].snap /\ job'[w].floor = job[w].floor
<1> DEFINE r == [job[w] EXCEPT !.pc = "verify", !.got = now, !.sent = 0]
<1>1. job[w] \in Job /\ now \in Nat
  BY JobType DEF TypeOK
<1>2. /\ r \in Job /\ r.pc = "verify" /\ r.got = now /\ r.sent = 0
      /\ r.tok = job[w].tok /\ r.snap = job[w].snap /\ r.floor = job[w].floor
  BY <1>1 DEF Job
<1>3. job' = [job EXCEPT ![w] = r]
  BY JobType DEF Received
<1> HIDE DEF r
<1> QED
  BY <1>2, <1>3, MovesTo

\* A request that fails leaves nothing behind.
LEMMA FailJob ==
  ASSUME TypeOK, NEW w \in Worker, Fail(w)
  PROVE  Moves(w) /\ job'[w] = Blank
BY JobType DEF Fail, Blank, Moves, Job, Ended

\* A decision follows the signature: only a token of a key in the set is accepted, only
\* one of a key outside is refused for its signature.
LEMMA DecideJob ==
  ASSUME TypeOK, NEW w \in Worker, NEW a, NEW valid \in BOOLEAN, Decide(w, a, valid)
  PROVE  /\ Moves(w) /\ job[w].pc = "verify"
         /\ \/ job'[w] = Blank
            \/ /\ \/ job'[w].pc = "accepted" /\ job[w].tok.key \in job[w].snap.keys
                  \/ job'[w].pc = "badSignature" /\ job[w].tok.key \notin job[w].snap.keys
               /\ job'[w].tok = job[w].tok /\ job'[w].snap = job[w].snap /\ job'[w].sent = job[w].sent
               /\ job'[w].got = job[w].got /\ job'[w].floor = job[w].floor
BY JobType, FailJob DEF Decide, Moves, Job, Ended

-----------------------------------------------------------------------------
(* The induction step                                                      *)

\* A step of request w alone: what is left to show is what becomes of w and of the cache.
LEMMA OneMoves ==
  ASSUME IInv, TypeOK', Onward, NEW w \in Worker, Moves(w),
         PlatformOK', CacheOK', MutexReleased', WorkerOK(w)',
         \A q \in Worker : q # w => Locked(q)',
         attestor = "github" /\ cache' # cache => jwksMu = w
  PROVE  IInv'
<1>1. ASSUME NEW q \in Worker, q # w PROVE WorkerOK(q)'
  <2>1. job'[q] = job[q]
    BY <1>1 DEF Moves
  <2>2. attestor = "github" /\ job[q].pc = "receive" => cache' = cache
    BY <1>1 DEF IInv, Locked
  <2> QED
    BY <1>1, <2>1, <2>2, OthersKept
<1> QED
  BY <1>1 DEF IInv, WorkerOK

\* The shared state that a lookup, an answer or a decision leaves alone.
LEMMA Untouched ==
  ASSUME IInv, UNCHANGED <<now, platform, cache, slowest, newest>>
  PROVE  Onward /\ PlatformOK' /\ CacheOK'
<1> USE DEF platform
<1>1. KeySet' = KeySet
  BY DEF KeySet, Live
<1>2. TypeOK
  BY DEF IInv
<1>3. PlatformOK'
  BY DEF IInv, PlatformOK
<1>4. CacheOK'
  BY <1>1 DEF IInv, CacheOK, Recent, FetchAge, CacheVersion
<1>5. Onward
  <2>1. CacheVersion \in Nat /\ CacheVersion' = CacheVersion
    BY <1>2 DEF CacheVersion, TypeOK, Snap
  <2> QED
    BY <1>2, <2>1 DEF Onward, PlatformStep, TypeOK
<1> QED
  BY <1>3, <1>4, <1>5

\* Types of what is not a request.
SharedOK ==
  /\ now \in Nat
  /\ born \in [Key -> Nat \cup {Never}] /\ gone \in [Key -> Nat \cup {Never}]
  /\ attestor \in Attestor
  /\ cache \in [snap : Snap \cup {NoSnap}, fetchedAt : Nat]
  /\ jwksMu \in Worker \cup {NoWorker}
  /\ slowest \in Nat /\ newest \in Nat

\* Types after a step of request w.
LEMMA TypeAfter ==
  ASSUME IInv, NEW w \in Worker, Moves(w), SharedOK', HoldsInput(w)'
  PROVE  TypeOK'
<1>1. ASSUME NEW q \in Worker PROVE job'[q].pc \in {"receive", "verify"} => job'[q].snap # NoSnap
  <2>1. CASE q = w
    BY <2>1, NoSnapAssumption DEF HoldsInput, Decided, Snap
  <2>2. CASE q # w
    BY <2>2 DEF IInv, TypeOK, Moves
  <2> QED
    BY <2>1, <2>2
<1> QED
  BY <1>1 DEF TypeOK, SharedOK, Moves, Job

\* A step of request w that leaves cache and clock alone, and takes or frees no mutex but
\* its own: what is left to show is what becomes of w.
LEMMA AloneKeeps ==
  ASSUME IInv, NEW w \in Worker, Moves(w),
         UNCHANGED <<now, platform, cache, slowest, newest>>,
         jwksMu' = jwksMu \/ (jwksMu \in {w, NoWorker} /\ jwksMu' \in {w, NoWorker}),
         jwksMu' = w => attestor = "github" /\ job'[w].pc \in {"fetch", "receive"},
         HoldsInput(w)', Aged(w)', Versions(w)', Locked(w)'
  PROVE  IInv'
<1>1. TypeOK
  BY DEF IInv
<1>2. SharedOK'
  BY <1>1 DEF TypeOK, SharedOK, platform
<1>3. TypeOK'
  BY <1>2, TypeAfter
<1>4. Onward /\ PlatformOK' /\ CacheOK'
  BY Untouched
<1>5. MutexReleased'
  BY <1>1, NoWorkerAssumption DEF IInv, MutexReleased, Moves, TypeOK, platform
<1>6. \A q \in Worker : q # w => Locked(q)'
  BY NoWorkerAssumption DEF IInv, Locked, Moves, platform
<1>7. WorkerOK(w)'
  BY DEF WorkerOK
<1> QED
  BY <1>3, <1>4, <1>5, <1>6, <1>7, OneMoves

\* A request that begins, or is refused at once.
LEMMA BeginStep ==
  ASSUME IInv, NEW w \in Worker, NEW a, NEW tok \in Token, NEW worth \in BOOLEAN, Begin(w, a, tok, worth)
  PROVE  IInv'
<1>1. TypeOK /\ UNCHANGED <<now, platform, cache, jwksMu, slowest, newest>>
  BY DEF IInv, Begin
<1>2. /\ Moves(w)
      /\ job'[w].pc \in {"idle", "lookup"} /\ (job'[w].pc = "lookup" => job'[w].tok = tok)
      /\ job'[w].sent = 0 /\ job'[w].got = 0 /\ job'[w].floor \in {0, newest}
  BY <1>1, BeginJob
<1>3. jwksMu # w
  BY NoWorkerAssumption DEF IInv, MutexReleased, Begin, Ended
<1>4. HoldsInput(w)'
  BY <1>2 DEF HoldsInput, Decided
<1>5. Aged(w)'
  BY <1>1, <1>2 DEF Aged, Decided, TypeOK
<1>6. Versions(w)' /\ Locked(w)'
  BY <1>1, <1>2 DEF Versions, Locked, Decided, TypeOK
<1> QED
  BY <1>1, <1>2, <1>3, <1>4, <1>5, <1>6, AloneKeeps

\* A lookup that the cache serves: the keys were recent when they were stored, and that
\* was less than the cache's lifetime ago.
LEMMA HitStep ==
  ASSUME IInv, NEW w \in Worker, NEW ttl \in Nat, job[w].pc = "lookup", Fresh(ttl), Hit(w),
         FetchAge + ttl <= UseAge + 1,
         UNCHANGED <<now, platform, cache, jwksMu, slowest, newest>>
  PROVE  IInv'
<1>1. TypeOK /\ cache.snap # NoSnap /\ now - cache.fetchedAt < ttl
  BY DEF IInv, Fresh
<1>2. /\ Moves(w)
      /\ job'[w].pc = "verify" /\ job'[w].snap = cache.snap /\ job'[w].got = now
      /\ job'[w].tok = job[w].tok /\ job'[w].sent = job[w].sent /\ job'[w].floor = job[w].floor
  BY <1>1, HitJob
<1>3. /\ cache.snap \in Snap /\ cache.fetchedAt \in Nat /\ now \in Nat /\ newest \in Nat
      /\ job[w].floor \in Nat /\ job[w].sent \in Nat
  BY <1>1 DEF TypeOK
<1>4. jwksMu # w
  BY NoWorkerAssumption DEF IInv, MutexReleased
<1>5. HoldsInput(w)'
  BY <1>2, <1>3 DEF IInv, HoldsInput
<1>6. Aged(w)'
  <2>1. Recent(cache.snap, cache.fetchedAt, FetchAge) /\ cache.fetchedAt <= now
    BY <1>1 DEF IInv, CacheOK
  <2>2. FetchAge \in Nat /\ UseAge \in Nat
    BY <1>1, Ages
  <2>3. Recent(cache.snap, now, UseAge)
    <3>1. now + FetchAge <= cache.fetchedAt + UseAge
      BY <1>1, <1>3, <2>2
    <3> QED
      BY <1>1, <1>3, <2>1, <2>2, <3>1, RecentLater
  <2>4. Recent(job[w].snap, job[w].got, UseAge)'
    BY <1>2, <2>3 DEF Recent, UseAge, platform
  <2> QED
    BY <1>2, <1>3, <2>4 DEF IInv, Aged
<1>7. Versions(w)'
  BY <1>1, <1>2, <1>3 DEF IInv, CacheOK, Versions, CacheVersion, Snap, platform
<1>8. Locked(w)'
  BY <1>2 DEF Locked
<1> QED
  BY <1>2, <1>4, <1>5, <1>6, <1>7, <1>8, AloneKeeps

\* A lookup that the cache does not serve, after which the request holds GitHub's mutex.
LEMMA MissStep ==
  ASSUME IInv, NEW w \in Worker, job[w].pc = "lookup", Miss(w),
         IF attestor = "github" THEN jwksMu = NoWorker /\ jwksMu' = w ELSE jwksMu' = jwksMu,
         UNCHANGED <<now, platform, cache, slowest, newest>>
  PROVE  IInv'
<1>1. TypeOK
  BY DEF IInv
<1>2. /\ Moves(w)
      /\ job'[w].pc = "fetch" /\ job'[w].sent = now
      /\ job'[w].tok = job[w].tok /\ job'[w].got = job[w].got /\ job'[w].floor = job[w].floor
  BY <1>1, MissJob
<1>3. jwksMu # w
  BY NoWorkerAssumption DEF IInv, MutexReleased
<1>4. HoldsInput(w)'
  BY <1>2 DEF IInv, HoldsInput, Decided
<1>5. Aged(w)'
  BY <1>1, <1>2 DEF IInv, Aged, Decided, TypeOK
<1>6. Versions(w)' /\ Locked(w)'
  BY <1>1, <1>2 DEF IInv, Versions, Locked, Decided, platform
<1> QED
  BY <1>2, <1>3, <1>4, <1>5, <1>6, AloneKeeps

\* The endpoint's answer.
LEMMA ServeStep ==
  ASSUME IInv, NEW w \in Worker, Serve(w)
  PROVE  IInv'
<1>1. TypeOK /\ UNCHANGED <<now, platform, cache, jwksMu, slowest, newest>> /\ job[w].pc = "fetch"
  BY DEF IInv, Serve
<1>2. /\ Moves(w)
      /\ job'[w].pc = "receive" /\ job'[w].snap = KeySet /\ job'[w].sent = job[w].sent
      /\ job'[w].tok = job[w].tok /\ job'[w].got = job[w].got /\ job'[w].floor = job[w].floor
  BY <1>1, ServeJob
<1>3. KeySet' = KeySet /\ KeySet \in Snap
  BY <1>1, KeySetType DEF KeySet, Live, platform
<1>4. HoldsInput(w)'
  BY <1>1, <1>2, <1>3 DEF IInv, HoldsInput
<1>5. Aged(w)'
  <2>1. Recent(job[w].snap, job[w].sent, 0)'
    BY <1>1, <1>2, ServedIsRecent DEF Recent, platform
  <2> QED
    BY <1>1, <1>2, <2>1 DEF IInv, Aged, Decided
<1>6. Versions(w)'
  <2>1. CacheVersion <= KeySet.version /\ CacheVersion' = CacheVersion
    BY <1>1 DEF IInv, CacheOK, CacheVersion
  <2> QED
    BY <1>1, <1>2, <1>3, <2>1 DEF IInv, Versions, Decided, Snap, platform
<1>7. Locked(w)'
  BY <1>1, <1>2 DEF IInv, Locked, platform
<1>8. jwksMu' = w => attestor = "github" /\ job'[w].pc \in {"fetch", "receive"}
  BY <1>1, <1>2, NoWorkerAssumption DEF IInv, MutexReleased
<1> QED
  BY <1>1, <1>2, <1>4, <1>5, <1>6, <1>7, <1>8, AloneKeeps

\* A fetch that fails, with GitHub's mutex freed.
LEMMA FailStep ==
  ASSUME IInv, NEW w \in Worker, FetchFails(w)
  PROVE  IInv'
<1>1. TypeOK /\ UNCHANGED <<now, platform, cache, slowest, newest>>
  BY DEF IInv, FetchFails
<1>2. Moves(w) /\ job'[w] = Blank
  BY <1>1, FailJob DEF FetchFails
<1>3. HoldsInput(w)' /\ Aged(w)' /\ Versions(w)' /\ Locked(w)'
  BY <1>1, <1>2 DEF HoldsInput, Aged, Versions, Locked, Blank, Decided, TypeOK
<1>4. jwksMu' # w /\ (jwksMu' = jwksMu \/ (jwksMu \in {w, NoWorker} /\ jwksMu' \in {w, NoWorker}))
  BY NoWorkerAssumption DEF FetchFails
<1> QED
  BY <1>1, <1>2, <1>3, <1>4, AloneKeeps

\* Deno's answer arrived in time and is used for this token alone.
LEMMA DenoReceiveStep ==
  ASSUME IInv, NEW w \in Worker, DenoReceive(w)
  PROVE  IInv'
<1>1. /\ TypeOK /\ UNCHANGED <<now, platform, cache, jwksMu, slowest, newest>>
      /\ attestor = "deno" /\ job[w].pc = "receive" /\ now <= job[w].sent + Timeout
  BY DEF IInv, DenoReceive, Received, InTime
<1>2. /\ Moves(w)
      /\ job'[w].pc = "verify" /\ job'[w].got = now /\ job'[w].sent = 0
      /\ job'[w].tok = job[w].tok /\ job'[w].snap = job[w].snap /\ job'[w].floor = job[w].floor
  BY <1>1, ReceivedJob DEF DenoReceive
<1>3. job[w].snap \in Snap /\ job[w].sent \in Nat /\ now \in Nat
  BY <1>1 DEF IInv, TypeOK, HoldsInput
<1>4. HoldsInput(w)'
  BY <1>1, <1>2 DEF IInv, HoldsInput, Decided
<1>5. Aged(w)'
  <2>1. Recent(job[w].snap, now, Timeout)
    <3>1. Recent(job[w].snap, job[w].sent, 0)
      BY <1>1 DEF IInv, Aged
    <3>2. Timeout \in Nat /\ now + 0 <= job[w].sent + Timeout
      BY <1>1, <1>3, DurationAssumption
    <3> QED
      BY <1>1, <1>3, <3>1, <3>2, RecentLater
  <2>2. Recent(job[w].snap, job[w].got, UseAge)'
    BY <1>1, <1>2, <2>1 DEF Recent, UseAge, platform
  <2> QED
    BY <1>1, <1>2, <1>3, <2>2 DEF Aged
<1>6. Versions(w)' /\ Locked(w)'
  BY <1>1, <1>2 DEF Versions, Locked, platform
<1>7. jwksMu # w
  BY <1>1, NoWorkerAssumption DEF IInv, MutexReleased
<1> QED
  BY <1>1, <1>2, <1>4, <1>5, <1>6, <1>7, AloneKeeps

\* A decision of Cloudflare's or Deno's attestor.
LEMMA DecideStep ==
  ASSUME IInv, NEW w \in Worker, NEW a \in {"cloudflare", "deno"}, NEW valid \in BOOLEAN,
         Decide(w, a, valid), UNCHANGED <<now, platform, cache, jwksMu, slowest, newest>>
  PROVE  IInv'
<1>1. TypeOK /\ attestor = a
  BY DEF IInv, Decide
<1>2. /\ Moves(w) /\ job[w].pc = "verify"
      /\ \/ job'[w] = Blank
         \/ /\ \/ job'[w].pc = "accepted" /\ job[w].tok.key \in job[w].snap.keys
               \/ job'[w].pc = "badSignature" /\ job[w].tok.key \notin job[w].snap.keys
            /\ job'[w].tok = job[w].tok /\ job'[w].snap = job[w].snap /\ job'[w].sent = job[w].sent
            /\ job'[w].got = job[w].got /\ job'[w].floor = job[w].floor
  BY <1>1, DecideJob
<1>3. HoldsInput(w)'
  BY <1>2 DEF IInv, HoldsInput, Decided, Blank
<1>4. Aged(w)'
  BY <1>1, <1>2 DEF IInv, Aged, Decided, Blank, Recent, UseAge, TypeOK, platform
<1>5. Versions(w)' /\ Locked(w)'
  BY <1>1, <1>2 DEF Versions, Locked, Blank, platform
<1>6. jwksMu # w
  BY <1>2, NoWorkerAssumption DEF IInv, MutexReleased
<1> QED
  BY <1>2, <1>3, <1>4, <1>5, <1>6, AloneKeeps

\* A decision of GitHub's attestor, which raises the floor of the requests to come: no
\* higher than the version in the cache.
LEMMA GitHubVerifyStep ==
  ASSUME IInv, NEW w \in Worker, GitHubVerify(w)
  PROVE  IInv'
<1>1. /\ TypeOK /\ attestor = "github" /\ UNCHANGED <<now, platform, cache, jwksMu, slowest>>
      /\ newest' = IF job[w].snap.version > newest THEN job[w].snap.version ELSE newest
  BY DEF IInv, GitHubVerify, Decide
<1>2. /\ Moves(w) /\ job[w].pc = "verify"
      /\ \/ job'[w] = Blank
         \/ /\ \/ job'[w].pc = "accepted" /\ job[w].tok.key \in job[w].snap.keys
               \/ job'[w].pc = "badSignature" /\ job[w].tok.key \notin job[w].snap.keys
            /\ job'[w].tok = job[w].tok /\ job'[w].snap = job[w].snap /\ job'[w].sent = job[w].sent
            /\ job'[w].got = job[w].got /\ job'[w].floor = job[w].floor
  <2>1. (job[w].tok.trusted /\ now <= job[w].tok.exp + Leeway) \in BOOLEAN
    OBVIOUS
  <2> QED
    BY <1>1, <2>1, DecideJob DEF GitHubVerify
<1>3. /\ job[w].snap \in Snap /\ job[w].snap.version \in Nat /\ newest \in Nat
      /\ CacheVersion \in Nat /\ job[w].floor \in Nat
  BY <1>1, <1>2 DEF IInv, TypeOK, HoldsInput, Decided, Snap, CacheVersion
<1>4. newest' \in Nat /\ newest <= newest' /\ newest' <= CacheVersion
  BY <1>1, <1>2, <1>3 DEF IInv, CacheOK, Versions
<1>5. HoldsInput(w)'
  BY <1>2 DEF IInv, HoldsInput, Decided, Blank
<1>6. TypeOK'
  <2>1. SharedOK'
    BY <1>1, <1>4 DEF TypeOK, SharedOK, platform
  <2> QED
    BY <1>2, <1>5, <2>1, TypeAfter
<1>7. KeySet' = KeySet /\ CacheVersion' = CacheVersion
  BY <1>1 DEF KeySet, Live, CacheVersion, platform
<1>8. Onward
  BY <1>1, <1>3, <1>4, <1>7 DEF Onward, PlatformStep, TypeOK, platform
<1>9. PlatformOK' /\ CacheOK'
  BY <1>1, <1>4, <1>7 DEF IInv, PlatformOK, CacheOK, Recent, FetchAge, platform
<1>10. MutexReleased'
  BY <1>1, <1>2, NoWorkerAssumption DEF IInv, MutexReleased, Moves, TypeOK, platform
<1>11. WorkerOK(w)'
  <2>1. Aged(w)'
    BY <1>1, <1>2 DEF IInv, Aged, Decided, Blank, Recent, UseAge, TypeOK, platform
  <2>2. Versions(w)'
    BY <1>1, <1>2, <1>3, <1>4 DEF IInv, Versions, Decided, Blank, platform
  <2>3. Locked(w)'
    BY <1>2 DEF Locked, Blank
  <2> QED
    BY <1>5, <2>1, <2>2, <2>3 DEF WorkerOK
<1>12. \A q \in Worker : q # w => Locked(q)'
  BY <1>1, <1>2 DEF IInv, Locked, Moves, platform
<1> QED
  BY <1>1, <1>2, <1>6, <1>8, <1>9, <1>10, <1>11, <1>12, OneMoves

\* An answer that goes into the cache: it replaces, with GitHub, an older one, and with
\* Cloudflare, where fetches overlap, any other; it is as recent as its fetch was short.
LEMMA StoreStep ==
  ASSUME IInv, NEW w \in Worker, NEW a \in {"cloudflare", "github"}, Received(w, a),
         cache' = [snap |-> job[w].snap, fetchedAt |-> now],
         UNCHANGED <<now, platform, newest>>,
         slowest' \in Nat, slowest <= slowest', now <= job[w].sent + FetchAge',
         jwksMu' = IF attestor = "github" THEN NoWorker ELSE jwksMu
  PROVE  IInv'
<1>1. TypeOK /\ attestor = a /\ job[w].pc = "receive"
  BY DEF IInv, Received
<1>2. /\ Moves(w)
      /\ job'[w].pc = "verify" /\ job'[w].got = now /\ job'[w].sent = 0
      /\ job'[w].tok = job[w].tok /\ job'[w].snap = job[w].snap /\ job'[w].floor = job[w].floor
  BY <1>1, ReceivedJob
<1>3. /\ job[w].snap \in Snap /\ job[w].snap # NoSnap /\ job[w].snap.version \in Nat
      /\ job[w].sent \in Nat /\ now \in Nat /\ newest \in Nat /\ slowest \in Nat
      /\ CacheVersion \in Nat /\ job[w].floor \in Nat
  BY <1>1 DEF IInv, TypeOK, HoldsInput, Snap, CacheVersion
<1>4. attestor = "github" => jwksMu = w
  BY <1>1 DEF IInv, Locked
<1>5. HoldsInput(w)'
  BY <1>1, <1>2 DEF IInv, HoldsInput, Decided
<1>6. TypeOK'
  <2>1. SharedOK'
    BY <1>1, <1>3 DEF TypeOK, SharedOK, platform
  <2> QED
    BY <1>2, <1>5, <2>1, TypeAfter
<1>7. KeySet' = KeySet /\ CacheVersion' = job[w].snap.version /\ cache'.snap = job[w].snap /\ cache'.fetchedAt = now
  BY <1>3 DEF KeySet, Live, CacheVersion, platform
<1>8. Onward
  BY <1>1, <1>3, <1>7 DEF IInv, Versions, Onward, PlatformStep, TypeOK, platform
<1>9. FetchAge' \in Nat /\ UseAge' \in Nat /\ FetchAge' <= UseAge'
  BY <1>1, <1>3, DurationAssumption DEF FetchAge, UseAge, platform
<1>10. Recent(job[w].snap, job[w].sent, 0)
  BY <1>1 DEF IInv, Aged
<1>11. CacheOK'
  <2>1. Recent(job[w].snap, now, FetchAge')
    BY <1>1, <1>3, <1>9, <1>10, RecentLater
  <2>2. Recent(cache.snap, cache.fetchedAt, FetchAge)'
    BY <1>7, <2>1 DEF Recent, platform
  <2>3. CacheVersion' <= KeySet'.version
    BY <1>1, <1>7 DEF IInv, Versions
  <2>4. attestor = "github" => newest <= CacheVersion'
    BY <1>1, <1>3, <1>7 DEF IInv, CacheOK, Versions
  <2> QED
    BY <1>3, <1>7, <2>2, <2>3, <2>4 DEF CacheOK, platform
<1>12. PlatformOK'
  BY DEF IInv, PlatformOK, platform
<1>13. MutexReleased'
  BY <1>1, NoWorkerAssumption DEF IInv, MutexReleased
<1>14. Aged(w)'
  <2>1. Recent(job[w].snap, now, UseAge')
    BY <1>1, <1>3, <1>9, <1>10, RecentLater
  <2>2. Recent(job[w].snap, job[w].got, UseAge)'
    BY <1>2, <2>1 DEF Recent, platform
  <2> QED
    BY <1>2, <1>3, <2>2 DEF Aged
<1>15. Versions(w)'
  <2>1. attestor = "github" => newest <= job[w].snap.version /\ job[w].floor <= newest
    BY <1>1, <1>3 DEF IInv, CacheOK, Versions
  <2> QED
    BY <1>2, <1>3, <1>7, <2>1 DEF Versions, platform
<1>16. Locked(w)'
  BY <1>2 DEF Locked
<1>17. \A q \in Worker : q # w => Locked(q)'
  BY <1>2, <1>4 DEF IInv, Locked, Moves, platform
<1> QED
  BY <1>2, <1>4, <1>5, <1>6, <1>8, <1>11, <1>12, <1>13, <1>14, <1>15, <1>16, <1>17, OneMoves DEF WorkerOK

\* The platform and the clock move on.
LEMMA WorldStep ==
  ASSUME IInv, TypeOK', PlatformStep, PlatformOK', now <= now',
         UNCHANGED <<attestor, cache, jwksMu, job, slowest, newest>>
  PROVE  IInv'
<1>1. /\ TypeOK /\ now \in Nat /\ now' \in Nat /\ cache.fetchedAt \in Nat
      /\ (cache.snap # NoSnap => cache.snap \in Snap)
      /\ CacheVersion \in Nat /\ CacheVersion' = CacheVersion
  BY DEF IInv, TypeOK, CacheVersion, Snap
<1>2. Onward
  BY <1>1 DEF Onward, TypeOK
<1>3. CacheOK'
  <2>1. KeySet \in Snap /\ KeySet' \in Snap /\ KeySet.version <= KeySet'.version
    BY <1>1, KeySetType, KeySetTypeNext, VersionGrows
  <2>2. CacheVersion' <= KeySet'.version
    BY <1>1, <2>1 DEF IInv, CacheOK, Snap
  <2>3. cache.snap # NoSnap => Recent(cache.snap, cache.fetchedAt, FetchAge)'
    <3>1. FetchAge \in Nat /\ FetchAge' = FetchAge
      BY <1>1, Ages DEF FetchAge
    <3> QED
      BY <1>1, <3>1, RecentKept DEF IInv, CacheOK
  <2> QED
    BY <1>1, <2>2, <2>3 DEF IInv, CacheOK
<1>4. MutexReleased'
  BY DEF IInv, MutexReleased
<1>5. ASSUME NEW q \in Worker PROVE WorkerOK(q)'
  <2>1. Locked(q)'
    BY DEF IInv, Locked
  <2> QED
    BY <1>2, <2>1, OthersKept
<1> QED
  BY <1>3, <1>4, <1>5 DEF IInv, WorkerOK

\* Time passes.
LEMMA TickStep ==
  ASSUME IInv, Tick PROVE IInv'
<1>1. TypeOK /\ TypeOK' /\ now <= now' /\ UNCHANGED <<attestor, cache, jwksMu, job, slowest, newest, born, gone>>
  BY DEF IInv, TypeOK, Tick, platform
<1>2. PlatformStep
  BY <1>1 DEF PlatformStep, TypeOK
<1>3. PlatformOK'
  BY <1>1 DEF IInv, PlatformOK, TypeOK
<1> QED
  BY <1>1, <1>2, <1>3, WorldStep

\* A key is published.
LEMMA PublishStep ==
  ASSUME IInv, NEW k \in Key, Publish(k) PROVE IInv'
<1>1. TypeOK /\ TypeOK' /\ now <= now' /\ UNCHANGED <<attestor, cache, jwksMu, job, slowest, newest>>
  BY DEF IInv, TypeOK, Publish
<1>2. PlatformStep
  BY <1>1 DEF PlatformStep, Publish, TypeOK
<1>3. PlatformOK'
  BY <1>1, <1>2, NeverAssumption DEF IInv, PlatformOK, Publish, TypeOK
<1> QED
  BY <1>1, <1>2, <1>3, WorldStep

\* A key is retired.
LEMMA RetireStep ==
  ASSUME IInv, NEW k \in Key, Retire(k) PROVE IInv'
<1>1. TypeOK /\ TypeOK' /\ now <= now' /\ UNCHANGED <<attestor, cache, jwksMu, job, slowest, newest>>
  BY DEF IInv, TypeOK, Retire
<1>2. PlatformStep
  BY <1>1 DEF PlatformStep, Retire, Live, TypeOK
<1>3. PlatformOK'
  BY <1>1, <1>2, NeverAssumption DEF IInv, PlatformOK, Retire, Live, TypeOK
<1> QED
  BY <1>1, <1>2, <1>3, WorldStep

\* A lookup in Cloudflare's cache.
LEMMA CloudflareLookupStep ==
  ASSUME IInv, NEW w \in Worker, CloudflareLookup(w) PROVE IInv'
<1>1. TypeOK /\ attestor = "cloudflare" /\ job[w].pc = "lookup"
      /\ UNCHANGED <<now, platform, cache, jwksMu, slowest, newest>>
  BY DEF IInv, CloudflareLookup
<1>2. CASE Fresh(CloudflareTTL)
  <2>1. Hit(w)
    BY <1>2 DEF CloudflareLookup
  <2>2. CloudflareTTL \in Nat /\ FetchAge + CloudflareTTL <= UseAge + 1
    BY <1>1, DurationAssumption DEF FetchAge, UseAge
  <2> QED
    BY <1>1, <1>2, <2>1, <2>2, HitStep
<1>3. CASE ~Fresh(CloudflareTTL)
  <2>1. Miss(w)
    BY <1>3 DEF CloudflareLookup
  <2> QED
    BY <1>1, <2>1, MissStep
<1> QED
  BY <1>2, <1>3

\* A lookup in GitHub's cache.
LEMMA GitHubLookupStep ==
  ASSUME IInv, NEW w \in Worker, GitHubLookup(w) PROVE IInv'
<1>1. TypeOK /\ attestor = "github" /\ job[w].pc = "lookup" /\ jwksMu = NoWorker
      /\ UNCHANGED <<now, platform, cache, slowest, newest>>
  BY DEF IInv, GitHubLookup
<1>2. CASE Fresh(GitHubTTL)
  <2>1. Hit(w) /\ jwksMu' = jwksMu
    BY <1>2 DEF GitHubLookup
  <2>2. GitHubTTL \in Nat /\ FetchAge + GitHubTTL <= UseAge + 1
    BY <1>1, DurationAssumption DEF FetchAge, UseAge, TypeOK
  <2> QED
    BY <1>1, <1>2, <2>1, <2>2, HitStep
<1>3. CASE ~Fresh(GitHubTTL)
  <2>1. Miss(w) /\ jwksMu' = w
    BY <1>3 DEF GitHubLookup
  <2> QED
    BY <1>1, <2>1, MissStep
<1> QED
  BY <1>2, <1>3

\* An answer to GitHub's attestor.
LEMMA GitHubReceiveStep ==
  ASSUME IInv, NEW w \in Worker, GitHubReceive(w) PROVE IInv'
<1>1. /\ TypeOK /\ attestor = "github" /\ attestor' = attestor
      /\ now \in Nat /\ slowest \in Nat /\ job[w].sent \in Nat /\ job[w].sent <= now
  BY DEF IInv, TypeOK, Aged, GitHubReceive, Received, platform
<1>2. slowest' \in Nat /\ slowest <= slowest' /\ now <= job[w].sent + slowest'
  BY <1>1 DEF GitHubReceive
<1>3. now <= job[w].sent + FetchAge'
  BY <1>1, <1>2 DEF FetchAge
<1> QED
  BY <1>1, <1>2, <1>3, StoreStep DEF GitHubReceive

\* An answer to Cloudflare's attestor, in time.
LEMMA CloudflareReceiveStep ==
  ASSUME IInv, NEW w \in Worker, CloudflareReceive(w) PROVE IInv'
<1>1. /\ TypeOK /\ attestor = "cloudflare" /\ attestor' = attestor
      /\ slowest' = slowest /\ slowest \in Nat
  BY DEF IInv, TypeOK, CloudflareReceive, Received, platform
<1>2. now <= job[w].sent + FetchAge'
  BY <1>1 DEF FetchAge, CloudflareReceive, InTime
<1> QED
  BY <1>1, <1>2, StoreStep DEF CloudflareReceive

\* Every step of a request.
LEMMA RequestStep ==
  ASSUME IInv, NEW w \in Worker, Step(w) PROVE IInv'
<1>1. CASE CloudflareLookup(w)
  BY <1>1, CloudflareLookupStep
<1>2. CASE GitHubLookup(w)
  BY <1>2, GitHubLookupStep
<1>3. CASE DenoRequest(w)
  BY <1>3, MissStep DEF DenoRequest
<1>4. CASE Serve(w)
  BY <1>4, ServeStep
<1>5. CASE FetchFails(w)
  BY <1>5, FailStep
<1>6. CASE CloudflareReceive(w)
  BY <1>6, CloudflareReceiveStep
<1>7. CASE GitHubReceive(w)
  BY <1>7, GitHubReceiveStep
<1>8. CASE DenoReceive(w)
  BY <1>8, DenoReceiveStep
<1>9. CASE CloudflareVerify(w)
  <2>1. (now <= job[w].tok.exp) \in BOOLEAN
    OBVIOUS
  <2> QED
    BY <1>9, <2>1, DecideStep DEF CloudflareVerify
<1>10. CASE GitHubVerify(w)
  BY <1>10, GitHubVerifyStep
<1>11. CASE DenoVerify(w)
  <2>1. (now <= job[w].tok.exp) \in BOOLEAN
    OBVIOUS
  <2> QED
    BY <1>11, <2>1, DecideStep DEF DenoVerify
<1> QED
  BY <1>1, <1>2, <1>3, <1>4, <1>5, <1>6, <1>7, <1>8, <1>9, <1>10, <1>11 DEF Step

\* Before the first request there is no key set to be too old.
LEMMA IInvInit == Init => IInv
<1> SUFFICES ASSUME Init PROVE IInv
  OBVIOUS
<1>1. TypeOK
  BY DEF Init, TypeOK, Blank, Ended
<1>2. PlatformOK /\ MutexReleased
  BY DEF Init, PlatformOK, MutexReleased
<1>3. CacheOK
  <2>1. KeySet.version \in Nat
    BY <1>1, KeySetType DEF Snap
  <2> QED
    BY <2>1 DEF Init, CacheOK, CacheVersion
<1>4. \A w \in Worker : HoldsInput(w) /\ Aged(w) /\ Versions(w) /\ Locked(w)
  BY DEF Init, HoldsInput, Aged, Versions, Locked, Blank, Decided
<1> QED
  BY <1>1, <1>2, <1>3, <1>4 DEF IInv

\* Every step preserves the invariant.
LEMMA IInvStep == IInv /\ [Next]_vars => IInv'
<1> SUFFICES ASSUME IInv, [Next]_vars PROVE IInv'
  OBVIOUS
<1>1. CASE Tick
  BY <1>1, TickStep
<1>2. CASE \E k \in Key : Publish(k) \/ Retire(k)
  BY <1>2, PublishStep, RetireStep
<1>3. ASSUME NEW w \in Worker, NEW tok \in Token,
             CloudflareAttest(w, tok) \/ GitHubAttest(w, tok) \/ DenoAttest(w, tok)
      PROVE  IInv'
  <2>1. tok.trusted \in BOOLEAN
    BY TokenAssumption
  <2> QED
    BY <1>3, <2>1, BeginStep DEF CloudflareAttest, GitHubAttest, DenoAttest
<1>4. CASE \E w \in Worker : Step(w)
  BY <1>4, RequestStep
<1>5. CASE UNCHANGED vars
  <2>1. TypeOK /\ TypeOK' /\ PlatformOK'
    BY <1>5 DEF IInv, TypeOK, PlatformOK, vars
  <2>2. PlatformStep /\ now <= now'
    BY <1>5, <2>1 DEF PlatformStep, TypeOK, vars
  <2> QED
    BY <1>5, <2>1, <2>2, WorldStep DEF vars
<1> QED
  BY <1>1, <1>2, <1>3, <1>4, <1>5 DEF Next

\* The invariant holds throughout.
LEMMA IInvAlways == Spec => []IInv
BY IInvInit, IInvStep, PTL DEF Spec

-----------------------------------------------------------------------------
(* The theorems                                                            *)

\* The state stays typed, and no request reaches its decision without a key set,
\* however the fetch went (getJWKS, fetchJWKS).
THEOREM TypeCorrect == Spec => []TypeOK
BY IInvAlways, PTL DEF IInv

\* GitHub's mutex is held only by a request that is fetching: every way out of getJWKS
\* frees it.
THEOREM MutexReleasedAlways == Spec => []MutexReleased
BY IInvAlways, PTL DEF IInv

\* GitHub's attestor never decides with keys older than those of a decision that came
\* before the request, because the mutex is kept across the fetch.
THEOREM KeysNeverOlderAlways == Spec => []KeysNeverOlder
<1>1. IInv => KeysNeverOlder
  <2> SUFFICES ASSUME IInv, NEW w \in Worker, attestor = "github", job[w].pc \in Decided
               PROVE  job[w].snap.version >= job[w].floor
    BY DEF KeysNeverOlder, Decided
  <2>1. job[w].snap.version \in Nat /\ job[w].floor \in Nat
    BY DEF IInv, HoldsInput, Snap, TypeOK
  <2> QED
    BY <2>1 DEF IInv, Versions
<1> QED
  BY <1>1, IInvAlways, PTL

\* What is as recent as a decision's key set must be is within the bound.
LEMMA AgeIsWithin ==
  ASSUME attestor \in Attestor, slowest \in Nat, NEW t \in Nat, NEW bound \in Nat, t <= bound + UseAge
  PROVE  Within(t, bound)
<1>1. CASE attestor = "cloudflare"
  BY <1>1, DurationAssumption DEF Within, UseAge
<1>2. CASE attestor = "github"
  BY <1>2, DurationAssumption DEF Within, UseAge
<1>3. CASE attestor = "deno"
  BY <1>3, DurationAssumption DEF Within, UseAge
<1> QED
  BY <1>1, <1>2, <1>3 DEF Attestor

\* A token of a retired key is accepted for no longer than the cache lifetime and one
\* fetch, for every lifetime, timeout and number of overlapping fetches.
THEOREM RetiredKeyDiesAlways == Spec => []RetiredKeyDies
<1>1. IInv => RetiredKeyDies
  <2> SUFFICES ASSUME IInv, NEW w \in Worker, job[w].pc = "accepted", gone[job[w].tok.key] # Never
               PROVE  Within(job[w].got, gone[job[w].tok.key])
    BY DEF RetiredKeyDies
  <2>1. job[w].tok.key \in Key /\ job[w].tok.key \in job[w].snap.keys
    BY TokenAssumption DEF IInv, HoldsInput
  <2>2. job[w].got <= gone[job[w].tok.key] + UseAge
    BY <2>1 DEF IInv, Aged, Decided, Recent
  <2>3. gone[job[w].tok.key] \in Nat /\ job[w].got \in Nat /\ slowest \in Nat /\ attestor \in Attestor
    BY <2>1 DEF IInv, TypeOK
  <2> QED
    BY <2>2, <2>3, AgeIsWithin
<1> QED
  BY <1>1, IInvAlways, PTL

\* A key that has been published for that long, and still is, is never unknown to the
\* attestor, for every lifetime, timeout and number of overlapping fetches.
THEOREM PublishedKeyWorksAlways == Spec => []PublishedKeyWorks
<1>1. IInv => PublishedKeyWorks
  <2> SUFFICES ASSUME IInv, NEW w \in Worker, job[w].pc = "badSignature", job[w].tok.key \in Live
               PROVE  Within(job[w].got, born[job[w].tok.key])
    BY DEF PublishedKeyWorks
  <2>1. job[w].tok.key \in Key /\ job[w].tok.key \notin job[w].snap.keys
    BY TokenAssumption DEF IInv, HoldsInput
  <2>2. born[job[w].tok.key] # Never /\ gone[job[w].tok.key] = Never
    BY DEF Live
  <2>3. job[w].got <= born[job[w].tok.key] + UseAge
    BY <2>1, <2>2 DEF IInv, Aged, Decided, Recent
  <2>4. born[job[w].tok.key] \in Nat /\ job[w].got \in Nat /\ slowest \in Nat /\ attestor \in Attestor
    BY <2>1, <2>2 DEF IInv, TypeOK
  <2> QED
    BY <2>3, <2>4, AgeIsWithin
<1> QED
  BY <1>1, IInvAlways, PTL
=============================================================================
