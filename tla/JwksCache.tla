----------------------------- MODULE JwksCache -----------------------------
(***************************************************************************)
(* The attestors that verify a platform's JWT with the platform's rotating *)
(* keys (internal/attestor): Cloudflare caches the key set per URL and     *)
(* fetches outside its lock, GitHub holds its mutex across the fetch, Deno *)
(* fetches for every token.  Requests run concurrently while the platform  *)
(* publishes and retires keys and its endpoint is slow or fails.  The      *)
(* attestors share no state, so a behaviour is about one of them.          *)
(*                                                                         *)
(* Local computation takes no time: the clock moves while a request waits  *)
(* for the endpoint, for GitHub's mutex, or to be scheduled between its    *)
(* steps, but a body that has been read is stored at once.                 *)
(***************************************************************************)
EXTENDS Naturals, FiniteSets

CONSTANTS
  Worker,         \* requests that can be under way at once
  Key,            \* the platform's signing keys
  Token,          \* [key, trusted, exp]: signing key; issuer and repository
                  \* are configured; expiry
  CloudflareTTL,  \* jwksCacheTTL
  GitHubTTL,      \* jwksCacheDuration
  Timeout,        \* http.Client.Timeout of Cloudflare and Deno; GitHub's client has none
  Leeway,         \* leeway of go-jose's Claims.Validate, which GitHub uses
  Never,          \* the time of an event that has not happened
  NoToken,        \* no token
  NoSnap,         \* no key set
  NoWorker,       \* the mutex is free
  MaxNow          \* bound: the clock

ASSUME DurationAssumption ==
  CloudflareTTL \in Nat \ {0} /\ GitHubTTL \in Nat \ {0} /\ Timeout \in Nat /\ Leeway \in Nat /\ MaxNow \in Nat
ASSUME NeverAssumption == Never \notin Nat
ASSUME NoWorkerAssumption == NoWorker \notin Worker
ASSUME KeyAssumption == IsFiniteSet(Key)
ASSUME NoSnapAssumption == NoSnap \notin [keys : SUBSET Key, version : Nat]
ASSUME TokenAssumption == Token \subseteq [key : Key, trusted : BOOLEAN, exp : Nat]

VARIABLES
  now,
  born, gone,  \* when the platform published and retired each key, or Never
  attestor,    \* the attestor this behaviour is about
  cache,       \* keyCache[certsURL], or cachedJWKS and jwksFetched
  jwksMu,      \* holder of GitHub's mutex
  job,         \* state of each request's Attest
  slowest,     \* history: the longest fetch GitHub's attestor stored
  newest       \* history: the latest key set GitHub's attestor decided with

vars == <<now, born, gone, attestor, cache, jwksMu, job, slowest, newest>>
platform == <<born, gone, attestor>>

Attestor == {"cloudflare", "github", "deno"}
Ended == {"idle", "accepted", "badSignature"}

Live == {k \in Key : born[k] # Never /\ gone[k] = Never}

\* The key set the platform serves now, and how many changes led to it.
KeySet ==
  [keys |-> Live,
   version |-> Cardinality({k \in Key : born[k] # Never}) + Cardinality({k \in Key : gone[k] # Never})]

\* No request, or one that has failed.
Blank == [pc |-> "idle", tok |-> NoToken, sent |-> 0, snap |-> NoSnap, got |-> 0, floor |-> 0]

Init ==
  /\ now = 0
  /\ born = [k \in Key |-> Never] /\ gone = [k \in Key |-> Never]
  /\ attestor \in Attestor
  /\ cache = [snap |-> NoSnap, fetchedAt |-> 0]
  /\ jwksMu = NoWorker
  /\ job = [w \in Worker |-> Blank]
  /\ slowest = 0 /\ newest = 0

-----------------------------------------------------------------------------
(* The platform and the clock                                              *)

Tick ==
  /\ now < MaxNow
  /\ now' = now + 1
  /\ UNCHANGED <<platform, cache, jwksMu, job, slowest, newest>>

Publish(k) ==
  /\ born[k] = Never
  /\ born' = [born EXCEPT ![k] = now]
  /\ UNCHANGED <<now, gone, attestor, cache, jwksMu, job, slowest, newest>>

Retire(k) ==
  /\ k \in Live
  /\ gone' = [gone EXCEPT ![k] = now]
  /\ UNCHANGED <<now, born, attestor, cache, jwksMu, job, slowest, newest>>

-----------------------------------------------------------------------------
(* Attest, up to the key set                                               *)

\* A token that is not even worth a key set is refused at once.
Begin(w, a, tok, worth) ==
  /\ attestor = a /\ job[w].pc \in Ended
  /\ job' = [job EXCEPT ![w] =
       IF worth THEN [Blank EXCEPT !.pc = "lookup", !.tok = tok, !.floor = newest] ELSE Blank]
  /\ UNCHANGED <<now, platform, cache, jwksMu, slowest, newest>>

\* Cloudflare and Deno pick the key set by the issuer that the unverified token
\* claims, which must be configured; GitHub has one issuer and checks it later.
CloudflareAttest(w, tok) == Begin(w, "cloudflare", tok, tok.trusted)
GitHubAttest(w, tok) == Begin(w, "github", tok, TRUE)
DenoAttest(w, tok) == Begin(w, "deno", tok, tok.trusted)

\* Mutant: a cached key set is used up to and including its last moment.
FreshInclusive(ttl) == cache.snap # NoSnap /\ now - cache.fetchedAt <= ttl

Fresh(ttl) == cache.snap # NoSnap /\ now - cache.fetchedAt < ttl

Hit(w) == job' = [job EXCEPT ![w].pc = "verify", ![w].snap = cache.snap, ![w].got = now]
Miss(w) == job' = [job EXCEPT ![w].pc = "fetch", ![w].sent = now]

\* The read lock covers the lookup only: several requests may miss and fetch.
CloudflareLookup(w) ==
  /\ attestor = "cloudflare" /\ job[w].pc = "lookup"
  /\ IF Fresh(CloudflareTTL) THEN Hit(w) ELSE Miss(w)
  /\ UNCHANGED <<now, platform, cache, jwksMu, slowest, newest>>

\* Mutant: the mutex is released before the fetch.
GitHubLookupUnlocks(w) ==
  /\ attestor = "github" /\ job[w].pc = "lookup"
  /\ jwksMu = NoWorker
  /\ IF Fresh(GitHubTTL) THEN Hit(w) ELSE Miss(w)
  /\ UNCHANGED <<now, platform, cache, jwksMu, slowest, newest>>

\* The mutex is taken, and kept across the fetch when the cache does not serve.
GitHubLookup(w) ==
  /\ attestor = "github" /\ job[w].pc = "lookup"
  /\ jwksMu = NoWorker
  /\ IF Fresh(GitHubTTL) THEN Hit(w) /\ UNCHANGED jwksMu ELSE Miss(w) /\ jwksMu' = w
  /\ UNCHANGED <<now, platform, cache, slowest, newest>>

DenoRequest(w) ==
  /\ attestor = "deno" /\ job[w].pc = "lookup"
  /\ Miss(w)
  /\ UNCHANGED <<now, platform, cache, jwksMu, slowest, newest>>

-----------------------------------------------------------------------------
(* The fetch                                                               *)

\* The endpoint answers with the keys of this moment; the answer is on its way.
Serve(w) ==
  /\ job[w].pc = "fetch"
  /\ job' = [job EXCEPT ![w].pc = "receive", ![w].snap = KeySet]
  /\ UNCHANGED <<now, platform, cache, jwksMu, slowest, newest>>

Received(w, a) ==
  /\ attestor = a /\ job[w].pc = "receive"
  /\ job' = [job EXCEPT ![w].pc = "verify", ![w].got = now, ![w].sent = 0]

Fail(w) == job' = [job EXCEPT ![w] = Blank]

InTime(w) == now <= job[w].sent + Timeout

CloudflareReceive(w) ==
  /\ Received(w, "cloudflare") /\ InTime(w)
  /\ cache' = [snap |-> job[w].snap, fetchedAt |-> now]
  /\ UNCHANGED <<now, platform, jwksMu, slowest, newest>>

\* Mutant: the time of the fetch is stored, the keys are not replaced.
GitHubReceiveKeepsKeys(w) ==
  /\ Received(w, "github")
  /\ cache' = [snap |-> IF cache.snap = NoSnap THEN job[w].snap ELSE cache.snap, fetchedAt |-> now]
  /\ jwksMu' = NoWorker
  /\ slowest' = IF now - job[w].sent > slowest THEN now - job[w].sent ELSE slowest
  /\ UNCHANGED <<now, platform, newest>>

GitHubReceive(w) ==
  /\ Received(w, "github")
  /\ cache' = [snap |-> job[w].snap, fetchedAt |-> now]
  /\ jwksMu' = NoWorker
  /\ slowest' = IF now - job[w].sent > slowest THEN now - job[w].sent ELSE slowest
  /\ UNCHANGED <<now, platform, newest>>

DenoReceive(w) ==
  /\ Received(w, "deno") /\ InTime(w)
  /\ UNCHANGED <<now, platform, cache, jwksMu, slowest, newest>>

\* Mutant: the error is dropped.
FetchErrorDropped(w) ==
  /\ job[w].pc \in {"fetch", "receive"}
  /\ job' = [job EXCEPT ![w].pc = "verify"]
  /\ jwksMu' = IF jwksMu = w THEN NoWorker ELSE jwksMu
  /\ UNCHANGED <<now, platform, cache, slowest, newest>>

\* Mutant: the error return forgets the mutex.
FetchFailsLocked(w) ==
  /\ job[w].pc \in {"fetch", "receive"}
  /\ Fail(w)
  /\ UNCHANGED <<now, platform, cache, jwksMu, slowest, newest>>

\* No answer, a bad one, the timeout, or the workload hung up: the attestation fails;
\* a key set that is cached already but too old is not fallen back on.
FetchFails(w) ==
  /\ job[w].pc \in {"fetch", "receive"}
  /\ Fail(w)
  /\ jwksMu' = IF jwksMu = w THEN NoWorker ELSE jwksMu
  /\ UNCHANGED <<now, platform, cache, slowest, newest>>

-----------------------------------------------------------------------------
(* Attest, from the key set on                                             *)

\* The signature is checked with the keys obtained, then the claims.
Decide(w, a, valid) ==
  /\ attestor = a /\ job[w].pc = "verify"
  /\ \/ /\ job[w].tok.key \notin job[w].snap.keys
        /\ job' = [job EXCEPT ![w].pc = "badSignature"]
     \/ /\ job[w].tok.key \in job[w].snap.keys
        /\ IF valid THEN job' = [job EXCEPT ![w].pc = "accepted"] ELSE Fail(w)

CloudflareVerify(w) ==
  /\ Decide(w, "cloudflare", now <= job[w].tok.exp)
  /\ UNCHANGED <<now, platform, cache, jwksMu, slowest, newest>>

\* GitHub checks issuer, times and repository after the signature.
GitHubVerify(w) ==
  /\ Decide(w, "github", job[w].tok.trusted /\ now <= job[w].tok.exp + Leeway)
  /\ newest' = IF job[w].snap.version > newest THEN job[w].snap.version ELSE newest
  /\ UNCHANGED <<now, platform, cache, jwksMu, slowest>>

DenoVerify(w) ==
  /\ Decide(w, "deno", now <= job[w].tok.exp)
  /\ UNCHANGED <<now, platform, cache, jwksMu, slowest, newest>>

-----------------------------------------------------------------------------
Step(w) ==
  \/ CloudflareLookup(w) \/ GitHubLookup(w) \/ DenoRequest(w)
  \/ Serve(w) \/ FetchFails(w)
  \/ CloudflareReceive(w) \/ GitHubReceive(w) \/ DenoReceive(w)
  \/ CloudflareVerify(w) \/ GitHubVerify(w) \/ DenoVerify(w)

Next ==
  \/ Tick
  \/ \E k \in Key : Publish(k) \/ Retire(k)
  \/ \E w \in Worker, tok \in Token : CloudflareAttest(w, tok) \/ GitHubAttest(w, tok) \/ DenoAttest(w, tok)
  \/ \E w \in Worker : Step(w)

Spec == Init /\ [][Next]_vars

-----------------------------------------------------------------------------
(* Properties                                                              *)

Snap == [keys : SUBSET Key, version : Nat]

\* Types; a request that decides on a token has a key set to decide with, although
\* the fetch for it may have failed in any way.
TypeOK ==
  /\ now \in Nat
  /\ born \in [Key -> Nat \cup {Never}] /\ gone \in [Key -> Nat \cup {Never}]
  /\ attestor \in Attestor
  /\ cache \in [snap : Snap \cup {NoSnap}, fetchedAt : Nat]
  /\ jwksMu \in Worker \cup {NoWorker}
  /\ job \in [Worker -> [pc : Ended \cup {"lookup", "fetch", "receive", "verify"},
                         tok : Token \cup {NoToken}, sent : Nat, snap : Snap \cup {NoSnap}, got : Nat, floor : Nat]]
  /\ \A w \in Worker : job[w].pc \in {"receive", "verify"} => job[w].snap # NoSnap
  /\ slowest \in Nat /\ newest \in Nat

\* How old the keys that decide on a token may be: the attestor's cache lifetime and
\* the longest a fetch can take, which for GitHub is as long as a fetch did take.
Within(t, bound) ==
  CASE attestor = "cloudflare" -> t < bound + CloudflareTTL + Timeout
    [] attestor = "github"     -> t < bound + GitHubTTL + slowest
    [] attestor = "deno"       -> t <= bound + Timeout

\* A token signed with a key that the platform has retired is accepted for no longer
\* than the cache lifetime and one fetch: also when a slow fetch that was answered
\* before the key was retired overwrites the newer key set of a fast one.
RetiredKeyDies ==
  \A w \in Worker :
    job[w].pc = "accepted" /\ gone[job[w].tok.key] # Never
      => Within(job[w].got, gone[job[w].tok.key])

\* A key that has been published for that long, and is published still, is known to
\* the attestor: no token it signed is refused for its signature.
PublishedKeyWorks ==
  \A w \in Worker :
    job[w].pc = "badSignature" /\ job[w].tok.key \in Live
      => Within(job[w].got, born[job[w].tok.key])

\* GitHub's attestor never goes back to an older key set: a request that came after
\* another was decided is decided with keys at least as recent.
KeysNeverOlder ==
  \A w \in Worker :
    attestor = "github" /\ job[w].pc \in {"verify", "accepted", "badSignature"}
      => job[w].snap.version >= job[w].floor

\* The mutex is held by a request that is fetching, and by no request that has ended,
\* whichever way it ended.
MutexReleased ==
  jwksMu # NoWorker => attestor = "github" /\ job[jwksMu].pc \in {"fetch", "receive"}
=============================================================================
