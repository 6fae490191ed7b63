----------------------------- MODULE X509Source -----------------------------
(***************************************************************************)
(* The Go SDK's X509Source (sdk/go/x509source.go): an X.509 SVID and a     *)
(* trust bundle that a background goroutine renews by two requests of the  *)
(* client (sdk/go/client.go), against readers, Close, a cancelled context, *)
(* a server that fails or never answers and a root that changes.           *)
(*                                                                         *)
(* Durations count down in units of time.Duration, so nothing here is      *)
(* bounded by a clock.  The goroutine is scheduled at once: time passes    *)
(* only while it waits for its timer or for an answer.                     *)
(***************************************************************************)
EXTENDS Naturals

CONSTANTS
  Lifetime,   \* what an SVID has left when the server signs it
  CredLife,   \* how long the attestor's evidence is accepted; Forever: gathered anew
  Forever,
  Second,     \* the wait of refreshLoop once no half-life is left
  Latency,    \* the longest that an answered call takes
  NoSvid,
  MaxRoots,   \* bound: roots the server goes through
  Cap         \* bound: the histories stop counting here

ASSUME SecondAssumption == Second \in Nat \ {0} /\ Latency \in Nat
ASSUME LifetimeAssumption ==
  /\ Lifetime \subseteq Nat
  /\ \A l \in Lifetime : l > 1 /\ l > 6 * Latency  \* two calls bring it, two renew it in half of the rest
  /\ \E n \in Lifetime : \A l \in Lifetime : l <= n  \* the server caps its TTL
ASSUME CredAssumption == CredLife \subseteq Nat \cup {Forever} /\ Forever \notin Nat
ASSUME NoSvidAssumption == NoSvid \notin [root : Nat, left : Nat, life : Nat]
ASSUME BoundAssumption == MaxRoots \in Nat \ {0} /\ Cap \in Nat

VARIABLES
  svid, bundle,   \* X509Source.svid and .bundle; a bundle is the root it holds
  close,          \* Close: not called, past cancel(), returned (X509Source.closed)
  done,           \* the context of the source is done
  pc,             \* where NewX509Source and then refreshLoop are
  timer,          \* until time.After fires
  got, gotBundle, \* what refresh has been answered so far, on its way or received
  age,            \* how long the call under way has taken
  hung,           \* nobody will answer the call under way
  root, cred,     \* the server's root; what the evidence has left
  calm,           \* history: time since a call failed
  settled,        \* history: time since the server's root changed
  pow             \* history: 2 to the number of failed refreshes of an SVID with time left

vars == <<svid, bundle, close, done, pc, timer, got, gotBundle, age, hung,
          root, cred, calm, settled, pow>>
held == <<svid, bundle, got, gotBundle, timer>>
world == <<root, cred, settled>>

\* A call is under way: the request is, or the answer.
Calling == {"attest", "svidSent", "bundle", "bundleSent"}

Svid == [root : 1..MaxRoots, left : Nat, life : Lifetime]

Init ==
  /\ svid = NoSvid /\ bundle = 0
  /\ close = "no" /\ done = FALSE
  /\ pc = "new" /\ timer = 0
  /\ got = NoSvid /\ gotBundle = 0
  /\ age = 0 /\ hung = FALSE
  /\ root = 1 /\ cred \in CredLife
  /\ calm = 0 /\ settled = 0 /\ pow = 1

-----------------------------------------------------------------------------
(* refresh: AttestX509, then GetBundle, then both results under the lock   *)

Call(next) == pc' = next /\ age' = 0 /\ UNCHANGED hung

\* Mutant: NewX509Source goes on after a failed first refresh.
AfterErrorGoesOn == "check"

\* NewX509Source drops the source; refreshLoop ignores the error.
AfterError == IF svid = NoSvid THEN "new" ELSE "check"

\* Mutant: a refresh that fails leaves the trust bundle empty.
FailedForgets ==
  /\ pc' = AfterError
  /\ age' = 0 /\ hung' = FALSE
  /\ calm' = 0
  /\ pow' = IF svid # NoSvid /\ svid.left > 1 THEN 2 * pow ELSE pow
  /\ done' = (done /\ svid # NoSvid)
  /\ got' = NoSvid /\ gotBundle' = 0
  /\ bundle' = 0
  /\ UNCHANGED <<svid, timer, close, world>>

Failed ==
  /\ pc' = AfterError
  /\ age' = 0 /\ hung' = FALSE
  /\ calm' = 0
  /\ pow' = IF svid # NoSvid /\ svid.left > 1 THEN 2 * pow ELSE pow
  /\ done' = (done /\ svid # NoSvid)
  /\ got' = NoSvid /\ gotBundle' = 0
  /\ UNCHANGED <<svid, bundle, timer, close, world>>

NewX509Source ==
  /\ pc = "new"
  /\ Call("attest")
  /\ UNCHANGED <<held, close, done, world, calm, pow>>

\* There is evidence to send: a Cloudflare token is given once and runs out, GitHub's
\* is fetched for every call, AWS's is not implemented.
GatherEvidence == cred # 0

\* What is kept of an answer that parses: the roots and the times.
parseSVIDResponse(life) == [root |-> root, left |-> life, life |-> life]
parseBundleResponse == root

\* The server takes the evidence and signs; from then on the SVID gets older and the
\* root may change, while the answer is on its way.
ServerSigns(life) ==
  /\ pc = "attest" /\ ~hung /\ GatherEvidence /\ ~done
  /\ got' = parseSVIDResponse(life)
  /\ pc' = "svidSent"
  /\ UNCHANGED <<svid, bundle, gotBundle, timer, close, done, age, hung, world, calm, pow>>

\* The answer arrives.  (On a context that is done the SVID is lost with the GetBundle
\* that fails: CallFails.)
AttestX509 ==
  /\ pc = "svidSent" /\ ~hung /\ ~done
  /\ Call("bundle")
  /\ UNCHANGED <<held, close, done, world, calm, pow>>

ServerSendsBundle ==
  /\ pc = "bundle" /\ ~hung
  /\ gotBundle' = parseBundleResponse
  /\ pc' = "bundleSent"
  /\ UNCHANGED <<svid, bundle, got, timer, close, done, age, hung, world, calm, pow>>

GetBundle ==
  /\ pc = "bundleSent" /\ ~hung
  /\ Call("store")
  /\ UNCHANGED <<held, close, done, world, calm, pow>>

\* Refused, unreachable, an answer that does not parse, or the context is done.
CallFails == pc \in Calling /\ Failed

\* http.DefaultClient has no timeout: a call may stay out.
Hang ==
  /\ pc \in Calling /\ ~hung
  /\ hung' = TRUE
  /\ UNCHANGED <<held, close, done, pc, age, world, calm, pow>>

\* Mutant: the bundle that came with the first SVID is kept.
StoreSvidOnly ==
  /\ pc = "store"
  /\ svid' = got /\ bundle' = (IF bundle = 0 THEN gotBundle ELSE bundle)
  /\ got' = NoSvid /\ gotBundle' = 0
  /\ pc' = "check" /\ pow' = 1
  /\ UNCHANGED <<close, done, timer, age, hung, world, calm>>

\* No look at closed or at the context.
Store ==
  /\ pc = "store"
  /\ svid' = got /\ bundle' = gotBundle
  /\ got' = NoSvid /\ gotBundle' = 0
  /\ pc' = "check" /\ pow' = 1
  /\ UNCHANGED <<close, done, timer, age, hung, world, calm>>

-----------------------------------------------------------------------------
(* refreshLoop                                                             *)

\* Mutant: a fixed share of the lifetime, whatever is left.
HalfLifeFixed(s) == s.life \div 3

\* Mutant: all that is left rather than half of it.
HalfLifeAll(s) == IF s.left > 0 THEN s.left ELSE Second

\* Mutant: half of the whole lifetime rather than of what is left of it.
HalfLifeOfWhole(s) == s.life \div 2

HalfLife(s) == IF s.left \div 2 > 0 THEN s.left \div 2 ELSE Second

Check ==
  /\ pc = "check"
  /\ IF close = "yes"
     THEN pc' = "off" /\ UNCHANGED timer
     ELSE pc' = "wait" /\ timer' = HalfLife(svid)
  /\ UNCHANGED <<svid, bundle, got, gotBundle, close, done, age, hung, world, calm, pow>>

\* select: the timer; a refresh on a context that is done fails at once.
Wake ==
  /\ pc = "wait" /\ timer = 0
  /\ IF done
     THEN Failed
     ELSE Call("attest") /\ UNCHANGED <<held, close, done, world, calm, pow>>

\* Mutant: the loop does not listen to the context.
ExitOnCloseOnly ==
  /\ pc = "wait" /\ close = "yes"
  /\ pc' = "off"
  /\ UNCHANGED <<held, close, done, age, hung, world, calm, pow>>

\* select: the context is done; a timer that is due as well may win.
Exit ==
  /\ pc = "wait" /\ done
  /\ pc' = "off"
  /\ UNCHANGED <<held, close, done, age, hung, world, calm, pow>>

-----------------------------------------------------------------------------
(* The application and the world                                           *)

\* What readers get: nothing once the source is closed.
GetX509SVID == IF close = "yes" THEN NoSvid ELSE svid
GetX509BundleForTrustDomain == IF close = "yes" THEN 0 ELSE bundle

\* Close: cancel(), then the lock.
CloseCancels ==
  /\ svid # NoSvid /\ close = "no"
  /\ close' = "cancelled" /\ done' = TRUE
  /\ UNCHANGED <<held, pc, age, hung, world, calm, pow>>

CloseReturns ==
  /\ close = "cancelled"
  /\ close' = "yes"
  /\ UNCHANGED <<held, done, pc, age, hung, world, calm, pow>>

\* The context given to NewX509Source ends: a deadline, the caller's own cancel.
CallerCancels ==
  /\ pc # "new" /\ ~done
  /\ done' = TRUE
  /\ UNCHANGED <<held, close, pc, age, hung, world, calm, pow>>

\* The server is restarted with a new root (module RootStore says when).
RootChanges ==
  /\ root < MaxRoots
  /\ root' = root + 1 /\ settled' = 0
  /\ UNCHANGED <<held, close, done, pc, age, hung, cred, calm, pow>>

Less(n) == IF n = 0 THEN 0 ELSE n - 1
More(n) == IF n < Cap THEN n + 1 ELSE n
Older(s) == IF s = NoSvid THEN s ELSE [s EXCEPT !.left = Less(@)]

Tick ==
  /\ \/ pc \in {"new", "off"}
     \/ pc = "wait" /\ timer > 0 /\ ~done
     \/ pc \in Calling /\ (hung \/ age < Latency) /\ ~done
  /\ svid' = Older(svid) /\ got' = Older(got)
  /\ timer' = Less(timer)
  /\ age' = IF pc \in Calling /\ ~hung THEN age + 1 ELSE age
  /\ cred' = IF cred = Forever THEN cred ELSE Less(cred)
  /\ calm' = More(calm) /\ settled' = More(settled)
  /\ UNCHANGED <<bundle, gotBundle, close, done, pc, hung, root, pow>>

Refresh == AttestX509 \/ GetBundle \/ Store \/ CallFails
Server == (\E life \in Lifetime : ServerSigns(life)) \/ ServerSendsBundle

Next ==
  \/ NewX509Source \/ Refresh \/ Server \/ Hang
  \/ Check \/ Wake \/ Exit
  \/ CloseCancels \/ CloseReturns \/ CallerCancels
  \/ RootChanges \/ Tick

Spec == Init /\ [][Next]_vars

\* The goroutine is scheduled, and net/http ends a call whose context is done.
Fairness ==
  /\ WF_vars(Store \/ Check \/ Wake \/ Exit)
  /\ WF_vars(done /\ CallFails)

FairSpec == Spec /\ Fairness

-----------------------------------------------------------------------------
(* Properties                                                              *)

\* Types; whatever the loop reads, it has an SVID to read.
TypeOK ==
  /\ svid \in Svid \cup {NoSvid} /\ got \in Svid \cup {NoSvid}
  /\ bundle \in 0..MaxRoots /\ gotBundle \in 0..MaxRoots
  /\ close \in {"no", "cancelled", "yes"} /\ done \in BOOLEAN
  /\ pc \in {"new", "store", "check", "wait", "off"} \cup Calling
  /\ pc \in {"check", "wait", "off"} => svid # NoSvid
  /\ timer \in Nat /\ age \in 0..Latency /\ hung \in BOOLEAN
  /\ root \in 1..MaxRoots /\ cred \in Nat \cup {Forever}
  /\ calm \in Nat /\ settled \in Nat /\ pow \in Nat

\* The trust bundle handed out is never older than the SVID beside it: the two requests
\* of a refresh may meet servers with different roots, in that order only.
BundleNotOlder ==
  GetX509SVID # NoSvid => GetX509SVID.root <= GetX509BundleForTrustDomain

\* What a source has it does not lose: no refresh that fails, hangs or is cut off by
\* Close takes away the SVID or the bundle, none brings back an older root in either.
LastGoodKept ==
  [][svid # NoSvid => svid' # NoSvid /\ svid.root <= svid'.root /\ bundle <= bundle']_vars

\* Half of the remaining time after every failure: a source hands out an expired SVID
\* only while calls keep failing (the last failure at most a second and one refresh
\* ago), while a call is out that nobody answers, or after its context has ended.
Larger(a, b) == IF a > b THEN a ELSE b
ExpiredByFailure ==
  GetX509SVID # NoSvid /\ GetX509SVID.left = 0 /\ ~done /\ ~hung
    => calm <= Larger(Second, 2 * Latency) + 2 * Latency

\* A new root reaches the workload by the next renewal: where a source trusts an older
\* root, the change is no longer ago than one wait and three calls (the one whose answer,
\* with the old root, was on its way, and the two of the renewal), or a call has failed
\* within one wait and two calls.
LongestWait == CHOOSE n \in {l \div 2 : l \in Lifetime} \cup {Second} :
                 \A m \in {l \div 2 : l \in Lifetime} \cup {Second} : m <= n
RootArrives ==
  GetX509SVID # NoSvid /\ GetX509BundleForTrustDomain < root /\ ~done /\ ~hung
    => settled <= LongestWait + 3 * Latency \/ calm <= LongestWait + 2 * Latency

\* The waits shrink while an SVID with time left cannot be renewed, yet the attempts
\* stay few: each failure uses up half of what was left.
FewAttempts == svid # NoSvid /\ svid.left > 1 => (svid.left - 1) * pow <= svid.life - 1

\* Close, or the end of the caller's context, ends the goroutine, wherever it is: in
\* its wait, in a call that nobody answers or between the calls of a refresh.
CloseStops == done ~> pc \in {"new", "off"}
=============================================================================
