-------------------------- MODULE X509Source_proofs --------------------------
(***************************************************************************)
(* Proofs about X509Source, for any lifetimes, latencies and number of     *)
(* root changes.  IInv follows a root through a refresh: from the server   *)
(* to the SVID answered, to the bundle answered after it, to what readers  *)
(* see.  Timely bounds what the refresh under way can still take, and sets *)
(* it against what the SVID has left and the time since a call failed.     *)
(***************************************************************************)
EXTENDS X509Source, TLAPS

\* The root of an SVID in hand is the server's or an older one; a bundle that has been
\* answered is not older than the SVID before it.
InOrder ==
  /\ pc \in {"svidSent", "bundle", "bundleSent", "store"} => got # NoSvid
  /\ got # NoSvid => got.root <= root
  /\ pc \in {"bundleSent", "store"} => got.root <= gotBundle

\* The two results are stored together.
StoredInOrder == svid # NoSvid => svid.root <= bundle

IInv == TypeOK /\ InOrder /\ StoredInOrder

-----------------------------------------------------------------------------
(* Time: how long the refresh under way can still take                     *)

Serving == svid # NoSvid /\ ~done /\ ~hung

Due(p, t, a) ==
  CASE p = "wait"                     -> t + 2 * Latency
    [] p \in {"attest", "svidSent"}   -> 2 * Latency - a
    [] p \in {"bundle", "bundleSent"} -> Latency - a
    [] OTHER                          -> 0

\* An SVID that can be waited with: the wait is half of it, and the rest covers a refresh.
Ample(left) == left > 1 /\ left > 4 * Latency

Patience == Larger(Second, 2 * Latency) + 2 * Latency

\* Who hangs is in a call; a loop that has ended, or a Close, ended the context.
Shape ==
  /\ hung => pc \in Calling
  /\ pc = "new" => svid = NoSvid
  /\ pc = "off" => done
  /\ close # "no" => done /\ svid # NoSvid
  /\ svid # NoSvid => svid.left <= svid.life
  /\ got # NoSvid => got.left <= got.life
  /\ pc = "wait" => timer <= LongestWait

\* The SVID loses no more than the calls take: the one that brings it and the next.
GotAmple ==
  /\ pc = "svidSent" /\ ~hung => got.left + age > 1 /\ got.left + age > 6 * Latency
  /\ pc \in {"bundle", "bundleSent"} /\ ~hung => got.left + age > 1 /\ got.left + age > 5 * Latency
  /\ pc = "store" => Ample(got.left)

\* The SVID outlives the refresh under way, or a failure is recent and will still be
\* when that refresh ends.
Outlives ==
  Serving => IF pc = "check" THEN Ample(svid.left) \/ calm = 0
                             ELSE svid.left > Due(pc, timer, age) \/ calm + Due(pc, timer, age) <= Patience

\* A bundle that is behind was when it came no longer than it was on its way, and will be
\* replaced in time, or a failure is recent.
CatchesUp ==
  /\ pc = "bundleSent" /\ ~hung => gotBundle = root \/ settled <= age
  /\ pc = "store" => gotBundle = root \/ settled <= Latency
  /\ Serving /\ bundle < root =>
       IF pc = "check" THEN settled <= Latency \/ calm = 0
                       ELSE \/ settled + Due(pc, timer, age) <= LongestWait + 3 * Latency
                            \/ calm + Due(pc, timer, age) <= LongestWait + 2 * Latency

\* What is left at the end of the wait has been halved once more than pow says.
Halved ==
  svid # NoSvid =>
    /\ svid.left > 1 => (svid.left - 1) * pow <= svid.life - 1
    /\ pc = "wait" /\ svid.left > timer + 1 => (svid.left - timer - 1) * (2 * pow) <= svid.life - 1
    /\ pc \in Calling /\ svid.left > 1 => (svid.left - 1) * (2 * pow) <= svid.life - 1

\* A source that is being made has nothing in hand.
LEMMA IInvInit == Init => IInv
<1> SUFFICES ASSUME Init PROVE IInv
  OBVIOUS
<1>1. /\ 0 \in 0..MaxRoots /\ 1 \in 1..MaxRoots /\ 0 \in 0..Latency /\ 0 \in Nat
      /\ cred \in Nat \cup {Forever}
  BY BoundAssumption, CredAssumption, SecondAssumption DEF Init
<1>2. TypeOK
  BY <1>1, Zenon DEF Init, TypeOK, Calling
<1> QED
  BY <1>2 DEF Init, IInv, InOrder, StoredInOrder

\* The wait is a duration, whatever the SVID has left.
LEMMA HalfLifeType == \A s \in Svid : HalfLife(s) \in Nat
BY SecondAssumption DEF HalfLife, Svid

\* Getting older changes what an SVID has left and nothing else.
LEMMA OlderType ==
  ASSUME NEW s \in Svid \cup {NoSvid}
  PROVE  /\ Older(s) \in Svid \cup {NoSvid}
         /\ s = NoSvid => Older(s) = NoSvid
         /\ s # NoSvid => Older(s).root = s.root /\ Older(s) \in Svid
BY DEF Older, Less, Svid

\* What stands for no SVID is none.
LEMMA NoSvidIsNone == NoSvid \notin Svid
<1>1. Lifetime \subseteq Nat /\ 1..MaxRoots \subseteq Nat
  BY LifetimeAssumption, BoundAssumption
<1>2. ASSUME NEW s \in Svid PROVE s \in [root : Nat, left : Nat, life : Nat]
  BY <1>1, <1>2 DEF Svid
<1> QED
  BY <1>2, NoSvidAssumption

\* A refresh that fails forgets what it had been answered.
LEMMA FailedStep == IInv /\ Failed => IInv'
<1> SUFFICES ASSUME IInv, Failed PROVE IInv'
  OBVIOUS
<1> USE DEF IInv, TypeOK, InOrder, StoredInOrder, Failed, AfterError, world, Calling
<1>1. 0 \in 0..MaxRoots /\ 0 \in 0..Latency /\ calm' \in Nat /\ pow' \in Nat
  BY SecondAssumption, BoundAssumption
<1>2. done' \in BOOLEAN /\ hung' \in BOOLEAN
  BY Zenon
<1>3. pc' \in {"new", "check"} /\ (pc' = "check" => svid # NoSvid)
  OBVIOUS
<1>4. UNCHANGED <<svid, bundle, timer, close, root, cred, settled>>
      /\ age' = 0 /\ got' = NoSvid /\ gotBundle' = 0
  OBVIOUS
<1>5. TypeOK'
  <2> HIDE DEF Failed
  <2> QED
    BY <1>1, <1>2, <1>3, <1>4
<1> QED
  BY <1>3, <1>4, <1>5

\* Every step of the goroutine, the application or the world keeps the order.
LEMMA IInvStep == IInv /\ [Next]_vars => IInv'
<1> USE SecondAssumption, LifetimeAssumption, CredAssumption, BoundAssumption
    DEF IInv, TypeOK, InOrder, StoredInOrder, Calling, held, world, Call
<1> SUFFICES ASSUME IInv, [Next]_vars PROVE IInv'
  OBVIOUS
<1>0. CASE UNCHANGED vars
  BY <1>0 DEF vars
<1>1. CASE NewX509Source
  BY <1>1 DEF NewX509Source
<1>2. ASSUME NEW life \in Lifetime, ServerSigns(life) PROVE IInv'
  <2>1. parseSVIDResponse(life) \in Svid /\ parseSVIDResponse(life).root = root
    BY DEF parseSVIDResponse, Svid
  <2>2. parseSVIDResponse(life) # NoSvid
    BY NoSvidAssumption DEF parseSVIDResponse
  <2> QED
    BY <1>2, <2>1, <2>2 DEF ServerSigns
<1>3. CASE ServerSendsBundle
  BY <1>3 DEF ServerSendsBundle, parseBundleResponse
<1>13. CASE AttestX509 \/ GetBundle
  BY <1>13 DEF AttestX509, GetBundle
<1>4. CASE Store
  BY <1>4 DEF Store
<1>5. CASE CallFails
  BY <1>5, FailedStep DEF CallFails
<1>6. CASE Hang
  BY <1>6 DEF Hang
<1>7. CASE Check
  BY <1>7, HalfLifeType DEF Check
<1>8. CASE Wake
  BY <1>8, FailedStep DEF Wake
<1>9. CASE Exit
  BY <1>9 DEF Exit
<1>10. CASE CloseCancels \/ CloseReturns \/ CallerCancels
  BY <1>10 DEF CloseCancels, CloseReturns, CallerCancels
<1>11. CASE RootChanges
  BY <1>11 DEF RootChanges, Svid
<1>12. CASE Tick
  <2>1. UNCHANGED <<bundle, gotBundle, close, done, pc, hung, root, pow>>
    BY <1>12 DEF Tick
  <2>2. svid' = Older(svid) /\ got' = Older(got)
    BY <1>12 DEF Tick
  <2>3. NoSvid \notin Svid
    BY NoSvidIsNone
  <2>4. /\ svid' \in Svid \cup {NoSvid}
        /\ svid' = NoSvid <=> svid = NoSvid
        /\ svid # NoSvid => svid'.root = svid.root
    BY <2>2, <2>3, OlderType
  <2>5. /\ got' \in Svid \cup {NoSvid}
        /\ got' = NoSvid <=> got = NoSvid
        /\ got # NoSvid => got'.root = got.root
    BY <2>2, <2>3, OlderType
  <2>6. timer' \in Nat /\ calm' \in Nat /\ settled' \in Nat
    BY <1>12 DEF Tick, Less, More
  <2>7. age' \in 0..Latency
    BY <1>12 DEF Tick
  <2>8. cred' \in Nat \cup {Forever}
    BY <1>12 DEF Tick, Less
  <2> QED
    BY <2>1, <2>4, <2>5, <2>6, <2>7, <2>8
<1> QED
  BY <1>0, <1>1, <1>2, <1>3, <1>4, <1>5, <1>6, <1>7, <1>8, <1>9, <1>10, <1>11, <1>12, <1>13
  DEF Next, Refresh, Server

\* The invariant holds of every source.
LEMMA IInvAlways == Spec => []IInv
BY IInvInit, IInvStep, PTL DEF Spec

\* Type correctness; in particular refreshLoop always finds an SVID to take its wait from.
THEOREM TypeCorrect == Spec => []TypeOK
<1>1. IInv => TypeOK
  BY DEF IInv
<1> QED
  BY <1>1, IInvAlways, PTL

\* Readers never get a trust bundle older than the root of the SVID beside it, for any
\* number of restarts with other roots, wherever in a refresh they fall.
THEOREM BundleNotOlderAlways == Spec => []BundleNotOlder
<1>1. IInv => BundleNotOlder
  BY DEF IInv, StoredInOrder, BundleNotOlder, GetX509SVID, GetX509BundleForTrustDomain
<1> QED
  BY <1>1, IInvAlways, PTL

-----------------------------------------------------------------------------
(* Time                                                                    *)

\* Half of a duration.
LEMMA HalfIs ==
  ASSUME NEW a \in Nat
  PROVE  a \div 2 \in Nat /\ 2 * (a \div 2) <= a /\ a <= 2 * (a \div 2) + 1
OBVIOUS

\* The longest wait is one: there is a longest lifetime.
LEMMA LongestWaitIs ==
  LongestWait \in Nat /\ Second <= LongestWait /\ \A l \in Lifetime : l \div 2 <= LongestWait
<1> DEFINE W == {l \div 2 : l \in Lifetime} \cup {Second}
<1>1. PICK top \in Lifetime : \A l \in Lifetime : l <= top
  BY LifetimeAssumption
<1>2. W \subseteq Nat
  BY LifetimeAssumption, SecondAssumption
<1>3. ASSUME NEW l \in Lifetime PROVE l \div 2 <= top \div 2
  <2>1. l \in Nat /\ top \in Nat /\ l <= top
    BY <1>1, LifetimeAssumption
  <2>2. /\ l \div 2 \in Nat /\ 2 * (l \div 2) <= l
        /\ top \div 2 \in Nat /\ top <= 2 * (top \div 2) + 1
    BY <2>1, HalfIs
  <2> QED
    BY <2>1, <2>2
<1>4. \E n \in W : \A m \in W : m <= n
  <2>1. Second \in W /\ top \div 2 \in W /\ Second \in Nat /\ top \div 2 \in Nat
    BY <1>1, <1>2
  <2>2. ASSUME NEW m \in W PROVE m = Second \/ m <= top \div 2
    BY <1>3
  <2>3. \A m \in W : m \in Nat
    BY <1>2
  <2> HIDE DEF W
  <2>4. CASE top \div 2 <= Second
    BY <2>1, <2>2, <2>3, <2>4
  <2>5. CASE Second <= top \div 2
    BY <2>1, <2>2, <2>3, <2>5
  <2> QED
    BY <2>1, <2>4, <2>5
<1>5. LongestWait \in W /\ \A m \in W : m <= LongestWait
  BY <1>4 DEF LongestWait
<1> QED
  BY <1>2, <1>5

\* A failed refresh.
Erred ==
  /\ svid' = svid /\ bundle' = bundle /\ root' = root /\ close' = close /\ settled' = settled
  /\ IF svid = NoSvid THEN pc' = "new" ELSE pc' = "check" /\ done' = done
  /\ ~hung' /\ calm' = 0 /\ got' = NoSvid
  /\ pow' = IF svid # NoSvid /\ svid.left > 1 THEN 2 * pow ELSE pow

\* What a failed refresh does.
LEMMA FailedErrs == IInv /\ Failed => Erred
<1> SUFFICES ASSUME IInv, Failed PROVE Erred
  OBVIOUS
<1>1. svid # NoSvid => done' = done
  BY DEF IInv, TypeOK, Failed
<1>2. ~hung'
  BY Zenon DEF Failed
<1> QED
  BY <1>1, <1>2 DEF Failed, AfterError, Erred, world

\* The wait that an SVID gives is no longer than the longest, leaves time for a refresh
\* when the SVID is ample, and is short when it is not.
LEMMA Waits ==
  ASSUME NEW s \in Svid, s.left <= s.life
  PROVE  /\ HalfLife(s) \in Nat /\ HalfLife(s) <= LongestWait
         /\ Ample(s.left) => s.left > HalfLife(s) + 2 * Latency
         /\ s.left > HalfLife(s) + 2 * Latency \/ HalfLife(s) <= Larger(Second, 2 * Latency)
         /\ s.left > HalfLife(s) + 1 => 2 * (s.left - HalfLife(s) - 1) <= s.left - 1
<1>1. s.left \in Nat /\ s.life \in Lifetime /\ s.life \in Nat
  BY LifetimeAssumption DEF Svid
<1>2. /\ s.left \div 2 \in Nat /\ 2 * (s.left \div 2) <= s.left /\ s.left <= 2 * (s.left \div 2) + 1
      /\ s.life \div 2 \in Nat /\ s.life <= 2 * (s.life \div 2) + 1
  BY <1>1, HalfIs
<1>3. LongestWait \in Nat /\ Second <= LongestWait /\ s.life \div 2 <= LongestWait
  BY <1>1, LongestWaitIs
<1>4. Larger(Second, 2 * Latency) \in Nat /\ Larger(Second, 2 * Latency) >= Second /\ Larger(Second, 2 * Latency) >= 2 * Latency
  BY SecondAssumption DEF Larger
<1>5. CASE s.left \div 2 > 0
  <2>1. HalfLife(s) = s.left \div 2
    BY <1>5 DEF HalfLife
  <2> QED
    BY <1>1, <1>2, <1>3, <1>4, <1>5, <2>1, SecondAssumption DEF Ample
<1>6. CASE ~(s.left \div 2 > 0)
  <2>1. HalfLife(s) = Second
    BY <1>6 DEF HalfLife
  <2> QED
    BY <1>1, <1>2, <1>3, <1>4, <1>6, <2>1, SecondAssumption DEF Ample
<1> QED
  BY <1>5, <1>6

\* What a unit of time does.
Aged ==
  /\ UNCHANGED <<bundle, gotBundle, close, done, pc, hung, root, pow>>
  /\ svid' = NoSvid <=> svid = NoSvid
  /\ svid # NoSvid => svid'.life = svid.life /\ svid'.left = Less(svid.left)
  /\ got' = NoSvid <=> got = NoSvid
  /\ got # NoSvid => got'.life = got.life /\ got'.left = Less(got.left)
  /\ timer' = Less(timer)
  /\ calm' <= calm + 1 /\ settled' <= settled + 1

\* Time takes from what is left and from nothing else; the histories count no faster.
LEMMA TickAges == IInv /\ Tick => Aged
<1> SUFFICES ASSUME IInv, Tick PROVE Aged
  OBVIOUS
<1>1. TypeOK /\ UNCHANGED <<bundle, gotBundle, close, done, pc, hung, root, pow>> /\ timer' = Less(timer)
  BY DEF IInv, Tick
<1>2. ASSUME NEW s \in Svid \cup {NoSvid}
      PROVE  /\ Older(s) = NoSvid <=> s = NoSvid
             /\ s # NoSvid => Older(s).life = s.life /\ Older(s).left = Less(s.left)
  BY OlderType, NoSvidIsNone DEF Older, Svid
<1>3. calm' <= calm + 1 /\ settled' <= settled + 1
  BY <1>1 DEF Tick, More, TypeOK
<1> QED
  BY <1>1, <1>2, <1>3 DEF Aged, Tick, TypeOK

\* Every step keeps the shape of a source.
LEMMA ShapeStep ==
  ASSUME IInv, IInv', Shape, [Next]_vars
  PROVE  Shape'
<1> USE DEF IInv, TypeOK, Shape, Calling, held, world, Call
<1>0. CASE UNCHANGED vars
  BY <1>0 DEF vars
<1>1. CASE NewX509Source
  BY <1>1 DEF NewX509Source
<1>2. ASSUME NEW life \in Lifetime, ServerSigns(life) PROVE Shape'
  <2>1. parseSVIDResponse(life).left <= parseSVIDResponse(life).life
    BY LifetimeAssumption DEF parseSVIDResponse
  <2> QED
    BY <1>2, <2>1 DEF ServerSigns
<1>3. CASE ServerSendsBundle \/ AttestX509 \/ GetBundle
  BY <1>3 DEF ServerSendsBundle, AttestX509, GetBundle
<1>4. CASE Store
  BY <1>4 DEF Store, InOrder
<1>5. CASE Failed
  BY <1>5, FailedErrs DEF Erred
<1>6. CASE Hang
  BY <1>6 DEF Hang
<1>7. CASE Check
  BY <1>7, Waits DEF Check
<1>8. CASE Wake /\ ~Failed
  BY <1>8 DEF Wake
<1>9. CASE Exit
  BY <1>9 DEF Exit
<1>10. CASE CloseCancels \/ CloseReturns \/ CallerCancels
  BY <1>10 DEF CloseCancels, CloseReturns, CallerCancels
<1>11. CASE RootChanges
  BY <1>11 DEF RootChanges
<1>12. CASE Tick
  <2>1. ASSUME NEW s \in Svid PROVE s.left \in Nat /\ s.life \in Nat
    BY LifetimeAssumption DEF Svid
  <2> QED
    BY <1>12, <2>1, TickAges, LongestWaitIs DEF Aged, Less
<1> QED
  BY <1>0, <1>1, <1>2, <1>3, <1>4, <1>5, <1>6, <1>7, <1>8, <1>9, <1>10, <1>11, <1>12
  DEF Next, Refresh, Server, CallFails

\* What is left of an SVID is a duration.
LEMMA LeftType ==
  ASSUME NEW s \in Svid
  PROVE  s.left \in Nat /\ s.life \in Nat /\ s.life \in Lifetime
BY LifetimeAssumption DEF Svid

\* How long the refresh under way can take, place by place.
DueByPlace(p, t, a) ==
  /\ Due(p, t, a) \in Nat
  /\ p = "wait" => Due(p, t, a) = t + 2 * Latency
  /\ p \in {"attest", "svidSent"} => Due(p, t, a) = 2 * Latency - a
  /\ p \in {"bundle", "bundleSent"} => Due(p, t, a) = Latency - a
  /\ p \in {"new", "store", "check", "off"} => Due(p, t, a) = 0

\* The case distinction of Due, unfolded.
LEMMA DueIs ==
  ASSUME NEW p \in {"new", "store", "check", "wait", "off"} \cup Calling, NEW t \in Nat, NEW a \in 0..Latency
  PROVE  DueByPlace(p, t, a)
<1> USE DEF DueByPlace
<1>1. a \in Nat /\ a <= Latency /\ Latency \in Nat
  BY SecondAssumption
<1>2. CASE p = "wait"
  BY <1>1, <1>2 DEF Due
<1>3. CASE p \in {"attest", "svidSent"}
  BY <1>1, <1>3 DEF Due
<1>4. CASE p \in {"bundle", "bundleSent"}
  BY <1>1, <1>4 DEF Due
<1>5. CASE p \in {"new", "store", "check", "off"}
  BY <1>1, <1>5 DEF Due
<1> QED
  BY <1>2, <1>3, <1>4, <1>5 DEF Calling

\* The refresh under way comes nearer.  A step that neither begins a wait nor ends a
\* refresh brings it no further off, and a unit of time brings it nearer by as much.
LEMMA DueStep ==
  ASSUME IInv, IInv', Shape, Serving', [Next]_vars, pc' # "check", pc # "check"
  PROVE  /\ Serving /\ Due(pc, timer, age) \in Nat /\ Due(pc', timer', age') \in Nat /\ bundle' = bundle
         /\ \/ /\ Due(pc', timer', age') <= Due(pc, timer, age) /\ svid' = svid /\ calm' = calm
               /\ (root' = root /\ settled' = settled) \/ settled' = 0
            \/ /\ Due(pc', timer', age') < Due(pc, timer, age) /\ Aged
<1> USE DEF IInv, TypeOK, Shape, Serving, Calling, held, world, Call
<1> USE DEF DueByPlace
<1>1. DueByPlace(pc, timer, age)
  BY DueIs
<1>2. DueByPlace(pc', timer', age')
  BY DueIs
<1>3. age \in Nat /\ age <= Latency /\ Latency \in Nat /\ age' \in Nat
  BY SecondAssumption
<1>4. CASE UNCHANGED vars
  BY <1>1, <1>2, <1>4 DEF vars
<1>5. CASE NewX509Source
  BY <1>5 DEF NewX509Source
<1>6. ASSUME NEW life \in Lifetime, ServerSigns(life)
      PROVE  Serving /\ bundle' = bundle /\ Due(pc', timer', age') <= Due(pc, timer, age) /\ UNCHANGED <<svid, calm, root, settled>>
  BY <1>1, <1>2, <1>3, <1>6 DEF ServerSigns
<1>7. CASE AttestX509 \/ GetBundle
  BY <1>1, <1>2, <1>3, <1>7 DEF AttestX509, GetBundle
<1>14. CASE ServerSendsBundle
  BY <1>1, <1>2, <1>3, <1>14 DEF ServerSendsBundle
<1>8. CASE Failed
  BY <1>8, FailedErrs DEF Erred
<1>9. CASE Wake /\ ~Failed
  <2>1. pc = "wait" /\ timer = 0 /\ pc' = "attest" /\ age' = 0 /\ UNCHANGED <<svid, bundle, done, hung, calm, root, settled>>
    BY <1>9 DEF Wake
  <2>2. Due(pc', timer', age') = Due(pc, timer, age)
    BY <1>1, <1>2, <1>3, <2>1
  <2> QED
    BY <1>1, <2>1, <2>2
<1>10. CASE Hang \/ Exit \/ CloseCancels \/ CloseReturns \/ CallerCancels
  <2>1. CASE Hang
    BY <2>1, Zenon DEF Hang
  <2>2. CASE Exit
    BY <2>2 DEF Exit
  <2>3. CASE CloseCancels \/ CallerCancels
    BY <2>3, Zenon DEF CloseCancels, CallerCancels
  <2>4. CASE CloseReturns
    BY <2>4 DEF CloseReturns
  <2> QED
    BY <1>10, <2>1, <2>2, <2>3, <2>4
<1>11. CASE RootChanges
  BY <1>1, <1>2, <1>3, <1>11 DEF RootChanges
<1>12. CASE Tick
  <2>1. Aged
    BY <1>12, TickAges
  <2>2. Serving
    BY <2>1 DEF Aged
  <2>3. Due(pc', timer', age') < Due(pc, timer, age)
    <3>1. CASE pc = "wait"
      <4>1. timer > 0 /\ timer' = timer - 1 /\ pc' = pc
        BY <1>12, <2>1, <3>1 DEF Tick, Aged, Less
      <4> QED
        BY <1>1, <1>2, <1>3, <3>1, <4>1
    <3>2. CASE pc \in Calling
      BY <1>1, <1>2, <1>3, <1>12, <2>2, <3>2 DEF Tick
    <3> QED
      BY <1>12, <2>2, <3>1, <3>2 DEF Tick
  <2> QED
    BY <1>1, <1>2, <2>1, <2>2, <2>3 DEF Aged
<1>13. CASE Store \/ Check
  BY <1>13 DEF Store, Check
<1> QED
  BY <1>1, <1>2, <1>4, <1>5, <1>6, <1>7, <1>8, <1>9, <1>10, <1>11, <1>12, <1>13, <1>14
  DEF Next, Refresh, Server, CallFails

\* The loop comes to its check with what it stored or after a failure.
LEMMA ToCheck ==
  ASSUME IInv, Shape, [Next]_vars, pc' = "check"
  PROVE  \/ Store \/ Erred
         \/ /\ pc = "check" /\ svid' = svid /\ calm' = calm /\ bundle' = bundle
            /\ done => done'
            /\ (root' = root /\ settled' = settled) \/ settled' = 0
<1> USE DEF Calling, held, world, Call
<1>1. CASE UNCHANGED vars
  BY <1>1 DEF vars
<1>2. CASE NewX509Source \/ Server \/ AttestX509 \/ GetBundle \/ Check \/ Exit
  BY <1>2 DEF NewX509Source, Server, ServerSigns, ServerSendsBundle, AttestX509, GetBundle, Check, Exit
<1>3. CASE CallFails \/ Wake
  BY <1>3, FailedErrs DEF CallFails, Wake
<1>4. CASE Hang
  BY <1>4 DEF Hang
<1>5. CASE CloseCancels \/ CallerCancels
  <2>1. pc' = pc /\ svid' = svid /\ calm' = calm /\ bundle' = bundle /\ root' = root /\ settled' = settled
    BY <1>5 DEF CloseCancels, CallerCancels
  <2>2. done'
    BY <1>5, Zenon DEF CloseCancels, CallerCancels
  <2> QED
    BY <2>1, <2>2
<1>6. CASE CloseReturns \/ RootChanges
  BY <1>6 DEF CloseReturns, RootChanges
<1>7. CASE Tick
  BY <1>7 DEF Tick
<1> QED
  BY <1>1, <1>2, <1>3, <1>4, <1>5, <1>6, <1>7 DEF Next, Refresh, Server

\* The loop leaves its check for a wait, if its context goes on.
LEMMA FromCheck ==
  ASSUME IInv, Shape', [Next]_vars, pc = "check", pc' # "check", Serving'
  PROVE  pc' = "wait" /\ timer' = HalfLife(svid) /\ UNCHANGED <<svid, calm, bundle, root, settled, done, hung, pow>>
<1>1. Check
  BY DEF Next, Refresh, Server, NewX509Source, ServerSigns, ServerSendsBundle, AttestX509, GetBundle, Store, CallFails, Hang, Wake, Exit,
         CloseCancels, CloseReturns, CallerCancels, RootChanges, Tick, vars, Calling
<1> QED
  BY <1>1 DEF Check, Shape, Serving, world

\* An SVID in hand stays ample while its bundle is fetched.
LEMMA GotAmpleStep ==
  ASSUME IInv, IInv', Shape, GotAmple, [Next]_vars
  PROVE  GotAmple'
<1> USE SecondAssumption DEF IInv, TypeOK, Shape, Calling, held, world, Call, InOrder, GotAmple, Ample
<1>0. CASE UNCHANGED vars
  BY <1>0 DEF vars
<1>1. CASE NewX509Source \/ Store \/ Check \/ Exit \/ CloseReturns \/ RootChanges
  BY <1>1 DEF NewX509Source, Store, Check, Exit, CloseReturns, RootChanges
<1>2. ASSUME NEW life \in Lifetime, ServerSigns(life) PROVE GotAmple'
  <2>1. parseSVIDResponse(life).left = life /\ life \in Nat /\ life > 1 /\ life > 6 * Latency
    BY LifetimeAssumption DEF parseSVIDResponse
  <2> QED
    BY <1>2, <2>1 DEF ServerSigns
<1>3. CASE GetBundle
  <2>1. pc = "bundleSent" /\ ~hung /\ got' = got /\ pc' = "store" /\ got.left \in Nat /\ age \in Nat /\ age <= Latency
    BY <1>3, LeftType DEF GetBundle
  <2>2. got.left + age > 1 /\ got.left + age > 5 * Latency
    BY <2>1
  <2>3. got.left > 4 * Latency /\ got.left > 1
    BY <2>1, <2>2
  <2> QED
    BY <2>1, <2>3
<1>8. CASE AttestX509
  <2>1. /\ pc = "svidSent" /\ ~hung /\ got' = got /\ pc' = "bundle" /\ age' = 0
        /\ got.left \in Nat /\ age \in Nat /\ age <= Latency
    BY <1>8, LeftType DEF AttestX509
  <2>2. got.left + age > 1 /\ got.left + age > 6 * Latency
    BY <2>1
  <2>3. got.left > 5 * Latency /\ got.left > 1
    BY <2>1, <2>2
  <2> QED
    BY <2>1, <2>3
<1>9. CASE ServerSendsBundle
  BY <1>9 DEF ServerSendsBundle
<1>4. CASE Failed
  BY <1>4, FailedErrs DEF Erred
<1>5. CASE Hang \/ CloseCancels \/ CallerCancels
  BY <1>5 DEF Hang, CloseCancels, CallerCancels
<1>6. CASE Wake /\ ~Failed
  BY <1>6 DEF Wake
<1>7. CASE Tick
  <2>1. got # NoSvid => got.left \in Nat
    BY LeftType
  <2> QED
    BY <1>7, <2>1, TickAges DEF Aged, Tick, Less
<1> QED
  BY <1>0, <1>1, <1>2, <1>3, <1>4, <1>5, <1>6, <1>7, <1>8, <1>9
  DEF Next, Refresh, Server, CallFails

\* No SVID runs out but after a failure: the wait is half of what is left, so that the
\* rest covers a refresh, or what was left is too little and the failure recent.
LEMMA OutlivesStep ==
  ASSUME IInv, IInv', Shape, Shape', GotAmple, Outlives, [Next]_vars
  PROVE  Outlives'
<1> SUFFICES ASSUME Serving'
             PROVE  IF pc' = "check" THEN Ample(svid'.left) \/ calm' = 0
                                     ELSE svid'.left > Due(pc', timer', age') \/ calm' + Due(pc', timer', age') <= Patience
  BY DEF Outlives
<1>1. /\ TypeOK /\ calm \in Nat /\ calm' \in Nat /\ Latency \in Nat /\ Second \in Nat
      /\ (svid # NoSvid => svid \in Svid) /\ (svid # NoSvid => svid.left \in Nat)
      /\ Patience \in Nat
  BY SecondAssumption, LeftType DEF IInv, TypeOK, Patience, Larger
<1>2. CASE pc' = "check"
  <2>1. CASE Store
    BY <1>2, <2>1 DEF Store, GotAmple
  <2>2. CASE Erred
    BY <1>2, <2>2 DEF Erred
  <2>3. CASE pc = "check" /\ svid' = svid /\ calm' = calm /\ (done => done')
    BY <1>2, <2>3 DEF Outlives, Serving, Shape, Calling
  <2> QED
    BY <1>2, <2>1, <2>2, <2>3, ToCheck
<1>3. CASE pc' # "check" /\ pc = "check"
  <2>1. pc' = "wait" /\ timer' = HalfLife(svid) /\ UNCHANGED <<svid, calm, done, hung>>
    BY <1>3, FromCheck
  <2>2. Due(pc', timer', age') = HalfLife(svid) + 2 * Latency
    BY <2>1, DueIs DEF IInv, TypeOK, DueByPlace
  <2>3. Serving
    BY <2>1 DEF Serving
  <2>4. /\ HalfLife(svid) \in Nat
        /\ Ample(svid.left) => svid.left > HalfLife(svid) + 2 * Latency
        /\ svid.left > HalfLife(svid) + 2 * Latency \/ HalfLife(svid) <= Larger(Second, 2 * Latency)
    BY <1>1, <2>3, Waits DEF Serving, Shape
  <2>5. Ample(svid.left) \/ calm = 0
    BY <1>3, <2>3 DEF Outlives
  <2> QED
    BY <1>1, <1>3, <2>1, <2>2, <2>4, <2>5 DEF Patience, Larger
<1>4. CASE pc' # "check" /\ pc # "check"
  <2>1. /\ Serving /\ Due(pc, timer, age) \in Nat /\ Due(pc', timer', age') \in Nat
        /\ \/ Due(pc', timer', age') <= Due(pc, timer, age) /\ svid' = svid /\ calm' = calm
           \/ Due(pc', timer', age') < Due(pc, timer, age) /\ Aged
    BY <1>4, DueStep
  <2>2. svid.left > Due(pc, timer, age) \/ calm + Due(pc, timer, age) <= Patience
    BY <1>4, <2>1 DEF Outlives
  <2>3. CASE Due(pc', timer', age') <= Due(pc, timer, age) /\ svid' = svid /\ calm' = calm
    BY <1>1, <1>4, <2>1, <2>2, <2>3 DEF Serving
  <2>4. CASE Due(pc', timer', age') < Due(pc, timer, age) /\ Aged
    BY <1>1, <1>4, <2>1, <2>2, <2>4 DEF Serving, Aged, Less
  <2> QED
    BY <2>1, <2>3, <2>4
<1> QED
  BY <1>2, <1>3, <1>4

\* No bundle stays behind but after a failure: what is stored is the server's root, or
\* that changed just now, and the next refresh is no further off than the longest wait.
LEMMA CatchesUpStep ==
  ASSUME IInv, IInv', Shape, Shape', CatchesUp, [Next]_vars
  PROVE  CatchesUp'
<1>1. /\ TypeOK /\ calm \in Nat /\ calm' \in Nat /\ settled \in Nat /\ settled' \in Nat
      /\ Latency \in Nat /\ LongestWait \in Nat
      /\ bundle \in Nat /\ root \in Nat /\ root' \in Nat
  BY SecondAssumption, BoundAssumption, LongestWaitIs DEF IInv, TypeOK
<1>2. /\ pc' = "bundleSent" /\ ~hung' => gotBundle' = root' \/ settled' <= age'
      /\ pc' = "store" => gotBundle' = root' \/ settled' <= Latency
  <2> USE <1>1 DEF CatchesUp, Calling, held, world, Call
  <2>0. age \in Nat /\ age' \in Nat /\ age <= Latency
    BY SecondAssumption DEF IInv, TypeOK
  <2>1. CASE UNCHANGED vars
    BY <2>1 DEF vars
  <2>2. CASE ServerSendsBundle
    BY <2>2 DEF ServerSendsBundle, parseBundleResponse
  <2>3. CASE GetBundle
    BY <2>0, <2>3 DEF GetBundle
  <2>4. CASE Failed
    BY <2>4, FailedErrs DEF Erred
  <2>5. CASE Hang
    BY <2>5, Zenon DEF Hang
  <2>6. CASE CloseCancels \/ CloseReturns \/ CallerCancels
    BY <2>6 DEF CloseCancels, CloseReturns, CallerCancels
  <2>7. CASE RootChanges
    BY <2>0, <2>7 DEF RootChanges
  <2>8. CASE NewX509Source \/ AttestX509 \/ (\E life \in Lifetime : ServerSigns(life)) \/ Store \/ Check \/ (Wake /\ ~Failed) \/ Exit
    BY <2>8 DEF NewX509Source, AttestX509, ServerSigns, Store, Check, Wake, Exit
  <2>9. CASE Tick
    <3>1. pc' # "store" /\ UNCHANGED <<pc, hung, gotBundle, root>> /\ settled' <= settled + 1
      BY <2>9, TickAges DEF Tick, Aged
    <3>2. pc = "bundleSent" /\ ~hung => age' = age + 1
      BY <2>9 DEF Tick
    <3> QED
      BY <2>0, <3>1, <3>2
  <2> QED
    BY <2>1, <2>2, <2>3, <2>4, <2>5, <2>6, <2>7, <2>8, <2>9 DEF Next, Refresh, Server, CallFails
<1>3. ASSUME Serving', bundle' < root'
      PROVE  IF pc' = "check"
             THEN settled' <= Latency \/ calm' = 0
             ELSE settled' + Due(pc', timer', age') <= LongestWait + 3 * Latency \/ calm' + Due(pc', timer', age') <= LongestWait + 2 * Latency
  <2>1. CASE pc' = "check"
    <3>1. CASE Store
      BY <1>1, <1>3, <2>1, <3>1 DEF Store, CatchesUp, world
    <3>2. CASE Erred
      BY <2>1, <3>2 DEF Erred
    <3>3. CASE /\ pc = "check" /\ svid' = svid /\ calm' = calm /\ bundle' = bundle /\ (done => done')
               /\ (root' = root /\ settled' = settled) \/ settled' = 0
      BY <1>1, <1>3, <2>1, <3>3 DEF CatchesUp, Serving, Shape, Calling
    <3> QED
      BY <2>1, <3>1, <3>2, <3>3, ToCheck
  <2>2. CASE pc' # "check" /\ pc = "check"
    <3>1. pc' = "wait" /\ timer' = HalfLife(svid) /\ UNCHANGED <<svid, calm, bundle, root, settled, done, hung>>
      BY <1>3, <2>2, FromCheck
    <3>2. Due(pc', timer', age') = timer' + 2 * Latency /\ timer' \in Nat /\ timer' <= LongestWait
      BY <3>1, DueIs DEF IInv, TypeOK, DueByPlace, Shape
    <3>3. settled <= Latency \/ calm = 0
      BY <1>3, <2>2, <3>1 DEF CatchesUp, Serving
    <3> QED
      BY <1>1, <2>2, <3>1, <3>2, <3>3
  <2>3. CASE pc' # "check" /\ pc # "check"
    <3>1. /\ Serving /\ Due(pc, timer, age) \in Nat /\ Due(pc', timer', age') \in Nat /\ bundle' = bundle
          /\ \/ /\ Due(pc', timer', age') <= Due(pc, timer, age) /\ svid' = svid /\ calm' = calm
                /\ (root' = root /\ settled' = settled) \/ settled' = 0
             \/ /\ Due(pc', timer', age') < Due(pc, timer, age) /\ Aged
      BY <1>3, <2>3, DueStep
    <3>2. Due(pc', timer', age') <= LongestWait + 2 * Latency
      <4>1. DueByPlace(pc', timer', age') /\ TypeOK' /\ pc' # "new" /\ pc' # "off"
        BY <1>3, DueIs DEF IInv, TypeOK, Shape, Serving
      <4>2. pc' \in {"wait", "store"} \cup Calling
        BY <2>3, <4>1 DEF TypeOK, Calling
      <4>3. age' \in Nat /\ timer' \in Nat /\ (pc' = "wait" => timer' <= LongestWait)
        BY <1>1, <4>1 DEF TypeOK, Shape
      <4> QED
        BY <1>1, <4>1, <4>2, <4>3 DEF DueByPlace, Calling
    <3>3. CASE settled' = 0
      BY <1>1, <2>3, <3>1, <3>2, <3>3
    <3>4. CASE Due(pc', timer', age') <= Due(pc, timer, age) /\ calm' = calm /\ root' = root /\ settled' = settled
      BY <1>1, <1>3, <2>3, <3>1, <3>4 DEF CatchesUp
    <3>5. CASE Due(pc', timer', age') < Due(pc, timer, age) /\ Aged
      BY <1>1, <1>3, <2>3, <3>1, <3>5 DEF CatchesUp, Aged
    <3> QED
      BY <3>1, <3>3, <3>4, <3>5
  <2> QED
    BY <2>1, <2>2, <2>3
<1> QED
  BY <1>2, <1>3 DEF CatchesUp

\* Products grow with their factors.
LEMMA Products ==
  ASSUME NEW a \in Nat, NEW b \in Nat, NEW d \in Nat
  PROVE  /\ a * d \in Nat /\ a * (2 * d) \in Nat
         /\ a <= b => a * d <= b * d
         /\ 2 * a <= b => a * (2 * d) <= b * d
<1>1. a * d \in Nat /\ b * d \in Nat /\ a * (2 * d) = (2 * a) * d
  OBVIOUS
<1>2. ASSUME NEW x \in Nat, x <= b PROVE x * d <= b * d
  <2>1. PICK y \in Nat : b = x + y
    <3>1. b - x \in Nat /\ b = x + (b - x)
      BY <1>2
    <3> QED
      BY <3>1
  <2>2. b * d = x * d + y * d /\ y * d \in Nat /\ x * d \in Nat
    BY <2>1
  <2> QED
    BY <2>2
<1>3. 2 * a \in Nat
  OBVIOUS
<1> QED
  BY <1>1, <1>2, <1>3

\* Every attempt costs half of what was left.
LEMMA HalvedStep ==
  ASSUME IInv, IInv', Shape, Shape', Halved, [Next]_vars
  PROVE  Halved'
<1>1. /\ TypeOK /\ pow \in Nat /\ timer \in Nat
      /\ svid # NoSvid => svid \in Svid /\ svid.left \in Nat /\ svid.life \in Nat
      /\ got # NoSvid => got.left \in Nat /\ got.life \in Nat
  BY LeftType DEF IInv, TypeOK
<1>2. CASE UNCHANGED <<svid, pow, timer>> /\ (pc' = pc \/ (pc \in Calling /\ pc' \in Calling \cup {"store"})
                                             \/ pc' \in {"store", "off"})
  BY <1>2 DEF Halved, Calling
<1>3. CASE UNCHANGED svid /\ svid = NoSvid
  BY <1>3 DEF Halved
<1>4. CASE Store
  <2>1. svid' = got /\ pow' = 1 /\ pc' = "check" /\ svid' # NoSvid
    BY <1>4 DEF Store, IInv, InOrder
  <2>2. svid'.left \in Nat /\ svid'.life \in Nat /\ svid'.left <= svid'.life
    BY <1>1, <2>1 DEF Shape
  <2>3. (svid'.left - 1) * pow' = svid'.left - 1
    BY <2>1, <2>2
  <2> QED
    BY <2>1, <2>2, <2>3 DEF Halved, Calling
<1>5. CASE Erred /\ svid # NoSvid /\ (pc \in Calling \/ (pc = "wait" /\ timer = 0))
  <2>1. svid.left > 1 => (svid.left - 1) * (2 * pow) <= svid.life - 1
    BY <1>1, <1>5 DEF Halved
  <2> QED
    BY <1>5, <2>1 DEF Erred, Halved, Calling
<1>6. CASE pc = "check" /\ pc' = "wait" /\ timer' = HalfLife(svid) /\ UNCHANGED <<svid, pow>> /\ svid # NoSvid
  <2>1. HalfLife(svid) \in Nat /\ (svid.left > HalfLife(svid) + 1 => 2 * (svid.left - HalfLife(svid) - 1) <= svid.left - 1)
    BY <1>1, <1>6, Waits DEF Shape
  <2>2. ASSUME svid.left > HalfLife(svid) + 1
        PROVE  (svid.left - HalfLife(svid) - 1) * (2 * pow) <= svid.life - 1
    <3> DEFINE a == svid.left - HalfLife(svid) - 1
               b == svid.left - 1
    <3>1. a \in Nat /\ b \in Nat /\ 2 * a <= b /\ svid.left > 1
      BY <1>1, <1>6, <2>1, <2>2
    <3>2. b * pow <= svid.life - 1
      BY <1>6, <3>1 DEF Halved
    <3> HIDE DEF a, b
    <3>3. a * (2 * pow) <= b * pow /\ a * (2 * pow) \in Nat /\ b * pow \in Nat
      BY <1>1, <3>1, Products
    <3>4. a * (2 * pow) <= svid.life - 1
      BY <1>1, <1>6, <3>2, <3>3
    <3> QED
      BY <3>4 DEF a
  <2> QED
    BY <1>6, <2>2 DEF Halved, Calling
<1>7. CASE pc = "wait" /\ timer = 0 /\ pc' \in Calling /\ UNCHANGED <<svid, pow>>
  BY <1>1, <1>7 DEF Halved, Calling
<1>8. CASE Tick /\ svid # NoSvid
  <2>1. Aged
    BY <1>8, TickAges
  <2>2. /\ svid' # NoSvid /\ svid'.life = svid.life /\ svid'.left = Less(svid.left)
        /\ pc' = pc /\ pow' = pow /\ timer' = Less(timer)
    BY <1>8, <2>1 DEF Aged
  <2>3. ASSUME svid'.left > 1
        PROVE  /\ svid.left > 1 /\ svid'.left = svid.left - 1
               /\ svid'.left - 1 \in Nat /\ svid.left - 1 \in Nat /\ svid'.left - 1 <= svid.left - 1
    BY <1>1, <1>8, <2>2, <2>3 DEF Less
  <2>4. ASSUME svid'.left > 1, NEW d \in Nat, (svid.left - 1) * d <= svid.life - 1
        PROVE  (svid'.left - 1) * d <= svid'.life - 1
    <3> DEFINE a == svid'.left - 1
               b == svid.left - 1
    <3>1. a \in Nat /\ b \in Nat /\ a <= b /\ b * d <= svid.life - 1 /\ svid.life \in Nat
      BY <1>1, <1>8, <2>3, <2>4
    <3> HIDE DEF a, b
    <3>2. a * d <= b * d /\ a * d \in Nat /\ b * d \in Nat
      BY <3>1, Products
    <3>3. a * d <= svid.life - 1
      BY <3>1, <3>2
    <3> QED
      BY <2>2, <3>3 DEF a
  <2>5. svid'.left > 1 => (svid'.left - 1) * pow' <= svid'.life - 1
    BY <1>1, <1>8, <2>2, <2>3, <2>4 DEF Halved
  <2>6. pc' \in Calling /\ svid'.left > 1 => (svid'.left - 1) * (2 * pow') <= svid'.life - 1
    <3>1. 2 * pow \in Nat
      BY <1>1
    <3> QED
      BY <1>8, <2>2, <2>3, <2>4, <3>1 DEF Halved
  <2>7. pc' = "wait" /\ svid'.left > timer' + 1 => (svid'.left - timer' - 1) * (2 * pow') <= svid'.life - 1
    <3> SUFFICES ASSUME pc' = "wait", svid'.left > timer' + 1
                 PROVE  (svid'.left - timer' - 1) * (2 * pow') <= svid'.life - 1
      OBVIOUS
    <3>1. timer > 0 /\ timer' = timer - 1
      BY <1>1, <1>8, <2>2 DEF Tick, Less, Calling
    <3>2. svid'.left = svid.left - 1 /\ svid.left > timer + 1 /\ svid'.left - timer' - 1 = svid.left - timer - 1
      BY <1>1, <1>8, <2>2, <2>3, <3>1 DEF Less
    <3>3. (svid.left - timer - 1) * (2 * pow) <= svid.life - 1
      BY <1>8, <2>2, <3>2 DEF Halved
    <3> QED
      BY <2>2, <3>2, <3>3
  <2> QED
    BY <2>5, <2>6, <2>7 DEF Halved
<1>9. ASSUME Failed, pc \in Calling \/ (pc = "wait" /\ timer = 0) PROVE Halved'
  BY <1>3, <1>5, <1>9, FailedErrs DEF Erred
<1>10. CASE Tick
  BY <1>3, <1>8, <1>10 DEF Tick, Older
<1>11. CASE NewX509Source
  BY <1>3, <1>11 DEF NewX509Source, held, Shape
<1>12. CASE Server \/ AttestX509 \/ GetBundle
  BY <1>2, <1>12 DEF Server, ServerSigns, ServerSendsBundle, AttestX509, GetBundle, Call, Calling, held
<1>13. CASE Check
  BY <1>2, <1>3, <1>6, <1>13 DEF Check
<1>14. CASE Wake
  BY <1>7, <1>9, <1>14 DEF Wake, Call, Calling, held
<1>15. CASE Hang \/ Exit \/ CloseCancels \/ CloseReturns \/ CallerCancels \/ RootChanges \/ UNCHANGED vars
  BY <1>2, <1>15 DEF Hang, Exit, CloseCancels, CloseReturns, CallerCancels, RootChanges, vars, held
<1> QED
  BY <1>4, <1>9, <1>10, <1>11, <1>12, <1>13, <1>14, <1>15 DEF Next, Refresh, Server, CallFails

Timely == IInv /\ Shape /\ GotAmple /\ Outlives /\ CatchesUp /\ Halved

\* A source that is being made hands out nothing.
LEMMA TimelyInit == Init => Timely
<1> SUFFICES ASSUME Init PROVE Timely
  OBVIOUS
<1>1. ~hung
  BY Zenon DEF Init
<1> QED
  BY <1>1, IInvInit DEF Init, Timely, Shape, GotAmple, Outlives, CatchesUp, Halved, Serving

\* Every source keeps to its times.
LEMMA TimelyAlways == Spec => []Timely
<1>1. Timely /\ [Next]_vars => Timely'
  <2> SUFFICES ASSUME Timely, [Next]_vars PROVE Timely'
    OBVIOUS
  <2>1. IInv'
    BY IInvStep DEF Timely
  <2>2. Shape'
    BY <2>1, ShapeStep DEF Timely
  <2> QED
    BY <2>1, <2>2, GotAmpleStep, OutlivesStep, CatchesUpStep, HalvedStep DEF Timely
<1> QED
  BY <1>1, TimelyInit, PTL DEF Spec

\* Readers get an expired SVID only while calls fail, while one hangs or after the end of
\* the context: refreshLoop renews at half of what is left, and lifetimes of more than
\* six latencies make that early enough.
THEOREM ExpiredByFailureAlways == Spec => []ExpiredByFailure
<1>1. Timely => ExpiredByFailure
  <2> SUFFICES ASSUME Timely, GetX509SVID # NoSvid, GetX509SVID.left = 0, ~done, ~hung
               PROVE  calm <= Larger(Second, 2 * Latency) + 2 * Latency
    BY DEF ExpiredByFailure
  <2>1. Serving /\ svid.left = 0
    BY DEF GetX509SVID, Serving
  <2>2. calm \in Nat /\ Latency \in Nat /\ Larger(Second, 2 * Latency) \in Nat
    BY SecondAssumption DEF Timely, IInv, TypeOK, Larger
  <2>3. Due(pc, timer, age) \in Nat
    BY DueIs DEF Timely, IInv, TypeOK, DueByPlace
  <2> QED
    BY <2>1, <2>2, <2>3 DEF Timely, Outlives, Patience, Ample
<1> QED
  BY <1>1, TimelyAlways, PTL

\* A source that trusts an older root than the server's saw the change, or a failure,
\* within one wait and the calls around it, for any number of changes: a bundle may have
\* been on its way when the root changed.
THEOREM RootArrivesAlways == Spec => []RootArrives
<1>1. Timely => RootArrives
  <2> SUFFICES ASSUME Timely, GetX509SVID # NoSvid, GetX509BundleForTrustDomain < root, ~done, ~hung
               PROVE  settled <= LongestWait + 3 * Latency \/ calm <= LongestWait + 2 * Latency
    BY DEF RootArrives
  <2>1. Serving /\ bundle < root
    BY DEF GetX509SVID, GetX509BundleForTrustDomain, Serving
  <2>2. calm \in Nat /\ settled \in Nat /\ Latency \in Nat /\ LongestWait \in Nat
    BY SecondAssumption, LongestWaitIs DEF Timely, IInv, TypeOK
  <2>3. Due(pc, timer, age) \in Nat
    BY DueIs DEF Timely, IInv, TypeOK, DueByPlace
  <2> QED
    BY <2>1, <2>2, <2>3 DEF Timely, CatchesUp
<1> QED
  BY <1>1, TimelyAlways, PTL

\* The attempts to renew an SVID that still has time left are at most the binary
\* logarithm of its lifetime, although the waits shrink.
THEOREM FewAttemptsAlways == Spec => []FewAttempts
<1>1. Timely => FewAttempts
  BY DEF Timely, Halved, FewAttempts
<1> QED
  BY <1>1, TimelyAlways, PTL
-----------------------------------------------------------------------------
(* Roots only go forward                                                   *)

\* What a refresh has in hand is not older than what is stored.
Forward ==
  /\ bundle <= root /\ gotBundle <= root
  /\ svid # NoSvid /\ got # NoSvid => svid.root <= got.root
  /\ pc \in {"bundleSent", "store"} => bundle <= gotBundle

\* What LastGoodKept says of a step.
KeepsLastGood == svid # NoSvid => svid' # NoSvid /\ svid.root <= svid'.root /\ bundle <= bundle'

\* Every step keeps what is in hand ahead of what is stored, and stores only that.
LEMMA ForwardStep ==
  ASSUME IInv, IInv', Forward, [Next]_vars
  PROVE  Forward' /\ KeepsLastGood
<1> USE DEF IInv, TypeOK, InOrder, StoredInOrder, Forward, KeepsLastGood, Calling, held, world, Call
<1> USE BoundAssumption
<1>r. \A s \in Svid : s.root \in Nat
  BY DEF Svid
<1>f. ASSUME Failed PROVE Forward' /\ KeepsLastGood
  <2>1. Erred
    BY <1>f, FailedErrs
  <2>2. pc' \notin {"bundleSent", "store"} /\ gotBundle' = 0
    BY <1>f, <2>1 DEF Erred, Failed
  <2> QED
    BY <1>r, <2>1, <2>2 DEF Erred
<1>0. CASE UNCHANGED vars
  BY <1>0, <1>r DEF vars
<1>1. CASE NewX509Source
  BY <1>1, <1>r DEF NewX509Source
<1>2. ASSUME NEW life \in Lifetime, ServerSigns(life) PROVE Forward' /\ KeepsLastGood
  <2>1. UNCHANGED <<svid, bundle, gotBundle, root>> /\ pc' = "svidSent"
    BY <1>2 DEF ServerSigns
  <2>2. got'.root = root
    BY <1>2 DEF ServerSigns, parseSVIDResponse
  <2>3. svid # NoSvid => svid.root <= root
    BY <1>r
  <2> QED
    BY <1>r, <2>1, <2>2, <2>3
<1>3. CASE ServerSendsBundle
  BY <1>3, <1>r DEF ServerSendsBundle, parseBundleResponse
<1>12. CASE AttestX509 \/ GetBundle
  BY <1>12, <1>r DEF AttestX509, GetBundle
<1>4. CASE Store
  BY <1>4, <1>r DEF Store
<1>5. CASE CallFails
  BY <1>5, <1>f DEF CallFails
<1>6. CASE Hang \/ Exit
  BY <1>6, <1>r DEF Hang, Exit
<1>7. CASE Check
  BY <1>7, <1>r DEF Check
<1>8. CASE Wake
  BY <1>8, <1>f, <1>r DEF Wake
<1>9. CASE CloseCancels \/ CloseReturns \/ CallerCancels
  BY <1>9, <1>r DEF CloseCancels, CloseReturns, CallerCancels
<1>10. CASE RootChanges
  BY <1>10, <1>r DEF RootChanges
<1>11. CASE Tick
  <2>1. UNCHANGED <<bundle, gotBundle, pc, root>> /\ svid' = Older(svid) /\ got' = Older(got)
    BY <1>11 DEF Tick
  <2>2. NoSvid \notin Svid
    BY NoSvidIsNone
  <2>3. /\ svid' = NoSvid <=> svid = NoSvid
        /\ svid # NoSvid => svid'.root = svid.root
    BY <2>1, <2>2, OlderType
  <2>4. /\ got' = NoSvid <=> got = NoSvid
        /\ got # NoSvid => got'.root = got.root
    BY <2>1, <2>2, OlderType
  <2> QED
    BY <1>r, <2>1, <2>3, <2>4
<1> QED
  BY <1>0, <1>1, <1>2, <1>3, <1>4, <1>5, <1>6, <1>7, <1>8, <1>9, <1>10, <1>11, <1>12 DEF Next, Refresh, Server

\* No refresh, however it ends, takes away the SVID or the bundle or brings back an
\* older root in either, for any number of root changes.
THEOREM LastGoodKeptAlways == Spec => LastGoodKept
<1>1. Init => Forward
  BY DEF Init, Forward
<1>2. IInv /\ IInv' /\ Forward /\ [Next]_vars => Forward' /\ [KeepsLastGood]_vars
  BY ForwardStep
<1>3. LastGoodKept <=> [][KeepsLastGood]_vars
  BY DEF LastGoodKept, KeepsLastGood
<1> QED
  BY <1>1, <1>2, <1>3, IInvAlways, PTL DEF Spec
=============================================================================
