------------------------- MODULE IdentityApi_proofs -------------------------
(***************************************************************************)
(* The attest API composed with the entry store, for any number of         *)
(* requests, entries, commands, kills and restarts and any configuration.  *)
(* The store's own invariant (EntryStore_proofs) carries over, because     *)
(* every step of the composition is a step of the store or leaves it alone.*)
(***************************************************************************)
EXTENDS IdentityApi, EntryStore_proofs, Ttl_proofs

\* A request that is about to sign holds an entry that was not barred to it.
HeldEntryOK ==
  \A q \in Req : req[q].pc = "sign" => req[q].entry \in AnyEntry /\ req[q].entry.id \notin barred[q]

\* An ID barred to a request is one that is deleted still.
BarredDeleted == \A q \in Req : barred[q] \subseteq deleted

\* With a max_svid_ttl of zero or less every SVID gets the default lifetime, whatever its
\* entry says; the cap holds in any case.
Lifetimes ==
  /\ MaxTTL > 0 => LifetimeBounded
  /\ \A s \in issued : s.exp - s.iat <= LifetimeCap

ApiInv == StoreInv /\ ApiTypeOK /\ HeldEntryOK /\ BarredDeleted /\ Lifetimes /\ RevokedGetsNothing

\* Every step is a step of the store, or leaves the store alone.
LEMMA StepsOfStore == [Next]_vars => [StoreNext]_storeVars
<1>1. CASE UNCHANGED vars
  BY <1>1 DEF vars
<1>2. CASE BootBegin \/ BootLoad \/ BootEnd
  BY <1>2 DEF BootBegin, BootLoad, BootEnd, StoreNext, Preload
<1>3. CASE Kill
  BY <1>3 DEF Kill, StoreNext, Preload
<1>4. CASE Tick
  BY <1>4 DEF Tick
<1>5. CASE Commands
  BY <1>5 DEF Commands, StoreNext
<1>6. ASSUME NEW q \in Req, HandleAttest(q) PROVE UNCHANGED storeVars
  BY <1>6 DEF HandleAttest, Receive, RegistryAttest, StsAnswers, StsFails, StoreMatch, StoreMatchFails, Sign
<1> QED
  BY <1>1, <1>2, <1>3, <1>4, <1>5, <1>6 DEF Next

\* The lifetime the handler and the CA give an entry is within both bounds.
LEMMA LifetimeOfEntry ==
  ASSUME NEW e \in AnyEntry
  PROVE  LET ttl == SignedTTL(HandlerTTL(e.ttl))
         IN  ttl \in Int /\ (MaxTTL > 0 => ttl <= HandlerTTL(e.ttl)) /\ ttl <= LifetimeCap
<1>1. e.ttl \in Int
  BY TtlAssumption DEF AnyEntry
<1>2. HandlerTTL(e.ttl) \in Nat \ {0}
  BY <1>1, HandlerAssumption DEF HandlerTTL
<1>3. NoExpiry \in Duration \cup {NoExpiry}
  OBVIOUS
<1>4. SignedTTL(HandlerTTL(e.ttl)) \in Int /\ SignedTTL(HandlerTTL(e.ttl)) <= LifetimeCap
  BY <1>2, <1>3, LifetimeCapped DEF SignedTTL
<1> QED
  BY <1>2, <1>4, NeverLongerThanAsked

\* Initially nothing is issued and no request is under way.
LEMMA ApiInvInit == Init => ApiInv
<1> SUFFICES ASSUME Init PROVE ApiInv
  OBVIOUS
<1>1. StoreInv
  BY StoreInvInit DEF Init
<1>2. Fresh \in Request
  BY TimeAssumption DEF Request, Fresh, Kind, InFlight, Status
<1>3. ApiTypeOK
  BY <1>2, TimeAssumption DEF Init, ApiTypeOK
<1> QED
  BY <1>1, <1>3
  DEF Init, Fresh, ApiInv, HeldEntryOK, BarredDeleted, Lifetimes, LifetimeBounded, RevokedGetsNothing

\* A request after it was decoded, has moved on, was answered, has found its entry.
Decoded(kind, aud, ev, at) ==
  [Fresh EXCEPT !.pc = "attest", !.kind = kind, !.aud = aud, !.ev = ev, !.at = at]
Moved(r, next) == [r EXCEPT !.pc = next]
Answered(r, code) == [r EXCEPT !.pc = "done", !.status = code]
Found(r, e) == [r EXCEPT !.pc = "sign", !.entry = e]

\* A request that has been decoded is a request.
LEMMA DecodedIsRequest ==
  ASSUME NEW kind \in Kind, NEW aud \in SUBSET Audience, NEW ev \in Evidence, NEW at \in 0..MaxNow
  PROVE  /\ Decoded(kind, aud, ev, at) \in Request
         /\ Decoded(kind, aud, ev, at).pc = "attest"
         /\ Decoded(kind, aud, ev, at).kind = kind /\ Decoded(kind, aud, ev, at).aud = aud
         /\ Decoded(kind, aud, ev, at).ev = ev /\ Decoded(kind, aud, ev, at).at = at
BY DEF Decoded, Request, Status, Fresh, InFlight

\* A request that moves on is a request still, with what it came with.
LEMMA MovedIsRequest ==
  ASSUME NEW r \in Request, NEW next \in InFlight
  PROVE  /\ Moved(r, next) \in Request /\ Moved(r, next).pc = next
         /\ Moved(r, next).kind = r.kind /\ Moved(r, next).aud = r.aud
         /\ Moved(r, next).ev = r.ev /\ Moved(r, next).at = r.at
BY DEF Moved, Request

\* A request that has been answered is a request still.
LEMMA AnsweredIsRequest ==
  ASSUME NEW r \in Request, NEW code \in Status
  PROVE  Answered(r, code) \in Request /\ Answered(r, code).pc = "done"
BY DEF Answered, Request

\* A request that has found its entry is a request still, with what it came with.
LEMMA FoundIsRequest ==
  ASSUME NEW r \in Request, NEW e \in AnyEntry
  PROVE  /\ Found(r, e) \in Request /\ Found(r, e).pc = "sign" /\ Found(r, e).entry = e
         /\ Found(r, e).kind = r.kind /\ Found(r, e).aud = r.aud
         /\ Found(r, e).ev = r.ev /\ Found(r, e).at = r.at
BY DEF Found, Request, InFlight

\* Answering a request leaves every request a request, and none more about to sign.
LEMMA AnswerStep ==
  ASSUME ApiTypeOK, NEW q \in Req, NEW code \in Status, Answer(q, code)
  PROVE  /\ req' \in [Req -> Request]
         /\ \A r \in Req : req'[r].pc = "sign" => r # q /\ req'[r] = req[r]
<1>1. req \in [Req -> Request]
  BY DEF ApiTypeOK
<1>2. req' = [req EXCEPT ![q] = Answered(req[q], code)]
  BY <1>1 DEF Answer, Answered
<1>3. Answered(req[q], code) \in Request /\ Answered(req[q], code).pc = "done"
  BY <1>1, AnsweredIsRequest
<1> QED
  BY <1>1, <1>2, <1>3

\* The parts of the invariant that speak of the API.
Api == ApiTypeOK /\ HeldEntryOK /\ BarredDeleted /\ Lifetimes /\ RevokedGetsNothing

\* A step that signs nothing keeps them if it keeps the types and what holds of
\* requests about to sign and of barred IDs.
LEMMA NothingSigned ==
  ASSUME ApiInv, issued' = issued,
         now' \in 0..MaxNow, server' \in {"up", "down"}, interEnd' \in Nat,
         req' \in [Req -> Request], barred' \in [Req -> SUBSET Id],
         \A r \in Req : req'[r].pc = "sign"
            => req'[r].entry \in AnyEntry /\ req'[r].entry.id \notin barred'[r],
         \A r \in Req : barred'[r] \subseteq deleted'
  PROVE  Api'
<1>1. ApiTypeOK' /\ HeldEntryOK' /\ BarredDeleted'
  BY DEF ApiInv, ApiTypeOK, HeldEntryOK, BarredDeleted
<1>2. Lifetimes' /\ RevokedGetsNothing'
  BY DEF ApiInv, Lifetimes, LifetimeBounded, RevokedGetsNothing
<1> QED
  BY <1>1, <1>2 DEF Api

\* The induction step.
LEMMA ApiInvStep == ApiInv /\ [Next]_vars => ApiInv'
<1> SUFFICES ASSUME ApiInv, [Next]_vars PROVE ApiInv'
  OBVIOUS
<1>a. StoreInv /\ StoreInv'
  BY StoreInvStep, StepsOfStore DEF ApiInv
<1>b. /\ now \in 0..MaxNow /\ server \in {"up", "down"} /\ interEnd \in Nat
      /\ req \in [Req -> Request] /\ barred \in [Req -> SUBSET Id]
      /\ HeldEntryOK /\ BarredDeleted
  BY DEF ApiInv, ApiTypeOK
<1> USE TimeAssumption, <1>b
<1>c. ASSUME UNCHANGED apiVars, deleted \subseteq deleted' PROVE Api'
  BY <1>c, NothingSigned DEF apiVars, HeldEntryOK, BarredDeleted
<1>0. ASSUME UNCHANGED vars PROVE Api'
  BY <1>0, <1>c DEF vars, storeVars
<1>1. ASSUME BootBegin PROVE Api'
  <2>1. /\ deleted' = deleted /\ req' = req /\ barred' = barred /\ issued' = issued /\ now' = now
        /\ server' = server /\ interEnd' \in Nat
    BY <1>1 DEF BootBegin, PreloadBegin
  <2> QED
    BY <2>1, NothingSigned DEF HeldEntryOK, BarredDeleted
<1>2. ASSUME BootEnd PROVE Api'
  <2>1. /\ deleted' = deleted /\ req' = req /\ barred' = barred /\ issued' = issued /\ now' = now
        /\ server' = "up" /\ interEnd' = interEnd
    BY <1>2 DEF BootEnd, PreloadEnd
  <2> QED
    BY <2>1, NothingSigned DEF HeldEntryOK, BarredDeleted
<1>3. ASSUME Kill PROVE Api'
  <2>1. deleted' = deleted
    BY <1>3 DEF Kill, PreloadAbort, storeVars
  <2>2. req' \in [Req -> Request] /\ \A r \in Req : req'[r].pc = "sign" => req'[r] = req[r]
    BY <1>3 DEF Kill, Request, InFlight
  <2>3. UNCHANGED <<now, interEnd, barred, issued>> /\ server' = "down"
    BY <1>3 DEF Kill
  <2> QED
    BY <2>1, <2>2, <2>3, NothingSigned DEF HeldEntryOK, BarredDeleted
<1>4. ASSUME Tick PROVE Api'
  <2>1. /\ now' \in 0..MaxNow /\ deleted' = deleted
        /\ UNCHANGED <<server, interEnd, req, barred, issued>>
    BY <1>4 DEF Tick, storeVars
  <2> QED
    BY <2>1, NothingSigned DEF HeldEntryOK, BarredDeleted
<1>5. ASSUME NEW i, Unbar(i), deleted' = deleted \ {i}, UNCHANGED <<now, server, interEnd, req, issued>>
      PROVE  Api'
  <2>1. barred' \in [Req -> SUBSET Id] /\ \A r \in Req : barred'[r] = barred[r] \ {i}
    BY <1>5 DEF Unbar
  <2> QED
    BY <1>5, <2>1, NothingSigned DEF HeldEntryOK, BarredDeleted
<1>6. ASSUME BootLoad PROVE Api'
  <2> DEFINE i == FileEntry[loading].id
  <2>1. Unbar(i) /\ deleted' = deleted \ {i} /\ UNCHANGED <<now, server, interEnd, req, issued>>
    BY <1>6 DEF BootLoad, PreloadEntry
  <2> HIDE DEF i
  <2> QED
    BY <1>5, <2>1
<1>7. ASSUME Commands PROVE Api'
  <2>1. ASSUME NEW e \in Entries, EntryCreate(e), Unbar(e.id), UNCHANGED <<now, server, interEnd, req, issued>>
        PROVE  Api'
    BY <1>5, <2>1 DEF EntryCreate
  <2>2. ASSUME NEW c \in Cli, NEW i \in Id, EntryUpdateGet(c, i) PROVE deleted \subseteq deleted'
    BY <2>2 DEF EntryUpdateGet
  <2>3. ASSUME NEW c \in Cli, NEW change \in Change, EntryUpdatePut(c, change)
        PROVE  deleted \subseteq deleted'
    BY <2>3 DEF EntryUpdatePut
  <2>4. ASSUME NEW i \in Id, EntryDelete(i) PROVE deleted \subseteq deleted'
    BY <2>4 DEF EntryDelete
  <2>5. ASSUME NEW c \in Cli, EntryUpdateFails(c) PROVE deleted \subseteq deleted'
    BY <2>5 DEF EntryUpdateFails
  <2> QED
    BY <1>7, <1>c, <2>1, <2>2, <2>3, <2>4, <2>5 DEF Commands
<1>8. ASSUME NEW q \in Req, NEW kind \in Kind, NEW aud \in SUBSET Audience, NEW ev \in Evidence,
             Receive(q, kind, aud, ev)
      PROVE  Api'
  <2>1. /\ barred' = [barred EXCEPT ![q] = deleted]
        /\ UNCHANGED <<storeVars, now, server, interEnd, issued>>
        /\ req[q].pc = "new"
    BY <1>8 DEF Receive
  <2>2. req' \in [Req -> Request] /\ \A r \in Req : req'[r].pc = "sign" => r # q /\ req'[r] = req[r]
    <3>1. CASE Answer(q, 400)
      BY <3>1, AnswerStep DEF Status, ApiInv
    <3>2. CASE req' = [req EXCEPT ![q] = [Fresh EXCEPT !.pc = "attest", !.kind = kind,
                                                       !.aud = aud, !.ev = ev, !.at = now]]
      <4>1. Decoded(kind, aud, ev, now) \in Request /\ Decoded(kind, aud, ev, now).pc = "attest"
        BY DecodedIsRequest
      <4>2. req' = [req EXCEPT ![q] = Decoded(kind, aud, ev, now)]
        BY <3>2 DEF Decoded
      <4> QED
        BY <4>1, <4>2
    <3> QED
      BY <1>8, <3>1, <3>2 DEF Receive
  <2>3. deleted' = deleted /\ deleted \subseteq Id
    BY <1>a, <2>1 DEF storeVars, StoreInv, StoreTypeOK
  <2>4. barred' \in [Req -> SUBSET Id]
    BY <2>1, <2>3
  <2> QED
    BY <2>1, <2>2, <2>3, <2>4, NothingSigned DEF HeldEntryOK, BarredDeleted
<1>9. ASSUME req' \in [Req -> Request],
             \A r \in Req : req'[r].pc = "sign"
                => req'[r].entry \in AnyEntry /\ req'[r].entry.id \notin barred[r],
             UNCHANGED <<storeVars, now, server, interEnd, barred, issued>>
      PROVE  Api'
  BY <1>9, NothingSigned DEF storeVars, BarredDeleted
<1>d. ASSUME NEW q \in Req, NEW next \in {"sts", "match"}, req' = [req EXCEPT ![q].pc = next],
             UNCHANGED <<storeVars, now, server, interEnd, barred, issued>>
      PROVE  Api'
  <2>1. req' \in [Req -> Request] /\ \A r \in Req : req'[r].pc = "sign" => req'[r] = req[r]
    <3>1. next \in InFlight /\ next # "sign"
      BY DEF InFlight
    <3>2. Moved(req[q], next) \in Request /\ Moved(req[q], next).pc = next
      BY <3>1, MovedIsRequest
    <3>3. req' = [req EXCEPT ![q] = Moved(req[q], next)]
      BY <1>d DEF Moved
    <3> QED
      BY <3>1, <3>2, <3>3
  <2> QED
    BY <1>9, <1>d, <2>1 DEF ApiInv, HeldEntryOK
<1>e. ASSUME NEW q \in Req, Answer(q, 401),
             UNCHANGED <<storeVars, now, server, interEnd, barred, issued>>
      PROVE  Api'
  BY <1>9, <1>e, AnswerStep DEF Status, ApiInv, HeldEntryOK
<1>10. ASSUME NEW q \in Req, RegistryAttest(q) \/ StsAnswers(q) \/ StsFails(q) PROVE Api'
  <2>1. UNCHANGED <<storeVars, now, server, interEnd, barred, issued>>
    BY <1>10 DEF RegistryAttest, StsAnswers, StsFails
  <2>2. \/ Answer(q, 401)
        \/ req' = [req EXCEPT ![q].pc = "match"]
        \/ req' = [req EXCEPT ![q].pc = "sts"]
    BY <1>10 DEF RegistryAttest, StsAnswers, StsFails
  <2> QED
    BY <1>d, <1>e, <2>1, <2>2
<1>11. ASSUME NEW q \in Req, StoreMatch(q) PROVE Api'
  <2>1. CASE Answer(q, 403)
    BY <1>9, <1>11, <2>1, AnswerStep DEF Status, StoreMatch, ApiInv, HeldEntryOK
  <2>2. ASSUME NEW found \in table, req' = [req EXCEPT ![q] = [@ EXCEPT !.pc = "sign", !.entry = found]]
        PROVE  Api'
    <3>1. found \in AnyEntry /\ found.id \notin deleted
      BY <1>a DEF StoreInv, StoreTypeOK, DeletedStaysDeleted, Ids
    <3>2. found.id \notin barred[q]
      BY <3>1 DEF ApiInv, BarredDeleted
    <3>3. Found(req[q], found) \in Request /\ Found(req[q], found).entry = found
      BY <3>1, FoundIsRequest
    <3>5. req' = [req EXCEPT ![q] = Found(req[q], found)]
      BY <2>2 DEF Found
    <3>4. /\ req' \in [Req -> Request] /\ req'[q].entry = found
          /\ \A r \in Req : r # q => req'[r] = req[r]
      BY <3>3, <3>5
    <3> QED
      BY <1>9, <1>11, <3>1, <3>2, <3>4 DEF StoreMatch, ApiInv, HeldEntryOK
  <2> QED
    BY <1>11, <2>1, <2>2 DEF StoreMatch
<1>12. ASSUME NEW q \in Req, StoreMatchFails(q) PROVE Api'
  BY <1>9, <1>12, AnswerStep DEF Status, StoreMatchFails, ApiInv, HeldEntryOK
<1>13. ASSUME NEW q \in Req, Sign(q) PROVE Api'
  <2>1. CASE Answer(q, 500) /\ UNCHANGED issued
    BY <1>9, <1>13, <2>1, AnswerStep DEF Status, Sign, ApiInv, HeldEntryOK
  <2>2. CASE Answer(q, 200) /\ issued' = issued \cup {Svid(q)}
    <3> DEFINE s == Svid(q)
               ttl == SignedTTL(HandlerTTL(req[q].entry.ttl))
    <3>1. req[q].entry \in AnyEntry /\ req[q].entry.id \notin barred[q]
      BY <1>13 DEF Sign, ApiInv, HeldEntryOK
    <3>2. ttl \in Int /\ (MaxTTL > 0 => ttl <= HandlerTTL(req[q].entry.ttl)) /\ ttl <= LifetimeCap
      BY <3>1, LifetimeOfEntry
    <3>3. now \in 0..MaxNow /\ req[q].kind \in Kind
      BY DEF Request
    <3>4. /\ s.kind = req[q].kind /\ s.entry = req[q].entry /\ s.iat = now /\ s.exp = now + ttl
          /\ s.barred = barred[q]
      BY DEF Svid
    <3> HIDE DEF s, ttl
    <3>5. s.exp \in Int /\ s.exp - s.iat = ttl
      BY <3>2, <3>3, <3>4
    <3>6. /\ s.kind \in Kind /\ s.entry \in AnyEntry /\ s.iat \in 0..MaxNow /\ s.exp \in Int
          /\ (MaxTTL > 0 => s.exp - s.iat <= HandlerTTL(s.entry.ttl)) /\ s.exp - s.iat <= LifetimeCap
          /\ s.entry.id \notin s.barred
      BY <3>1, <3>2, <3>3, <3>4, <3>5
    <3>7. issued' = issued \cup {s} /\ UNCHANGED <<storeVars, now, server, interEnd, barred>>
      BY <1>13, <2>2 DEF Sign, s
    <3>8. req' \in [Req -> Request] /\ \A r \in Req : req'[r].pc = "sign" => req'[r] = req[r]
      BY <2>2, AnswerStep DEF Status, ApiInv
    <3>9. ApiTypeOK' /\ HeldEntryOK' /\ BarredDeleted'
      BY <3>6, <3>7, <3>8 DEF storeVars, ApiInv, ApiTypeOK, HeldEntryOK, BarredDeleted
    <3>10. Lifetimes' /\ RevokedGetsNothing'
      BY <3>6, <3>7 DEF ApiInv, Lifetimes, LifetimeBounded, RevokedGetsNothing
    <3> QED
      BY <3>9, <3>10 DEF Api
  <2> QED
    BY <1>13, <2>1, <2>2 DEF Sign
<1> QED
  BY <1>a, <1>0, <1>1, <1>2, <1>3, <1>4, <1>6, <1>7, <1>8, <1>10, <1>11, <1>12, <1>13
  DEF Next, HandleAttest, ApiInv, Api

\* Type correctness of the composition.
THEOREM ApiTypeCorrect == Spec => []ApiTypeOK
<1>1. ApiInv => ApiTypeOK
  BY DEF ApiInv
<1> QED
  BY ApiInvInit, ApiInvStep, <1>1, PTL DEF Spec

\* No SVID outlives its entry's TTL or the configured cap, whatever TTLs the table
\* holds and whatever overflows, if max_svid_ttl is positive.
THEOREM LifetimeBoundedAlways ==
  ASSUME MaxTTL > 0
  PROVE  Spec => []LifetimeBounded
<1>1. ApiInv => LifetimeBounded
  BY DEF ApiInv, Lifetimes
<1> QED
  BY ApiInvInit, ApiInvStep, <1>1, PTL DEF Spec

\* A deleted entry yields no SVID to later requests until it is created again, whatever
\* the configuration.
THEOREM RevokedGetsNothingAlways == Spec => []RevokedGetsNothing
<1>1. ApiInv => RevokedGetsNothing
  BY DEF ApiInv
<1> QED
  BY ApiInvInit, ApiInvStep, <1>1, PTL DEF Spec
-----------------------------------------------------------------------------
(* Who gets an SVID                                                        *)

\* The date or the expiry was right, seen from time t, at some moment since the request
\* came: a token also in its signature, which for AWS is left to STS.
Timely(r, t) ==
  IF r.ev.attestor = Aws
  THEN r.at - r.ev.date <= AwsMaxAge /\ r.ev.date - t <= AwsMaxLead
  ELSE r.ev.genuine /\ r.at <= r.ev.exp + Skew

\* What the handler has made sure of at each place of a request, at time t.
Vetted(r, t) ==
  /\ r.pc \in InFlight => r.ev \in Evidence /\ r.at <= t /\ (r.kind = "jwt" => r.aud # {})
  /\ r.pc \in {"sts", "match", "sign"} => Registered(r.ev) /\ Timely(r, t)
  /\ r.pc \in {"match", "sign"} => r.ev.genuine /\ (r.ev.attestor = Aws => AccountAllowed(r.ev))
  /\ r.pc = "sign" => Entitled(r.entry, r.ev.attestor, r.ev.claims)

EntitledInv == OnlyEntitled /\ \A q \in Req : Vetted(req[q], now)

\* A request that is not under way has nothing to show.
LEMMA EndedIsVetted == \A r, t : r.pc \notin InFlight => Vetted(r, t)
BY DEF Vetted, InFlight

\* What was right stays right as time passes.
LEMMA VettedLater ==
  ASSUME NEW r \in Request, NEW t \in 0..MaxNow, NEW u \in 0..MaxNow, t <= u, Vetted(r, t)
  PROVE  Vetted(r, u)
<1>1. r.at \in Int /\ t \in Int /\ u \in Int
  BY TimeAssumption DEF Request
<1>2. r.pc \in InFlight => r.at <= u
  BY <1>1 DEF Vetted
<1>3. ASSUME r.ev \in Evidence, Timely(r, t) PROVE Timely(r, u)
  <2>1. r.ev.attestor = Aws => r.ev.date \in Int
    BY <1>3, EvidenceAssumption
  <2> QED
    BY <1>1, <1>3, <2>1, AwsAssumption DEF Timely
<1> QED
  BY <1>2, <1>3 DEF Vetted, InFlight

\* A step of one request that signs nothing.
LEMMA VettedStep ==
  ASSUME EntitledInv, req \in [Req -> Request], NEW q \in Req, NEW d, Vetted(d, now),
         req' = [req EXCEPT ![q] = d], issued' = issued, now' = now
  PROVE  EntitledInv'
<1>1. \A r \in Req : Vetted(req'[r], now')
  BY DEF EntitledInv
<1>2. OnlyEntitled'
  BY DEF EntitledInv, OnlyEntitled, Vouched
<1> QED
  BY <1>1, <1>2 DEF EntitledInv

\* A request that is answered and signs nothing.
LEMMA AnswerVetted ==
  ASSUME EntitledInv, req \in [Req -> Request], NEW q \in Req, NEW code \in Status, Answer(q, code),
         issued' = issued, now' = now
  PROVE  EntitledInv'
<1>1. Answered(req[q], code).pc = "done"
  BY AnsweredIsRequest
<1>2. req' = [req EXCEPT ![q] = Answered(req[q], code)]
  BY DEF Answer, Answered
<1>3. Vetted(Answered(req[q], code), now)
  BY <1>1, EndedIsVetted DEF InFlight
<1> QED
  BY <1>2, <1>3, VettedStep

\* A request that moves on without a decision on its entry.
LEMMA MoveVetted ==
  ASSUME EntitledInv, req \in [Req -> Request], NEW q \in Req, NEW next \in {"sts", "match"},
         req[q].pc \in InFlight, Registered(req[q].ev), Timely(req[q], now),
         next = "match" => req[q].ev.genuine /\ (req[q].ev.attestor = Aws => AccountAllowed(req[q].ev)),
         req' = [req EXCEPT ![q].pc = next], issued' = issued, now' = now
  PROVE  EntitledInv'
<1> DEFINE d == Moved(req[q], next)
<1>0. next \in InFlight /\ next # "sign"
  BY DEF InFlight
<1>1. /\ d.pc = next /\ d.kind = req[q].kind /\ d.aud = req[q].aud /\ d.ev = req[q].ev
      /\ d.at = req[q].at
  BY <1>0, MovedIsRequest
<1>2. req' = [req EXCEPT ![q] = d]
  BY DEF Moved
<1> HIDE DEF d
<1>3. req[q].ev \in Evidence /\ req[q].at <= now /\ (req[q].kind = "jwt" => req[q].aud # {})
  BY DEF EntitledInv, Vetted
<1>4. Timely(d, now)
  BY <1>1 DEF Timely
<1>5. Vetted(d, now)
  BY <1>0, <1>1, <1>3, <1>4 DEF Vetted
<1> QED
  BY <1>2, <1>5, VettedStep

\* A request that came no later than now, whose evidence passes the attestor's checks now.
LEMMA TimelyNow ==
  ASSUME now \in 0..MaxNow, NEW r \in Request, r.ev \in Evidence, r.at <= now,
         IF r.ev.attestor = Aws THEN AwsTimely(r.ev) ELSE TokenVerified(r.ev)
  PROVE  Timely(r, now)
<1>1. now \in Int /\ r.at \in Int /\ r.ev.exp \in Int /\ (r.ev.attestor = Aws => r.ev.date \in Int)
  BY TimeAssumption, EvidenceAssumption DEF Request
<1>2. CASE r.ev.attestor = Aws
  BY <1>1, <1>2, AwsAssumption DEF AwsTimely, Timely
<1>3. CASE r.ev.attestor # Aws
  BY <1>1, <1>3, TimeAssumption DEF TokenVerified, Timely
<1> QED
  BY <1>2, <1>3

\* Decoding and attestation.
LEMMA AttestVetted ==
  ASSUME EntitledInv, req \in [Req -> Request], now \in 0..MaxNow, NEW q \in Req,
         \/ \E kind \in Kind, aud \in SUBSET Audience, ev \in Evidence : Receive(q, kind, aud, ev)
         \/ RegistryAttest(q) \/ StsAnswers(q) \/ StsFails(q)
  PROVE  EntitledInv'
<1>1. issued' = issued /\ now' = now
  BY DEF Receive, RegistryAttest, StsAnswers, StsFails
<1>2. ASSUME NEW code \in Status, Answer(q, code) PROVE EntitledInv'
  BY <1>1, <1>2, AnswerVetted
<1>3. ASSUME NEW kind \in Kind, NEW aud \in SUBSET Audience, NEW ev \in Evidence, Receive(q, kind, aud, ev)
      PROVE  EntitledInv'
  <2>1. CASE kind = "jwt" /\ aud = {}
    <3>1. 400 \in Status
      BY DEF Status
    <3>2. Answer(q, 400)
      BY <1>3, <2>1, Zenon DEF Receive
    <3> QED
      BY <1>2, <3>1, <3>2
  <2>2. CASE ~(kind = "jwt" /\ aud = {})
    <3> DEFINE d == Decoded(kind, aud, ev, now)
    <3>1. d.pc = "attest" /\ d.kind = kind /\ d.aud = aud /\ d.ev = ev /\ d.at = now
      BY DecodedIsRequest
    <3>2. req' = [req EXCEPT ![q] = d]
      BY <1>3, <2>2 DEF Receive, Decoded
    <3> HIDE DEF d
    <3>3. d.at <= now
      BY <3>1, TimeAssumption
    <3>4. Vetted(d, now)
      BY <2>2, <3>1, <3>3 DEF Vetted
    <3> QED
      BY <1>1, <3>2, <3>4, VettedStep
  <2> QED
    BY <2>1, <2>2
<1>4. CASE RegistryAttest(q)
  <2>1. req[q].pc = "attest"
    BY <1>4 DEF RegistryAttest
  <2>2. req[q].pc \in InFlight /\ req[q].ev \in Evidence /\ req[q].at <= now
    BY <2>1 DEF EntitledInv, Vetted, InFlight
  <2>3. CASE Answer(q, 401)
    BY <1>2, <2>3 DEF Status
  <2>4. CASE /\ Registered(req[q].ev) /\ req[q].ev.attestor # Aws /\ TokenVerified(req[q].ev)
             /\ req' = [req EXCEPT ![q].pc = "match"]
    <3>1. Timely(req[q], now)
      BY <2>2, <2>4, TimelyNow
    <3>2. req[q].ev.genuine
      BY <2>4 DEF TokenVerified
    <3> QED
      BY <1>1, <2>2, <2>4, <3>1, <3>2, MoveVetted
  <2>5. CASE /\ Registered(req[q].ev) /\ req[q].ev.attestor = Aws /\ AwsTimely(req[q].ev)
             /\ req' = [req EXCEPT ![q].pc = "sts"]
    <3>1. Timely(req[q], now)
      BY <2>2, <2>5, TimelyNow
    <3> QED
      BY <1>1, <2>2, <2>5, <3>1, MoveVetted
  <2> QED
    BY <1>4, <2>3, <2>4, <2>5 DEF RegistryAttest
<1>5. CASE StsAnswers(q)
  <2>1. /\ req[q].pc = "sts" /\ req[q].pc \in InFlight /\ req[q].ev.genuine
        /\ Registered(req[q].ev) /\ Timely(req[q], now)
    BY <1>5 DEF StsAnswers, EntitledInv, Vetted, InFlight
  <2>2. \/ Answer(q, 401)
        \/ AccountAllowed(req[q].ev) /\ req' = [req EXCEPT ![q].pc = "match"]
    BY <1>5 DEF StsAnswers
  <2>3. CASE Answer(q, 401)
    BY <1>2, <2>3 DEF Status
  <2> QED
    BY <1>1, <2>1, <2>2, <2>3, MoveVetted
<1>6. CASE StsFails(q)
  BY <1>2, <1>6 DEF StsFails, Status
<1> QED
  BY <1>3, <1>4, <1>5, <1>6

\* Matching: the entry found is one the claims entitle to.
LEMMA MatchVetted ==
  ASSUME EntitledInv, req \in [Req -> Request], table \subseteq AnyEntry, NEW q \in Req,
         StoreMatch(q) \/ StoreMatchFails(q)
  PROVE  EntitledInv'
<1>1. issued' = issued /\ now' = now /\ req[q].pc = "match"
  BY DEF StoreMatch, StoreMatchFails
<1>2. CASE Answer(q, 403)
  BY <1>1, <1>2, AnswerVetted DEF Status
<1>3. ASSUME NEW found \in table, found # NoEntry,
             IsAnswer(found, table, req[q].ev.attestor, req[q].ev.claims),
             req' = [req EXCEPT ![q] = [@ EXCEPT !.pc = "sign", !.entry = found]]
      PROVE  EntitledInv'
  <2> DEFINE d == Found(req[q], found)
  <2>1. /\ d.pc = "sign" /\ d.entry = found /\ d.at = req[q].at
        /\ d.kind = req[q].kind /\ d.aud = req[q].aud /\ d.ev = req[q].ev
    BY FoundIsRequest
  <2>2. req' = [req EXCEPT ![q] = d]
    BY <1>3 DEF Found
  <2> HIDE DEF d
  <2>3. Entitled(found, req[q].ev.attestor, req[q].ev.claims)
    BY <1>3 DEF IsAnswer
  <2>4. Vetted(req[q], now) /\ req[q].pc \in InFlight
    BY <1>1 DEF EntitledInv, InFlight
  <2>5. Timely(d, now)
    BY <1>1, <2>1, <2>4 DEF Vetted, Timely
  <2>6. Vetted(d, now)
    BY <1>1, <2>1, <2>3, <2>4, <2>5 DEF Vetted
  <2> QED
    BY <1>1, <2>2, <2>6, VettedStep
<1> QED
  BY <1>2, <1>3 DEF StoreMatch, StoreMatchFails

\* Signing: only what has been vetted.
LEMMA SignVetted ==
  ASSUME EntitledInv, req \in [Req -> Request], NEW q \in Req, Sign(q)
  PROVE  EntitledInv'
<1>1. req[q].pc = "sign" /\ now' = now
  BY DEF Sign
<1>2. CASE req[q].entry.spiffeId \notin OwnId
  BY <1>1, <1>2, AnswerVetted DEF Sign, Status
<1>3. CASE req[q].entry.spiffeId \in OwnId
  <2> DEFINE s == Svid(q)
             d == Answered(req[q], 200)
  <2>1. /\ s.kind = req[q].kind /\ s.entry = req[q].entry /\ s.ev = req[q].ev /\ s.aud = req[q].aud
        /\ s.came = req[q].at /\ s.iat = now
    BY DEF Svid
  <2>2. issued' = issued \cup {s} /\ req' = [req EXCEPT ![q] = d]
    BY <1>3 DEF Sign, Answer, Answered
  <2>3. d.pc = "done"
    <3>1. 200 \in Status
      BY DEF Status
    <3> QED
      BY <3>1, AnsweredIsRequest
  <2> HIDE DEF s, d
  <2>4. Vetted(req[q], now) /\ req[q].pc \in InFlight
    BY <1>1 DEF EntitledInv, InFlight
  <2>5. Vouched(s)
    BY <1>1, <2>1, <2>4 DEF Vetted, Timely, Vouched, Registered, AccountAllowed
  <2>6. /\ Entitled(s.entry, s.ev.attestor, s.ev.claims)
        /\ s.entry.spiffeId \in OwnId /\ (s.kind = "jwt" => s.aud # {})
    BY <1>1, <1>3, <2>1, <2>4 DEF Vetted
  <2>7. OnlyEntitled'
    BY <2>2, <2>5, <2>6 DEF EntitledInv, OnlyEntitled, Vouched
  <2>8. \A r \in Req : Vetted(req'[r], now')
    BY <1>1, <2>2, <2>3, EndedIsVetted DEF EntitledInv, InFlight
  <2> QED
    BY <2>7, <2>8 DEF EntitledInv
<1> QED
  BY <1>2, <1>3

\* Nothing else vets a request or signs: commands, restarts and the clock leave both
\* alone, a kill only ends requests.
LEMMA EntitledInvStep == ApiInv /\ EntitledInv /\ [Next]_vars => EntitledInv'
<1> SUFFICES ASSUME ApiInv, EntitledInv, [Next]_vars PROVE EntitledInv'
  OBVIOUS
<1>1. req \in [Req -> Request] /\ table \subseteq AnyEntry /\ now \in 0..MaxNow
  BY DEF ApiInv, ApiTypeOK, StoreInv, StoreTypeOK
<1>2. CASE UNCHANGED <<req, issued, now>>
  BY <1>2 DEF EntitledInv, OnlyEntitled, Vouched
<1>3. CASE Kill
  <2>1. ASSUME NEW r \in Req PROVE Vetted(req'[r], now')
    <3>1. CASE req[r].pc \in InFlight
      <4>1. req'[r].pc = "lost"
        BY <1>1, <1>3, <3>1 DEF Kill, Request
      <4> QED
        BY <4>1, EndedIsVetted DEF InFlight
    <3>2. CASE req[r].pc \notin InFlight
      <4>1. req'[r] = req[r] /\ now' = now
        BY <1>3, <3>2 DEF Kill
      <4> QED
        BY <4>1 DEF EntitledInv
    <3> QED
      BY <3>1, <3>2
  <2>2. OnlyEntitled'
    BY <1>3 DEF Kill, EntitledInv, OnlyEntitled, Vouched
  <2> QED
    BY <2>1, <2>2 DEF EntitledInv
<1>4. CASE Tick
  <2>1. now' \in 0..MaxNow /\ now <= now' /\ UNCHANGED <<req, issued>>
    BY <1>1, <1>4, TimeAssumption DEF Tick
  <2>2. \A r \in Req : Vetted(req[r], now')
    BY <1>1, <2>1, VettedLater DEF EntitledInv
  <2>3. OnlyEntitled'
    BY <2>1 DEF EntitledInv, OnlyEntitled, Vouched
  <2> QED
    BY <2>1, <2>2, <2>3 DEF EntitledInv
<1>5. ASSUME NEW q \in Req, HandleAttest(q) PROVE EntitledInv'
  BY <1>1, <1>5, AttestVetted, MatchVetted, SignVetted DEF HandleAttest
<1>6. UNCHANGED <<req, issued, now>> \/ Kill \/ Tick \/ \E q \in Req : HandleAttest(q)
  BY DEF Next, vars, apiVars, BootBegin, BootLoad, BootEnd, Commands
<1> QED
  BY <1>2, <1>3, <1>4, <1>5, <1>6

\* No SVID goes to a workload whose evidence the platform does not stand for, was out of
\* date when the request came or does not entitle it to the entry, for any requests,
\* entries, waits and commands in between, whatever is enabled and allowed.
THEOREM OnlyEntitledAlways == Spec => []OnlyEntitled
<1>1. Init => EntitledInv
  <2>1. Init => OnlyEntitled
    BY DEF Init, OnlyEntitled
  <2>2. Init => \A q \in Req : Vetted(req[q], now)
    BY EndedIsVetted DEF Init, Fresh, InFlight
  <2> QED
    BY <2>1, <2>2 DEF EntitledInv
<1>2. EntitledInv => OnlyEntitled
  BY DEF EntitledInv
<1> QED
  BY ApiInvInit, ApiInvStep, EntitledInvStep, <1>1, <1>2, PTL DEF Spec

-----------------------------------------------------------------------------
(* When an X.509 SVID verifies                                             *)

\* While the root is valid, an X.509 SVID that has not expired verifies if it was issued
\* early enough for the intermediate to outlive any SVID, or while the intermediate of
\* the incarnation that issued it, still running, is valid: the ends of root and
\* intermediate, which nothing renews, are all that X509Verifies fails for.
X509VerifiesInTime ==
  \A s \in issued :
    /\ s.kind = "x509" /\ now <= s.exp /\ now <= RootEnd
    /\ s.iat + LifetimeCap <= s.interEnd \/ (s.jwtKey = loads /\ now <= interEnd)
    => HandleValidate(s)

\* The SVIDs of the current incarnation are signed with its intermediate.
Incarnation ==
  \A s \in issued :
    /\ s.jwtKey \in Nat /\ s.jwtKey <= loads /\ s.interEnd \in Nat
    /\ s.jwtKey = loads => s.interEnd = interEnd

\* The cap is a number of seconds.
LEMMA CapType == LifetimeCap \in Int
<1> DEFINE top == IF DefaultTTL > MaxTTL THEN DefaultTTL ELSE MaxTTL
<1>1. top \in Int /\ top <= top
  BY ConfigAssumption, WordAssumption DEF Duration
<1> HIDE DEF top
<1>2. WholeSeconds(top) \in Int
  BY <1>1, WholeSecondsMonotone
<1> QED
  BY <1>2 DEF LifetimeCap, top

\* The number of an incarnation and its intermediate change together, and only at a start.
LEMMA IncarnationStep == ApiInv /\ Incarnation /\ [Next]_vars => Incarnation'
<1> SUFFICES ASSUME ApiInv, Incarnation, [Next]_vars PROVE Incarnation'
  OBVIOUS
<1>1. loads \in Nat /\ interEnd \in Nat
  BY BoundAssumption DEF ApiInv, ApiTypeOK, StoreInv, StoreTypeOK
<1>2. CASE UNCHANGED <<issued, loads, interEnd>>
  BY <1>2 DEF Incarnation
<1>3. CASE BootBegin
  <2>1. loads' = loads + 1 /\ issued' = issued
    BY <1>3 DEF BootBegin, PreloadBegin
  <2> QED
    BY <1>1, <2>1 DEF Incarnation
<1>4. ASSUME NEW q \in Req, Sign(q) PROVE Incarnation'
  <2>1. Svid(q).jwtKey = loads /\ Svid(q).interEnd = interEnd
    BY DEF Svid
  <2>2. issued' \subseteq issued \cup {Svid(q)} /\ loads' = loads /\ interEnd' = interEnd
    BY <1>4 DEF Sign, storeVars
  <2> QED
    BY <1>1, <2>1, <2>2 DEF Incarnation
<1>5. UNCHANGED <<issued, loads, interEnd>> \/ BootBegin \/ \E q \in Req : Sign(q)
  <2>1. CASE Kill
    BY <2>1 DEF Kill, PreloadAbort, storeVars
  <2>2. CASE BootLoad \/ BootEnd \/ Tick \/ UNCHANGED vars
    BY <2>2 DEF BootLoad, PreloadEntry, BootEnd, PreloadEnd, Tick, storeVars, vars, apiVars
  <2>3. CASE Commands
    BY <2>3 DEF Commands, EntryCreate, EntryUpdateGet, EntryUpdatePut, EntryUpdateFails, EntryDelete, apiVars
  <2>4. ASSUME NEW q \in Req, HandleAttest(q) PROVE UNCHANGED <<issued, loads, interEnd>> \/ Sign(q)
    BY <2>4 DEF HandleAttest, Receive, RegistryAttest, StsAnswers, StsFails, StoreMatch, StoreMatchFails, storeVars
  <2> QED
    BY <2>1, <2>2, <2>3, <2>4 DEF Next
<1> QED
  BY <1>2, <1>3, <1>4, <1>5

\* What the unrenewed intermediate breaks, and nothing else does before the root's own
\* end: every X.509 SVID issued at least the longest lifetime before the intermediate's
\* end verifies for all of its own lifetime, the others until that end, across any kills
\* and restarts before.
THEOREM X509VerifiesInTimeAlways == Spec => []X509VerifiesInTime
<1>1. Init => Incarnation
  BY DEF Init, Incarnation
<1>2. ASSUME ApiInv, Incarnation PROVE X509VerifiesInTime
  <2> SUFFICES ASSUME NEW s \in issued, s.kind = "x509", now <= s.exp, now <= RootEnd,
                      s.iat + LifetimeCap <= s.interEnd \/ (s.jwtKey = loads /\ now <= interEnd)
               PROVE  now <= s.interEnd
    BY DEF X509VerifiesInTime, HandleValidate, ValidateX509SVID
  <2>1. now \in Int /\ s.iat \in Int /\ s.exp \in Int /\ s.interEnd \in Int
    BY <1>2, TimeAssumption DEF ApiInv, ApiTypeOK, Incarnation
  <2>2. s.exp - s.iat <= LifetimeCap /\ LifetimeCap \in Int
    BY <1>2, CapType DEF ApiInv, Lifetimes
  <2>3. s.jwtKey = loads => s.interEnd = interEnd
    BY <1>2 DEF Incarnation
  <2> QED
    BY <2>1, <2>2, <2>3
<1> QED
  BY ApiInvInit, ApiInvStep, IncarnationStep, <1>1, <1>2, PTL DEF Spec
=============================================================================
