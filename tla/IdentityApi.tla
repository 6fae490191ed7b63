---------------------------- MODULE IdentityApi ----------------------------
(***************************************************************************)
(* The server: POST /v1/attest (internal/server/attest.go) from evidence   *)
(* to SVID, the CA that signs and validates (internal/ca/self_signed.go),  *)
(* POST /v1/validate (internal/server/validate.go), and the process that   *)
(* holds them (internal/cli/server.go), composed with the entry store.     *)
(* Requests run concurrently with each other, with the `entry' commands on *)
(* the same database and with kills and restarts of the server.            *)
(*                                                                         *)
(* The root is the same for every incarnation of the server (RootStore     *)
(* shows when it is); the intermediate and the JWT key are fresh in each.  *)
(* Time is counted in seconds.                                             *)
(***************************************************************************)
EXTENDS EntryStore, Matching, Ttl

CONSTANTS
  Req,        \* requests; each is sent once
  Evidence,   \* platform credentials: [attestor, genuine, claims, exp], whether the platform
              \* stands for them, what they claim and their expiry (a token that states none:
              \* any later time); of AWS also the date of the signed request and the account
  Enabled,    \* evidence types of the attestors that the configuration enables
  Aws,        \* the evidence type of AWS
  AwsMaxAge,  \* how far the date of a signed AWS request may lie in the past
  AwsMaxLead, \* and in the future
  AllowedAccountIDs, \* AWS accounts that may attest; empty: all
  OwnId,      \* SPIFFE IDs of the CA's trust domain that have a path
  Audience,   \* audiences of JWT SVIDs
  EmptyAud,   \* the empty string as an audience
  SigningTTL, \* config ca.signing_ttl: lifetime of the intermediate
  RootEnd,    \* NotAfter of the root, ten years after it was generated; never renewed
  Skew,       \* clock skew that attestors and JWT validation tolerate
  MaxNow      \* bound: the clock

ASSUME TtlAssumption == FieldValues("ttl") \subseteq Int
ASSUME AwsAssumption == AwsMaxAge \in Nat /\ AwsMaxLead \in Nat
ASSUME TimeAssumption == {SigningTTL, RootEnd, Skew, MaxNow} \subseteq Nat
ASSUME EvidenceAssumption ==
  \A ev \in Evidence : /\ ev.genuine \in BOOLEAN /\ ev.exp \in Int
                       /\ ev.attestor = Aws => ev.date \in Int

VARIABLES
  now,        \* the clock
  server,     \* "up" while the server process serves, else "down"
  interEnd,   \* NotAfter of its intermediate certificate
  req,        \* state of each request's handler; history `at': when the request came
  barred,     \* history: IDs deleted before the request came, not created since
  issued      \* history: SVIDs signed

apiVars == <<now, server, interEnd, req, barred, issued>>
vars == <<storeVars, apiVars>>

InFlight == {"attest", "sts", "match", "sign"}
Kind == {"x509", "jwt"}
Fresh == [pc |-> "new", kind |-> "x509", aud |-> {}, ev |-> NoRow, at |-> 0, entry |-> NoEntry,
          status |-> 0]

Init ==
  /\ StoreInit
  /\ now = 0
  /\ server = "down"
  /\ interEnd = 0
  /\ req = [q \in Req |-> Fresh]
  /\ barred = [q \in Req |-> {}]
  /\ issued = {}

-----------------------------------------------------------------------------
(* The process.  An incarnation is numbered by `loads'.                    *)

\* Mutant: the intermediate's NotAfter lies before its NotBefore.
BootBeginBackdated ==
  /\ server = "down" /\ PreloadBegin
  /\ interEnd' = now - SigningTTL
  /\ UNCHANGED <<now, server, req, barred, issued>>

\* server start: the CA makes a fresh intermediate, valid for SigningTTL and never
\* renewed; then the store is opened and the preload of the file of entries begins.
BootBegin ==
  /\ server = "down" /\ PreloadBegin
  /\ interEnd' = now + SigningTTL
  /\ UNCHANGED <<now, server, req, barred, issued>>

\* The entries are loaded and the server serves.
BootEnd ==
  /\ PreloadEnd
  /\ server' = "up"
  /\ UNCHANGED <<now, interEnd, req, barred, issued>>

\* The process is killed, serving or starting; requests under way get no answer.
Kill ==
  /\ \/ server = "up" /\ UNCHANGED storeVars
     \/ PreloadAbort
  /\ server' = "down"
  /\ req' = [q \in Req |-> IF req[q].pc \in InFlight THEN [req[q] EXCEPT !.pc = "lost"] ELSE req[q]]
  /\ UNCHANGED <<now, interEnd, barred, issued>>

Tick ==
  /\ now < MaxNow
  /\ now' = now + 1
  /\ UNCHANGED <<storeVars, server, interEnd, req, barred, issued>>

-----------------------------------------------------------------------------
(* handleAttest                                                            *)

Answer(q, code) == req' = [req EXCEPT ![q] = [@ EXCEPT !.pc = "done", !.status = code]]

\* Decode and check the request; a JWT SVID needs an audience.
Receive(q, kind, aud, ev) ==
  /\ server = "up" /\ req[q].pc = "new"
  /\ IF kind = "jwt" /\ aud = {}
     THEN Answer(q, 400)
     ELSE req' = [req EXCEPT ![q] = [Fresh EXCEPT !.pc = "attest", !.kind = kind,
                                                  !.aud = aud, !.ev = ev, !.at = now]]
  /\ barred' = [barred EXCEPT ![q] = deleted]
  /\ UNCHANGED <<storeVars, now, server, interEnd, issued>>

\* An attestor of the JWT kind accepts the credential: issuer and signature are right
\* (module JwksCache: by which keys) and it has not expired.  The expiry it reports
\* (AttestationResult.ExpiresAt) is not read afterwards.
TokenVerified(ev) == ev.genuine /\ now <= ev.exp + Skew

\* Mutant: the date of a signed request is not looked at.
AwsTimelyUnchecked(ev) == TRUE

\* The AWS attestor looks at the date before it asks anybody.
AwsTimely(ev) == now - ev.date <= AwsMaxAge /\ ev.date - now <= AwsMaxLead

\* buildAttestorRegistry: one attestor for each evidence type that is enabled.
Registered(ev) == ev.attestor \in Enabled

\* The first attestor that takes the evidence type verifies it, AWS by asking STS.
RegistryAttest(q) ==
  /\ req[q].pc = "attest"
  /\ LET ev == req[q].ev IN
     \/ /\ Registered(ev) /\ ev.attestor # Aws /\ TokenVerified(ev)
        /\ req' = [req EXCEPT ![q].pc = "match"]
     \/ /\ Registered(ev) /\ ev.attestor = Aws /\ AwsTimely(ev)
        /\ req' = [req EXCEPT ![q].pc = "sts"]
     \/ /\ \/ ~Registered(ev)
           \/ ev.attestor # Aws /\ ~TokenVerified(ev)
           \/ ev.attestor = Aws /\ ~AwsTimely(ev)
        /\ Answer(q, 401)
  /\ UNCHANGED <<storeVars, now, server, interEnd, barred, issued>>

\* STS names the caller of the signed request that was passed on.
AccountAllowed(ev) == AllowedAccountIDs # {} => ev.account \in AllowedAccountIDs

StsAnswers(q) ==
  /\ req[q].pc = "sts" /\ req[q].ev.genuine
  /\ IF AccountAllowed(req[q].ev) THEN req' = [req EXCEPT ![q].pc = "match"] ELSE Answer(q, 401)
  /\ UNCHANGED <<storeVars, now, server, interEnd, barred, issued>>

\* STS refuses the request (always, if its signature is not genuine), cannot be reached
\* or does not answer in time.
StsFails(q) ==
  /\ req[q].pc = "sts"
  /\ Answer(q, 401)
  /\ UNCHANGED <<storeVars, now, server, interEnd, barred, issued>>

\* store.Match: the query and the loop over its rows, whose result is the answer
\* that module MatchEntries shows to be unique.
StoreMatch(q) ==
  /\ req[q].pc = "match"
  /\ \E found \in table \cup {NoEntry} :
       /\ IsAnswer(found, table, req[q].ev.attestor, req[q].ev.claims)
       /\ IF found = NoEntry
          THEN Answer(q, 403)
          ELSE req' = [req EXCEPT ![q] = [@ EXCEPT !.pc = "sign", !.entry = found]]
  /\ UNCHANGED <<storeVars, now, server, interEnd, barred, issued>>

\* A failed query gets the same answer as no entry.
StoreMatchFails(q) ==
  /\ req[q].pc = "match"
  /\ Answer(q, 403)
  /\ UNCHANGED <<storeVars, now, server, interEnd, barred, issued>>

\* The SVID that SignX509SVID or SignJWTSVID makes for request q.
Svid(q) ==
  [req |-> q, kind |-> req[q].kind, entry |-> req[q].entry, ev |-> req[q].ev,
   aud |-> req[q].aud, came |-> req[q].at, iat |-> now, exp |-> now + SignedTTL(HandlerTTL(req[q].entry.ttl)),
   interEnd |-> interEnd, jwtKey |-> loads, barred |-> barred[q]]

Sign(q) ==
  /\ req[q].pc = "sign"
  /\ IF req[q].entry.spiffeId \in OwnId
     THEN issued' = issued \cup {Svid(q)} /\ Answer(q, 200)
     ELSE UNCHANGED issued /\ Answer(q, 500)
  /\ UNCHANGED <<storeVars, now, server, interEnd, barred>>

HandleAttest(q) ==
  \/ \E kind \in Kind, aud \in SUBSET Audience, ev \in Evidence : Receive(q, kind, aud, ev)
  \/ RegistryAttest(q) \/ StsAnswers(q) \/ StsFails(q)
  \/ StoreMatch(q) \/ StoreMatchFails(q) \/ Sign(q)

-----------------------------------------------------------------------------
(* Validation, as the running server would answer now                      *)

\* The chain of leaf, intermediate and root is verified at the current time.
ValidateX509SVID(s) == now <= s.exp /\ now <= s.interEnd /\ now <= RootEnd

\* The token is verified with the one JWT key this incarnation knows.
ValidateJWTSVID(s, expectedAudience) ==
  s.jwtKey = loads /\ now <= s.exp + Skew /\ expectedAudience \in s.aud

\* POST /v1/validate; a JWT SVID is validated for the empty audience.
HandleValidate(s) ==
  IF s.kind = "x509" THEN ValidateX509SVID(s) ELSE ValidateJWTSVID(s, EmptyAud)

-----------------------------------------------------------------------------
\* A created ID is no longer barred to the requests under way.
Unbar(i) == barred' = [q \in Req |-> barred[q] \ {i}]

BootLoad ==
  /\ PreloadEntry
  /\ Unbar(FileEntry[loading].id)
  /\ UNCHANGED <<now, server, interEnd, req, issued>>

Commands ==
  \/ /\ \E e \in Entries : EntryCreate(e) /\ Unbar(e.id)
     /\ UNCHANGED <<now, server, interEnd, req, issued>>
  \/ /\ \/ \E c \in Cli, i \in Id : EntryUpdateGet(c, i)
        \/ \E c \in Cli, change \in Change : EntryUpdatePut(c, change)
        \/ \E c \in Cli : EntryUpdateFails(c)
        \/ \E i \in Id : EntryDelete(i)
     /\ UNCHANGED apiVars

Next ==
  \/ BootBegin \/ BootLoad \/ BootEnd \/ Kill \/ Tick
  \/ Commands
  \/ \E q \in Req : HandleAttest(q)

Spec == Init /\ [][Next]_vars

-----------------------------------------------------------------------------
(* Properties                                                              *)

Status == {0, 200, 400, 401, 403, 500}
Request == [pc : {"new", "lost", "done"} \cup InFlight, kind : Kind, aud : SUBSET Audience,
            ev : Evidence \cup {NoRow}, at : 0..MaxNow, entry : AnyEntry \cup {NoEntry},
            status : Status]

\* Types of the clock, the requests, the histories and what is issued.
ApiTypeOK ==
  /\ now \in 0..MaxNow /\ server \in {"up", "down"} /\ interEnd \in Nat
  /\ req \in [Req -> Request]
  /\ barred \in [Req -> SUBSET Id]
  /\ \A s \in issued : s.kind \in Kind /\ s.entry \in AnyEntry /\ s.iat \in 0..MaxNow /\ s.exp \in Int

\* Every SVID lives no longer than the entry's TTL as the handler reads it, and no
\* longer than the configuration allows, for any TTL in the table, the ones whose
\* product with a second overflows 64 bits included.
LifetimeBounded ==
  \A s \in issued :
    /\ s.exp - s.iat <= HandlerTTL(s.entry.ttl)
    /\ s.exp - s.iat <= LifetimeCap

\* After `entry delete' nothing is issued from the entry to a request that comes
\* later, unless the ID is created again: not even when an `entry update' that had
\* read the entry writes it back afterwards.
RevokedGetsNothing == \A s \in issued : s.entry.id \notin s.barred

\* The platform stands for the evidence, and it was good at some moment since the request
\* came: a token not expired; an AWS request neither too old nor dated ahead, of an
\* account on the list.
Vouched(s) ==
  /\ s.ev.attestor \in Enabled /\ s.ev.genuine
  /\ IF s.ev.attestor = Aws
     THEN /\ AllowedAccountIDs = {} \/ s.ev.account \in AllowedAccountIDs
          /\ s.came - s.ev.date <= AwsMaxAge /\ s.ev.date - s.iat <= AwsMaxLead
     ELSE s.came <= s.ev.exp + Skew

\* An SVID goes to nobody who is not meant to have it, whatever the operators change and
\* however long STS takes while the request is under way: an attestor that is enabled has
\* vouched for the evidence; the entry it was signed from is of that attestor and all its
\* selectors match the claims; the identity is the trust domain's own; a JWT names an
\* audience.
OnlyEntitled ==
  \A s \in issued :
    /\ Vouched(s)
    /\ Entitled(s.entry, s.ev.attestor, s.ev.claims)
    /\ s.entry.spiffeId \in OwnId
    /\ s.kind = "jwt" => s.aud # {}

\* The README: the lifetime is bounded by what remains of the platform token.
WithinPlatformToken == \A s \in issued : s.exp <= s.ev.exp + Skew

\* An X.509 SVID that has not expired verifies at the server that issued it.
X509Verifies ==
  \A s \in issued : server = "up" /\ s.kind = "x509" /\ s.jwtKey = loads /\ now <= s.exp => HandleValidate(s)

\* A JWT SVID that has not expired is valid to the server that issued it.
JwtValidates ==
  \A s \in issued : server = "up" /\ s.kind = "jwt" /\ s.jwtKey = loads /\ now <= s.exp => HandleValidate(s)
=============================================================================
