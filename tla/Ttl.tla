-------------------------------- MODULE Ttl --------------------------------
(***************************************************************************)
(* The lifetime of an SVID: the handler's default (internal/server/        *)
(* attest.go) and computeTTL (internal/ca/self_signed.go).  Durations are  *)
(* signed 64-bit counts of nanoseconds; time.Duration(n) * time.Second     *)
(* wraps.  Second and WordHalf stand for 10^9 and 2^63.                    *)
(***************************************************************************)
EXTENDS Integers

CONSTANTS
  Second,         \* time units in a second
  WordHalf,       \* durations are the integers in -WordHalf .. WordHalf - 1
  DefaultTTL,     \* config ca.default_svid_ttl, a duration
  MaxTTL,         \* config ca.max_svid_ttl, a duration
  HandlerDefault  \* seconds the handler asks for when the entry has no TTL (3600)

Duration == (-WordHalf)..(WordHalf - 1)

ASSUME WordAssumption ==
  Second \in Nat \ {0} /\ WordHalf \in Nat \ {0} /\ Second < WordHalf
ASSUME ConfigAssumption == DefaultTTL \in Duration /\ MaxTTL \in Duration
ASSUME HandlerAssumption == HandlerDefault \in Nat \ {0}

\* "the zero time.Time": no platform expiry is known
NoExpiry == -WordHalf - 1

Wrap(n) == ((n + WordHalf) % (2 * WordHalf)) - WordHalf

\* time.Duration(n) * time.Second
Seconds(n) == Wrap(n * Second)

\* int(d.Seconds()): rounds towards zero
WholeSeconds(d) == IF d >= 0 THEN d \div Second ELSE -((-d) \div Second)

Smaller(a, b) == IF a < b THEN a ELSE b

\* The lifetime before the cap: the request (or the default) bounded by the entry
\* and by what is left of the platform's credential.
Bounded(requestedTTL, entryTTL, remaining) ==
  LET asked    == IF requestedTTL > 0 THEN Seconds(requestedTTL) ELSE DefaultTTL
      byEntry  == IF entryTTL > 0 THEN Smaller(Seconds(entryTTL), asked) ELSE asked
  IN  IF remaining > 0 THEN Smaller(remaining, byEntry) ELSE byEntry

\* Mutant: the cap by the global maximum is forgotten.
ComputeTTLUncapped(requestedTTL, entryTTL, remaining) ==
  LET effective == Bounded(requestedTTL, entryTTL, remaining)
  IN  WholeSeconds(IF effective <= 0 THEN DefaultTTL ELSE effective)

computeTTL(requestedTTL, entryTTL, remaining) ==
  LET effective == Smaller(MaxTTL, Bounded(requestedTTL, entryTTL, remaining))
  IN  WholeSeconds(IF effective <= 0 THEN DefaultTTL ELSE effective)

\* handleAttest: the matched entry's TTL, or one hour.
HandlerTTL(entryTTL) == IF entryTTL <= 0 THEN HandlerDefault ELSE entryTTL

\* SignX509SVID and SignJWTSVID hand computeTTL the handler's TTL as the request,
\* no entry TTL and no platform expiry.
SignedTTL(ttl) == computeTTL(ttl, 0, NoExpiry)

\* The longest lifetime the configuration allows, in whole seconds.
LifetimeCap == WholeSeconds(IF DefaultTTL > MaxTTL THEN DefaultTTL ELSE MaxTTL)
=============================================================================
