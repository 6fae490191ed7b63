----------------------------- MODULE Ttl_proofs -----------------------------
(* Bounds on computeTTL for every configuration and every 64-bit input.    *)
EXTENDS Ttl, TLAPS

\* The product with time.Second is a duration, whatever overflowed.
LEMMA WrapIsDuration ==
  ASSUME NEW n \in Int
  PROVE  Wrap(n) \in Duration
<1>1. WordHalf \in Nat /\ WordHalf > 0
  BY WordAssumption
<1>2. (n + WordHalf) % (2 * WordHalf) \in 0..(2 * WordHalf - 1)
  BY <1>1
<1> QED
  BY <1>1, <1>2 DEF Wrap, Duration

\* A product that fits is not changed by the wrap.
LEMMA WrapExact ==
  ASSUME NEW n \in Duration
  PROVE  Wrap(n) = n
<1>1. WordHalf \in Nat /\ WordHalf > 0
  BY WordAssumption
<1>2. n + WordHalf \in 0..(2 * WordHalf - 1)
  BY <1>1 DEF Duration
<1>3. (n + WordHalf) % (2 * WordHalf) = n + WordHalf
  BY <1>1, <1>2
<1> QED
  BY <1>1, <1>2, <1>3 DEF Wrap, Duration

\* Rounding to whole seconds is monotone on durations that are not negative.
LEMMA WholeSecondsMonotone ==
  ASSUME NEW a \in Int, NEW b \in Int, a <= b
  PROVE  WholeSeconds(a) <= WholeSeconds(b) /\ WholeSeconds(a) \in Int
BY WordAssumption DEF WholeSeconds

\* The uncapped lifetime is a duration.
LEMMA BoundedIsDuration ==
  ASSUME NEW req \in Int, NEW ent \in Int, NEW rem \in Duration \cup {NoExpiry}
  PROVE  Bounded(req, ent, rem) \in Duration
<1>1. Seconds(req) \in Duration /\ Seconds(ent) \in Duration
  BY WrapIsDuration, WordAssumption DEF Seconds
<1>2. rem > 0 => rem \in Duration
  BY WordAssumption DEF NoExpiry, Duration
<1> QED
  BY <1>1, <1>2, ConfigAssumption DEF Bounded, Smaller

\* No input of computeTTL, overflowing or not, yields a lifetime above the larger of
\* the two configured limits.
THEOREM LifetimeCapped ==
  ASSUME NEW req \in Int, NEW ent \in Int, NEW rem \in Duration \cup {NoExpiry}
  PROVE  computeTTL(req, ent, rem) \in Int /\ computeTTL(req, ent, rem) <= LifetimeCap
<1> DEFINE e == Smaller(MaxTTL, Bounded(req, ent, rem))
           t == IF e <= 0 THEN DefaultTTL ELSE e
           top == IF DefaultTTL > MaxTTL THEN DefaultTTL ELSE MaxTTL
<1>1. Bounded(req, ent, rem) \in Int /\ DefaultTTL \in Int /\ MaxTTL \in Int
  BY BoundedIsDuration, ConfigAssumption, WordAssumption DEF Duration
<1>2. t \in Int /\ top \in Int /\ t <= top
  BY <1>1 DEF Smaller
<1> HIDE DEF t, top
<1>3. WholeSeconds(t) \in Int /\ WholeSeconds(t) <= WholeSeconds(top)
  BY <1>2, WholeSecondsMonotone
<1> QED
  BY <1>3 DEF computeTTL, t, e, top, LifetimeCap

\* With limits of at least a second, a lifetime whose inputs do not overflow is at
\* least a second and never longer than the request, the entry's TTL, the rest of
\* the platform credential or the maximum, the four bounds that the comment on
\* computeTTL names.
THEOREM LifetimeWithinBounds ==
  ASSUME NEW req \in Nat, NEW ent \in Nat, NEW rem \in Duration \cup {NoExpiry},
         req * Second < WordHalf, ent * Second < WordHalf,
         DefaultTTL >= Second, MaxTTL >= Second, rem <= 0 \/ rem >= Second
  PROVE  LET ttl == computeTTL(req, ent, rem)
         IN  /\ ttl \in Nat \ {0}
             /\ req > 0 => ttl <= req
             /\ ent > 0 => ttl <= ent
             /\ rem > 0 => ttl * Second <= rem
             /\ ttl * Second <= MaxTTL
<1> DEFINE b == Bounded(req, ent, rem)
           ttl == computeTTL(req, ent, rem)
<1>0. Second \in Nat /\ Second > 0 /\ DefaultTTL \in Int /\ MaxTTL \in Int /\ rem \in Int
  BY WordAssumption, ConfigAssumption DEF Duration, NoExpiry
<1>1. req * Second \in Duration /\ ent * Second \in Duration
  BY WordAssumption DEF Duration
<1>2. Seconds(req) = req * Second /\ Seconds(ent) = ent * Second
  BY <1>1, WrapExact DEF Seconds
<1>3. (req > 0 => req * Second >= Second) /\ (ent > 0 => ent * Second >= Second)
  BY <1>0
<1>4. /\ b \in Int /\ b >= Second
      /\ req > 0 => b <= req * Second
      /\ ent > 0 => b <= ent * Second
      /\ rem > 0 => b <= rem
  BY <1>0, <1>1, <1>2, <1>3 DEF Bounded, Smaller, Duration
<1> DEFINE e == Smaller(MaxTTL, b)
<1>5. e \in Int /\ e >= Second /\ e <= b /\ e <= MaxTTL
  BY <1>0, <1>4 DEF Smaller
<1>6. ttl = e \div Second
  <2>1. ttl = WholeSeconds(IF e <= 0 THEN DefaultTTL ELSE e)
    BY DEF computeTTL
  <2> HIDE DEF e, ttl
  <2> QED
    BY <1>0, <1>5, <2>1 DEF WholeSeconds
<1> HIDE DEF e, b, ttl
<1>7. ttl \in Int /\ ttl >= 1 /\ ttl * Second <= e
  BY <1>0, <1>5, <1>6
<1>8. \A n \in Nat : e <= n * Second => ttl <= n
  BY <1>0, <1>5, <1>6
<1>9. ttl * Second \in Int
  BY <1>0, <1>7
<1>10. req > 0 => ttl <= req
  BY <1>0, <1>1, <1>4, <1>5, <1>8 DEF Duration
<1>11. ent > 0 => ttl <= ent
  BY <1>0, <1>1, <1>4, <1>5, <1>8 DEF Duration
<1>12. (rem > 0 => ttl * Second <= rem) /\ ttl * Second <= MaxTTL
  BY <1>0, <1>4, <1>5, <1>7, <1>9
<1> QED
  BY <1>7, <1>10, <1>11, <1>12 DEF ttl

\* Reduced modulo the word, a natural number does not grow.
LEMMA WrapNotAbove ==
  ASSUME NEW n \in Nat
  PROVE  Wrap(n) <= n
<1>1. WordHalf \in Nat /\ WordHalf > 0
  BY WordAssumption
<1>2. (n + WordHalf) % (2 * WordHalf) <= n + WordHalf
  BY <1>1
<1> QED
  BY <1>1, <1>2 DEF Wrap

\* Whatever overflows, a lifetime is never longer than the one asked for: a product
\* that wraps to a smaller duration shortens it, one that wraps to a negative
\* duration was longer than any default.
THEOREM NeverLongerThanAsked ==
  ASSUME MaxTTL > 0, NEW req \in Nat \ {0}
  PROVE  SignedTTL(req) \in Int /\ SignedTTL(req) <= req
<1> DEFINE n == req * Second
           e == Smaller(MaxTTL, Wrap(n))
           t == IF e <= 0 THEN DefaultTTL ELSE e
<1>0. Second \in Nat /\ Second > 0 /\ DefaultTTL \in Int /\ MaxTTL \in Int /\ WordHalf \in Nat
      /\ DefaultTTL < WordHalf
  BY WordAssumption, ConfigAssumption DEF Duration
<1>1. n \in Nat
  BY <1>0
<1>2. Wrap(n) \in Int /\ Wrap(n) <= n
  BY <1>0, <1>1, WrapIsDuration, WrapNotAbove DEF Duration
<1>3. SignedTTL(req) = WholeSeconds(t)
  BY <1>0, <1>2 DEF SignedTTL, computeTTL, Bounded, Seconds, NoExpiry
<1>4. Wrap(n) <= 0 => n >= WordHalf \/ n = 0
  <2>1. n < WordHalf => Wrap(n) = n
    BY <1>0, <1>1, WrapExact DEF Duration
  <2> HIDE DEF n
  <2> QED
    BY <1>0, <1>1, <2>1
<1>5. n > 0
  BY <1>0
<1> HIDE DEF n
<1>6. t \in Int /\ t <= n
  BY <1>0, <1>1, <1>2, <1>4, <1>5 DEF Smaller
<1> HIDE DEF t
<1>7. WholeSeconds(t) \in Int /\ WholeSeconds(t) <= WholeSeconds(n)
  BY <1>1, <1>6, WholeSecondsMonotone
<1>8. WholeSeconds(n) = req
  BY <1>0, <1>1 DEF WholeSeconds, n
<1> QED
  BY <1>3, <1>7, <1>8
=============================================================================
