------------------------------ MODULE Matching ------------------------------
(***************************************************************************)
(* Which registration entry an attested workload gets                      *)
(* (internal/entry/matcher.go).                                            *)
(*                                                                         *)
(* A selector "k:v" is a key and the set of claim values its glob v        *)
(* matches; a selector without a colon has the key NoKey, a malformed glob *)
(* matches no value.  Claims map keys to values.  An entry's id is its     *)
(* rank in the lexicographic order of IDs.                                 *)
(***************************************************************************)
EXTENDS Naturals, Sequences

CONSTANTS
  Attestor,  \* attestor names
  Key,       \* claim keys
  Value,     \* claim values
  NoKey,     \* the key of a selector that has no colon
  NoEntry    \* MatchEntries' nil

ASSUME NoKeyAssumption == NoKey \notin Key

Selector == [key : Key \cup {NoKey}, vals : SUBSET Value]
Claims == UNION {[K -> Value] : K \in SUBSET Key}

\* What an entry must carry for the matcher.
Matchable(e) ==
  /\ e.id \in Nat
  /\ e.attestor \in Attestor
  /\ e.selectors \in Seq(Selector)

\* Mutant: one matching selector is enough.
someSelectorMatches(selectors, claims) ==
  \E i \in 1..Len(selectors) :
    selectors[i].key \in DOMAIN claims /\ claims[selectors[i].key] \in selectors[i].vals

\* All of them must match: a key the claims do not have fails.
allSelectorsMatch(selectors, claims) ==
  \A i \in 1..Len(selectors) :
    selectors[i].key \in DOMAIN claims /\ claims[selectors[i].key] \in selectors[i].vals

\* Mutant: a tie goes to the entry visited last.
ReplacesOnTie(e, best) ==
  \/ best = NoEntry
  \/ Len(e.selectors) >= Len(best.selectors)

\* Does the loop of MatchEntries put e in the place of best?
Replaces(e, best) ==
  \/ best = NoEntry
  \/ Len(e.selectors) > Len(best.selectors)
  \/ Len(e.selectors) = Len(best.selectors) /\ e.id < best.id

-----------------------------------------------------------------------------
(* The reference: what MatchEntries' comment promises of its result.       *)

\* The claims satisfy selector s.
Satisfied(s, claims) == s.key \in DOMAIN claims /\ claims[s.key] \in s.vals

\* Entry e is meant for a workload with these claims from this attestor.
Entitled(e, attestorName, claims) ==
  /\ e.attestor = attestorName
  /\ {e.selectors[i] : i \in 1..Len(e.selectors)} \subseteq {s \in Selector : Satisfied(s, claims)}

\* a is more specific than b, or as specific and earlier in ID order.
Outranks(a, b) ==
  \/ Len(a.selectors) > Len(b.selectors)
  \/ Len(a.selectors) = Len(b.selectors) /\ a.id < b.id

\* w is the answer for these rows: entitled, and it outranks every other entitled entry.
IsAnswer(w, rows, attestorName, claims) ==
  IF w = NoEntry
  THEN \A e \in rows : ~Entitled(e, attestorName, claims)
  ELSE /\ w \in rows /\ Entitled(w, attestorName, claims)
       /\ \A e \in rows : Entitled(e, attestorName, claims) /\ e # w => Outranks(w, e)
=============================================================================
