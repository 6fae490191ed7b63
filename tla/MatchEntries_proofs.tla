------------------------ MODULE MatchEntries_proofs ------------------------
(* The loop of MatchEntries returns the one right entry, for every table,  *)
(* every set of claims and every order of the rows.                        *)
EXTENDS MatchEntries, TLAPS

\* The reference's set inclusion and the code's loop over selectors agree.
LEMMA EntitledIsMatch ==
  ASSUME NEW e \in Entry, NEW a, NEW c
  PROVE  Entitled(e, a, c) <=> e.attestor = a /\ allSelectorsMatch(e.selectors, c)
<1>1. \A i \in 1..Len(e.selectors) : e.selectors[i] \in Selector
  BY EntryAssumption DEF Matchable
<1> QED
  BY <1>1 DEF Entitled, allSelectorsMatch, Satisfied

\* A table has at most one answer, so the result does not depend on the row order.
THEOREM AnswerUnique ==
  ASSUME NEW S \in SUBSET Entry, NEW a, NEW c, NEW v, NEW w,
         IsAnswer(v, S, a, c), IsAnswer(w, S, a, c)
  PROVE  v = w
<1>1. \A e \in S : e.id \in Nat /\ Len(e.selectors) \in Nat
  BY EntryAssumption DEF Matchable
<1> QED
  BY <1>1 DEF IsAnswer, Outranks

\* Types, the primary key and the loop invariant.
LoopInv == TypeOK /\ DistinctIds(rows) /\ BestSoFar

\* Nothing visited yet: nil is the answer for no rows.
LEMMA LoopInvInit == Init => LoopInv
BY TablesAssumption DEF Init, LoopInv, TypeOK, BestSoFar, IsAnswer

\* One iteration extends the answer to one more row.
LEMMA LoopInvStep == LoopInv /\ [Next]_vars => LoopInv'
<1> SUFFICES ASSUME LoopInv, [Next]_vars PROVE LoopInv'
  OBVIOUS
<1>1. CASE UNCHANGED vars
  BY <1>1 DEF vars, LoopInv, TypeOK, DistinctIds, BestSoFar, IsAnswer, Entitled, Outranks, Satisfied
<1>2. ASSUME NEW e \in todo, Visit(e) PROVE LoopInv'
  <2>1. e \in Entry /\ e \in rows /\ NoEntry \notin Entry
    BY <1>2, EntryAssumption DEF LoopInv, TypeOK
  <2>2. rows' = rows /\ attestorName' = attestorName /\ claims' = claims
    BY <1>2 DEF Visit
  <2>3. TypeOK' /\ DistinctIds(rows')
    BY <1>2, <2>1, <2>2 DEF LoopInv, TypeOK, Visit, DistinctIds
  <2> DEFINE S == rows \ todo
             Ok(x) == Entitled(x, attestorName, claims)
  <2>4. rows' \ todo' = S \cup {e} /\ e \notin S
    BY <1>2, <2>1, <2>2 DEF Visit
  <2>5. \A x \in rows : x \in Entry /\ x.id \in Nat /\ Len(x.selectors) \in Nat
    BY EntryAssumption DEF LoopInv, TypeOK, Matchable
  <2>6. best' = IF Ok(e) /\ Replaces(e, best) THEN e ELSE best
    BY <1>2, <2>1, EntitledIsMatch DEF Visit
  <2>7. IsAnswer(best, S, attestorName, claims)
    BY DEF LoopInv, BestSoFar
  <2>8. \A x \in S : x.id # e.id
    BY <2>1, <2>4 DEF LoopInv, DistinctIds
  <2>9. IsAnswer(best', S \cup {e}, attestorName, claims)
    <3> HIDE DEF S, Ok
    <3>0. \A x \in S : x \in rows
      BY DEF S
    <3>1. CASE ~Ok(e)
      BY <2>1, <2>6, <2>7, <3>1 DEF IsAnswer, Ok
    <3>2. CASE Ok(e) /\ best = NoEntry
      BY <2>1, <2>6, <2>7, <3>2 DEF IsAnswer, Ok, Replaces
    <3>3. CASE Ok(e) /\ best # NoEntry /\ Replaces(e, best)
      BY <2>1, <2>5, <2>6, <2>7, <3>0, <3>3 DEF IsAnswer, Ok, Replaces, Outranks
    <3>4. CASE Ok(e) /\ best # NoEntry /\ ~Replaces(e, best)
      <4>1. best \in S /\ Outranks(best, e)
        BY <2>1, <2>5, <2>7, <2>8, <3>0, <3>4 DEF IsAnswer, Replaces, Outranks
      <4> QED
        BY <2>6, <2>7, <3>4, <4>1 DEF IsAnswer, Ok
    <3> QED
      BY <3>1, <3>2, <3>3, <3>4
  <2>10. BestSoFar'
    BY <2>2, <2>4, <2>9 DEF BestSoFar
  <2> QED
    BY <2>3, <2>10 DEF LoopInv
<1> QED
  BY <1>1, <1>2 DEF Next

\* Type correctness of the loop.
THEOREM TypeCorrect == Spec => []TypeOK
<1>1. LoopInv => TypeOK
  BY DEF LoopInv
<1> QED
  BY LoopInvInit, LoopInvStep, <1>1, PTL DEF Spec

\* MatchEntries returns what its comment says, for every table and row order.
THEOREM ReturnsAnswerAlways == Spec => []ReturnsAnswer
<1>1. LoopInv => ReturnsAnswer
  BY DEF LoopInv, BestSoFar, ReturnsAnswer
<1> QED
  BY LoopInvInit, LoopInvStep, <1>1, PTL DEF Spec
=============================================================================
