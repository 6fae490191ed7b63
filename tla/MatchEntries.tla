---------------------------- MODULE MatchEntries ----------------------------
(***************************************************************************)
(* The loop of MatchEntries over the rows of a query, in whatever order    *)
(* the database (or, for the JSON store, the iteration over a Go map)      *)
(* delivers them.  Rows have distinct ids: id is the table's primary key.  *)
(***************************************************************************)
EXTENDS Matching

CONSTANTS
  Entry,  \* entries that may be rows of the table
  Tables  \* the tables considered: sets of entries

DistinctIds(S) == \A a, b \in S : a.id = b.id => a = b

ASSUME EntryAssumption == NoEntry \notin Entry /\ \A e \in Entry : Matchable(e)
ASSUME TablesAssumption == \A S \in Tables : S \subseteq Entry /\ DistinctIds(S)

VARIABLES
  attestorName, claims,  \* the arguments
  rows,                  \* history: all rows of the query
  todo,                  \* rows still to be visited
  best                   \* the loop's variable

vars == <<attestorName, claims, rows, todo, best>>

Init ==
  /\ attestorName \in Attestor
  /\ claims \in Claims
  /\ rows \in Tables
  /\ todo = rows
  /\ best = NoEntry

\* One iteration, with its two `continue's.
Visit(e) ==
  /\ e \in todo
  /\ todo' = todo \ {e}
  /\ best' = IF /\ e.attestor = attestorName
                /\ allSelectorsMatch(e.selectors, claims)
                /\ Replaces(e, best)
             THEN e ELSE best
  /\ UNCHANGED <<attestorName, claims, rows>>

Next == \E e \in todo : Visit(e)

Spec == Init /\ [][Next]_vars

\* Types of the loop.
TypeOK ==
  /\ attestorName \in Attestor
  /\ claims \in Claims
  /\ rows \subseteq Entry /\ todo \subseteq rows
  /\ best \in Entry \cup {NoEntry}

\* However the rows are ordered, the entry returned is the one that the comment on
\* MatchEntries describes for the whole table: entitled, most selectors, then
\* smallest ID; nil exactly when no entry is entitled.
ReturnsAnswer == todo = {} => IsAnswer(best, rows, attestorName, claims)

\* The loop invariant: best answers for the rows visited so far.
BestSoFar == IsAnswer(best, rows \ todo, attestorName, claims)
=============================================================================
