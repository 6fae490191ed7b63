---------------------------- MODULE MCEntryStore ----------------------------
(* Two IDs, two shells, one preloaded entry; updates of one field each.    *)
EXTENDS EntryStore

CONSTANTS s1, s2, aws, sel

MCRow == {[spiffeId |-> s1, attestor |-> aws, selectors |-> <<sel>>, ttl |-> 1]}
MCChange == {[ttl |-> 2], [spiffeId |-> s2], [selectors |-> <<>>]}
MCFile == <<[id |-> 1, spiffeId |-> s1, attestor |-> aws, selectors |-> <<sel>>, ttl |-> 1]>>
=============================================================================
