--------------------------- MODULE MCIdentityApi ---------------------------
(* Two entries (one of a foreign trust domain) for AWS; AWS requests of an  *)
(* account on the list, of another and with a signature that is not         *)
(* genuine; tokens of two more attestors, to which an edit may give an      *)
(* entry: genuine and not, and of one not enabled.  A duration has 8 bits   *)
(* and a second 4 units: a TTL of 17 s overflows to a negative duration,    *)
(* one of 33 s to a single second.                                          *)
EXTENDS IdentityApi

CONSTANTS own, foreign, aws, gha, deno, acct, mine, web

MCKey == {acct}
MCSelectors == <<[key |-> acct, vals |-> {mine}]>>

ownRow == [spiffeId |-> own, attestor |-> aws, selectors |-> MCSelectors, ttl |-> 6]
foreignRow == [spiffeId |-> foreign, attestor |-> aws,
               selectors |-> MCSelectors \o MCSelectors, ttl |-> 1]

MCRow == {ownRow, foreignRow}
MCChange ==
  {[ttl |-> 17], [ttl |-> 33], [ttl |-> 0],
   [attestor |-> gha, selectors |-> <<>>], [attestor |-> deno, selectors |-> <<>>]}
MCFile == <<WithId(2, foreignRow)>>

awsRequest == [attestor |-> aws, genuine |-> TRUE, claims |-> [k \in {acct} |-> mine],
               date |-> 1, account |-> 1, exp |-> 3]
ghaToken == [attestor |-> gha, genuine |-> TRUE, claims |-> <<>>, exp |-> 1]

MCEvidence ==
  {awsRequest, [awsRequest EXCEPT !.genuine = FALSE], [awsRequest EXCEPT !.account = 2],
   ghaToken, [ghaToken EXCEPT !.genuine = FALSE], [ghaToken EXCEPT !.attestor = deno]}
=============================================================================
