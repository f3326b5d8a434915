----------------------------- MODULE MCCardHolds -----------------------------
(* Instances of module CardHolds for TLC.                                  *)
EXTENDS CardHolds

CONSTANTS a1, a2, Redacted

\* What the handler finds when the payload keeps its token, and what it finds
\* in the payload the inbox stores: redact() replaces the value of `token`.
TokenKept == [a \in Auths |-> a]
TokenRedacted == [a \in Auths |-> Redacted]

\* Fees of 1 and 2 for an amount of 2; abroad, the margin adds another 1.
AtHalf == [bps |-> 5000, flat |-> 0, fx |-> 5000]
AtFlat == [bps |-> 0, flat |-> 2, fx |-> 5000]
OneRate == {AtHalf}
TwoRates == {AtHalf, AtFlat}

TwoEach == [a \in Auths |-> 2]

NoCardChanges == {}
AllCardChanges ==
  {<<"UNKNOWN", "ACTIVE">>, <<"ACTIVE", "FROZEN">>, <<"FROZEN", "ACTIVE">>,
   <<"ACTIVE", "CLOSED">>, <<"FROZEN", "CLOSED">>}
=============================================================================
