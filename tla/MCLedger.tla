------------------------------ MODULE MCLedger ------------------------------
(* Instances of module Ledger for TLC.                                     *)
EXTENDS Ledger

CONSTANTS u1, u2

Request(op, user, key, amount, fee, settled, after) ==
  [op |-> op, user |-> user, key |-> key, amount |-> amount, fee |-> fee,
   settled |-> settled, after |-> after]

\* Credits and checked debits only: more is asked for than was deposited.
CheckedRequests ==
  { Request("deposit",    u1, "d1", 4, 1, 0, {}),
    Request("hold",       u1, "h1", 2, 0, 0, {}),
    Request("fee",        u1, "f1", 2, 0, 0, {}),
    Request("release",    u1, "r1", 2, 0, 0, {"h1"}),
    Request("adjustment", u1, "a1", -2, 0, 0, {}) }

\* Every operation, with a reversal of the deposit, a settlement above its
\* hold, a deposit whose fee takes all of it, and a second user.  The first
\* deposit and the settlement are also asked for once more at another fee, as
\* they are when the fee settings change between a call and its repetition.
AllRequests ==
  { Request("deposit",    u1, "d1", 4, 1, 0, {}),
    Request("deposit",    u1, "d1", 4, 0, 0, {}),
    Request("deposit",    u2, "d2", 2, 2, 0, {}),
    Request("reversal",   u1, "v1", 4, 1, 0, {"d1"}),
    Request("hold",       u1, "h1", 2, 0, 0, {}),
    Request("hold",       u1, "h2", 2, 0, 0, {}),
    Request("settlement", u1, "s1", 2, 1, 2, {"h1"}),
    Request("settlement", u1, "s1", 2, 0, 2, {"h1"}),
    Request("release",    u1, "r2", 2, 0, 0, {"h2"}),
    Request("refund",     u2, "m2", 1, 0, 0, {}),
    Request("adjustment", u2, "a2", -1, 0, 0, {}) }
=============================================================================
