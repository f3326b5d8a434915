------------------------------- MODULE Intake --------------------------------
(***************************************************************************)
(* From the address a customer is shown to the deposit row: the allocation *)
(* of addresses (DepositAddressService), Alchemy's activity webhooks,      *)
(* which the inbox takes in and processAlchemy walks item by item, and the *)
(* reconciliation sweep, which reads the chain itself.  Both end in        *)
(* recordTransfer; Deposits has what happens to a deposit from there on.   *)
(***************************************************************************)
EXTENDS Inbox, FiniteSetsExt

CONSTANTS Users, NoUser,
          Calls,      \* requests for a deposit address, being served at one time
          Transfers,  \* records [tx, log]; the events are the transactions
          Small,      \* the transfers below the minimum
          Unnumbered, \* the transfers whose log index the sweep cannot read
          MaxItems,   \* items of a webhook that the inbox stores
          PageSize,   \* transfers of an address that the sweep reads
          MaxAsks     \* requests for an address in all (bound)

ASSUME IntakeAssumption ==
  /\ NoUser \notin Users /\ IsFiniteSet(Users)
  /\ Small \subseteq Transfers /\ Unnumbered \subseteq Transfers
  /\ MaxItems \in Nat /\ PageSize \in Nat /\ MaxAsks \in Nat
  /\ \A t \in Transfers : t.tx \in Events /\ t.log \in Nat
  /\ \A s, t \in Transfers : (s.tx = t.tx /\ s.log = t.log) => s = t

VARIABLES
  row,      \* row[u]: the index of the user's address, counted from 1, or 0
  call,     \* call[c]: the getOrCreate in slot c
  asks,     \* requests so far
  shown,    \* shown[u]: the addresses the user was answered
  watched,  \* addresses registered for webhooks
  block,    \* block[e]: the block that the transaction e was mined in, or 0
  dest,     \* dest[t]: the address that t was sent to
  payee,    \* payee[t]: the user whose address the sender was given
  payload,  \* payload[e]: the transfers that the webhook of e lists
  left,     \* left[w]: the items a run of the handler has still to walk
  sweep,    \* the reconciliation: addresses to read, and items of the page in hand
  deposit   \* the deposit rows: their unique key, the transfer and the user

addressVars == <<row, call, asks, shown, watched>>
chainVars == <<block, dest, payee, payload>>
vars == <<inboxVars, addressVars, chainVars, left, sweep, deposit>>

Addresses == 1..Cardinality(Users)
NoCall == [pc |-> "idle", user |-> NoUser, index |-> 0]
Resting == [todo |-> {}, page |-> {}]

-----------------------------------------------------------------------------
(* DepositAddressService.getOrCreate.  An address is its index: the       *)
(* derivation gives every index an address of its own.                    *)

Show(c, a) ==
  /\ shown' = [shown EXCEPT ![call[c].user] = @ \cup {a}]
  /\ call' = [call EXCEPT ![c] = NoCall]

AskAddress(c, u) ==
  /\ call[c] = NoCall
  /\ asks < MaxAsks /\ asks' = asks + 1
  /\ call' = [call EXCEPT ![c] = [pc |-> "find", user |-> u, index |-> 0]]
  /\ UNCHANGED <<inboxVars, row, shown, watched, chainVars, left, sweep, deposit>>

FindAddress(c) ==
  /\ call[c].pc = "find"
  /\ IF row[call[c].user] # 0 THEN Show(c, row[call[c].user])
     ELSE call' = [call EXCEPT ![c].pc = "allocate"] /\ UNCHANGED shown
  /\ UNCHANGED <<inboxVars, row, asks, watched, chainVars, left, sweep, deposit>>

Allocate(c) ==
  /\ call[c].pc = "allocate"
  /\ call' = [call EXCEPT ![c].pc = "insert", ![c].index = Max({row[u] : u \in Users}) + 1]
  /\ UNCHANGED <<inboxVars, row, asks, shown, watched, chainVars, left, sweep, deposit>>

OnePerWallet(c) == row[call[c].user] = 0                        \* mutant

\* The unique indices of the table: one address for a wallet, one wallet for an index.
Insertable(c) == row[call[c].user] = 0 /\ call[c].index \notin {row[u] : u \in Users}

InsertAddress(c) ==
  /\ call[c].pc = "insert"
  /\ IF Insertable(c)
     THEN /\ row' = [row EXCEPT ![call[c].user] = call[c].index]
          /\ call' = [call EXCEPT ![c].pc = "register"]
     ELSE call' = [call EXCEPT ![c].pc = "raced"] /\ UNCHANGED row
  /\ UNCHANGED <<inboxVars, asks, shown, watched, chainVars, left, sweep, deposit>>

\* The address is answered whether or not the registration went through, which is
\* not tried again.
RegisterAddress(c) ==
  /\ call[c].pc = "register"
  /\ \/ watched' = watched \cup {call[c].index} /\ UNCHANGED faults
     \/ Fault /\ UNCHANGED watched
  /\ Show(c, call[c].index)
  /\ UNCHANGED <<inbox, run, todo, replays, tries, died, row, asks, chainVars, left, sweep, deposit>>

WinnersAddress(c) == row[call[c].user]

\* The loser of a race for the wallet answers the winner's row, the loser of a race
\* for the index fails, and the customer asks again.
Raced(c) ==
  /\ call[c].pc = "raced"
  /\ IF WinnersAddress(c) # 0 THEN Show(c, WinnersAddress(c))
     ELSE call' = [call EXCEPT ![c] = NoCall] /\ UNCHANGED shown
  /\ UNCHANGED <<inboxVars, row, asks, watched, chainVars, left, sweep, deposit>>

AddressStep == \E c \in Calls :
  \/ \E u \in Users : AskAddress(c, u)
  \/ FindAddress(c) \/ Allocate(c) \/ InsertAddress(c) \/ RegisterAddress(c) \/ Raced(c)

-----------------------------------------------------------------------------
(* The chain and Alchemy, as the code sees them.                           *)

TransfersOf(e) == {t \in Transfers : t.tx = e}
Earlier(s, t) == block[s.tx] < block[t.tx] \/ (s.tx = t.tx /\ s.log < t.log)

\* The item that a loop over the transfers ts comes to next.
Foremost(ts) == {t \in ts : \A s \in ts : ~Earlier(s, t)}

\* A transaction is mined: its transfers go to addresses that were shown.
MineTransaction(e) ==
  LET ts == TransfersOf(e) IN
  /\ block[e] = 0
  /\ block' = [block EXCEPT ![e] = Cardinality({d \in Events : block[d] # 0}) + 1]
  /\ \E who \in [ts -> Users] :
       /\ \A t \in ts : shown[who[t]] # {}
       /\ \E to \in [ts -> Addresses] :
            /\ \A t \in ts : to[t] \in shown[who[t]]
            /\ dest' = [t \in Transfers |-> IF t \in ts THEN to[t] ELSE dest[t]]
            /\ payee' = [t \in Transfers |-> IF t \in ts THEN who[t] ELSE payee[t]]
            /\ payload' = [payload EXCEPT ![e] = {t \in ts : to[t] \in watched}]
  /\ UNCHANGED <<inboxVars, addressVars, left, sweep, deposit>>

\* What redact() leaves of the list: the first items.
Stored(ts) == {t \in ts : Cardinality({s \in ts : s.log < t.log}) < MaxItems}

\* A webhook may come late, twice or never.
Deliver(w, e) ==
  /\ payload[e] # {}
  /\ Receive(w, e)
  /\ UNCHANGED <<addressVars, chainVars, left, sweep, deposit>>

-----------------------------------------------------------------------------
(* recordTransfer, and its two callers.                                    *)

ByTransaction(t, log) == <<t.tx, 0>>                            \* mutant

DepositKey(t, log) == <<t.tx, log>>

\* A webhook numbers its items; the sweep takes the number from the transfer's uniqueId,
\* and without one it can read takes 0.
LogInSweep(t) == IF t \in Unnumbered THEN 0 ELSE t.log

TooSmall(t) == t \in Small

\* A transfer to nobody's address or below the minimum is ignored; the unique index
\* over network, transaction and log refuses a second row.
RecordTransfer(t, log) ==
  LET owners == {u \in Users : row[u] = dest[t]}
      key == DepositKey(t, log)
      seen == \E d \in deposit : d.key = key IN
  IF owners = {} \/ TooSmall(t) \/ seen THEN UNCHANGED deposit
  ELSE \E u \in owners : deposit' = deposit \cup {[key |-> key, of |-> t, user |-> u]}

BeginEvent(w) ==
  /\ Mark(w)
  /\ left' = [left EXCEPT ![w] = Stored(payload[run[w].ev])]
  /\ UNCHANGED <<addressVars, chainVars, sweep, deposit>>

HandleItem(w) ==
  /\ run[w].pc = "handle"
  /\ \E t \in Foremost(left[w]) : RecordTransfer(t, t.log) /\ left' = [left EXCEPT ![w] = @ \ {t}]
  /\ UNCHANGED <<inboxVars, addressVars, chainVars, sweep>>

\* Swallowing the failure of an item.
EndAnyhow(w) == TRUE                                            \* mutant

ItemsDone(w) == left[w] = {}

EndEvent(w) ==
  /\ ItemsDone(w)
  /\ Handled(w)
  /\ left' = [left EXCEPT ![w] = {}]
  /\ UNCHANGED <<addressVars, chainVars, sweep, deposit>>

\* An item fails, before or after its deposit was written, and the rest is not reached.
EventFails(w) ==
  /\ HandlerFails(w)
  /\ \E t \in Foremost(left[w]) : RecordTransfer(t, t.log) \/ UNCHANGED deposit
  /\ left' = [left EXCEPT ![w] = {}]
  /\ UNCHANGED <<addressVars, chainVars, sweep>>

StartSweep ==
  /\ sweep = Resting
  /\ sweep' = [Resting EXCEPT !.todo = {row[u] : u \in Users} \ {0}]
  /\ sweep' # Resting
  /\ UNCHANGED <<inboxVars, addressVars, chainVars, left, deposit>>

\* The first page, which has the oldest transfers to the address.
Page(a) ==
  LET ts == {t \in Transfers : dest[t] = a}
  IN {t \in ts : Cardinality({s \in ts : Earlier(s, t)}) < PageSize}

SweepAddress ==
  /\ sweep.page = {}
  /\ \E a \in sweep.todo : sweep' = [todo |-> sweep.todo \ {a}, page |-> Page(a)]
  /\ UNCHANGED <<inboxVars, addressVars, chainVars, left, deposit>>

SweepItem ==
  /\ \E t \in Foremost(sweep.page) :
       RecordTransfer(t, LogInSweep(t)) /\ sweep' = [sweep EXCEPT !.page = @ \ {t}]
  /\ UNCHANGED <<inboxVars, addressVars, chainVars, left>>

\* An address that fails does not stop the sweep.
SweepFails ==
  /\ sweep.page # {}
  /\ Fault
  /\ sweep' = [sweep EXCEPT !.page = {}]
  /\ UNCHANGED <<inbox, run, todo, replays, tries, died, addressVars, chainVars, left, deposit>>

SweepStep == StartSweep \/ SweepAddress \/ SweepItem

\* Calls, runs of the handler and the sweep die with the process.
Crash ==
  /\ Restart
  /\ call' = [c \in Calls |-> NoCall]
  /\ left' = [w \in Runners |-> {}]
  /\ sweep' = Resting
  /\ UNCHANGED <<row, asks, shown, watched, chainVars, deposit>>

-----------------------------------------------------------------------------
Init ==
  /\ InboxInit
  /\ row = [u \in Users |-> 0] /\ shown = [u \in Users |-> {}] /\ watched = {} /\ asks = 0
  /\ call = [c \in Calls |-> NoCall]
  /\ block = [e \in Events |-> 0] /\ dest = [t \in Transfers |-> 0]
  /\ payee = [t \in Transfers |-> NoUser]
  /\ payload = [e \in Events |-> {}]
  /\ left = [w \in Runners |-> {}] /\ sweep = Resting
  /\ deposit = {}

Next ==
  \/ AddressStep
  \/ \E e \in Events : MineTransaction(e)
  \/ \E w \in Workers, e \in Events : Deliver(w, e)
  \/ \E w \in Runners : BeginEvent(w) \/ HandleItem(w) \/ EndEvent(w) \/ EventFails(w)
  \/ SweepStep \/ SweepFails \/ Crash
  \/ InboxStep /\ UNCHANGED <<addressVars, chainVars, left, sweep, deposit>>

\* The sweep runs every five minutes and does not wait for anybody.
Spec == Init /\ [][Next]_vars
FairSpec == Spec /\ WF_vars(SweepStep)

-----------------------------------------------------------------------------
TypeOK ==
  /\ InboxTypeOK
  /\ row \in [Users -> Addresses \cup {0}]
  /\ call \in [Calls -> [pc : {"idle", "find", "allocate", "insert", "register", "raced"},
                         user : Users \cup {NoUser}, index : 0..(Cardinality(Users) + 1)]]
  /\ shown \in [Users -> SUBSET Addresses] /\ watched \subseteq Addresses /\ asks \in 0..MaxAsks
  /\ block \in [Events -> Nat] /\ dest \in [Transfers -> Addresses \cup {0}]
  /\ payee \in [Transfers -> Users \cup {NoUser}]
  /\ payload \in [Events -> SUBSET Transfers]
  /\ left \in [Runners -> SUBSET Transfers]
  /\ sweep \in [todo : SUBSET Addresses, page : SUBSET Transfers]
  /\ deposit \subseteq [key : Events \X Nat, of : Transfers, user : Users]

\* Whoever was shown an address has it in the table and nobody else was shown it, however
\* many first requests raced for the wallet and for the index, so a transfer is credited to
\* the user the sender meant, and by one row, whoever found it and however often, unless the
\* sweep cannot read its number (getOrCreate, recordTransfer).
MoneyGoesToPayee ==
  /\ \A u \in Users : shown[u] \subseteq {row[u]} \ {0}
  /\ \A d \in deposit : d.user = payee[d.of]
  /\ \A c, d \in deposit : c.of = d.of => c = d \/ c.of \in Unnumbered

\* A transfer has its row, or its number 0 was taken by one the sweep could not number.
Recorded(t) ==
  \E d \in deposit : d.of = t \/ (d.of \in Unnumbered /\ d.key = DepositKey(t, t.log))

\* An event marked processed has left behind no transfer that the inbox stored of it, although
\* its items are handled one by one, an item may fail after others succeeded and the retry
\* walks all of them again.  What redact() cut off is left to the sweep.
ProcessedIsRecorded ==
  \A e \in Events : inbox[e].status = "PROCESSED" =>
    \A t \in Stored(payload[e]) : Recorded(t) \/ t \in Small

\* A transfer that is not too small becomes a deposit, whatever became of the webhook: it was
\* lost, its address never registered, its event dead-lettered, or the transfer was cut off.
\* Of transfers of one transaction that the sweep cannot tell apart only the first is sure.
TransfersFound ==
  \A t \in {t \in Transfers \ Small :
            ~\E s \in Transfers \ (Small \cup {t}) : s.tx = t.tx /\ LogInSweep(s) = LogInSweep(t)} :
    dest[t] # 0 ~> \E d \in deposit : d.of = t
=============================================================================
