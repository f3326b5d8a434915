----------------------------- MODULE IntakeProofs -----------------------------
(***************************************************************************)
(* Theorems about Intake, for any customers, requests, transactions with   *)
(* transfers, runs of the inbox, pages of the sweep and faults.            *)
(***************************************************************************)
EXTENDS Intake, FiniteSetTheorems, TLAPS

Steps == {"idle", "find", "allocate", "insert", "register", "raced"}
CallType == [pc : Steps, user : Users \cup {NoUser}, index : 0..(Cardinality(Users) + 1)]

-----------------------------------------------------------------------------
(* The inductive invariant.                                                *)

Holders == {u \in Users : row[u] # 0}

\* The table has no gaps: the indices given away are the first ones, each to one user.
TableInv ==
  /\ {row[u] : u \in Holders} = 1..Cardinality(Holders)
  /\ \A u, v \in Users : (row[u] = row[v] /\ row[u] # 0) => u = v
  /\ \A u \in Users : shown[u] \subseteq {row[u]} \ {0}

\* What a request for an address knows of the table.
CallInv ==
  \A c \in Calls :
    /\ call[c].pc # "idle" => call[c].user \in Users
    /\ call[c].pc = "insert" => call[c].index \in 1..(Cardinality(Holders) + 1)
    /\ call[c].pc = "register" => call[c].index = row[call[c].user] /\ call[c].index # 0

\* A transfer that was mined went to the address of its payee, and is in the deposits of
\* nobody else.
PaidTo(t) == dest[t] # 0 /\ payee[t] \in Users /\ dest[t] = row[payee[t]]

\* A row has the number of its transfer, or 0 if the sweep could not read it, and no other
\* row has it too.
KeysInv ==
  /\ \A d \in deposit : \/ d.key = DepositKey(d.of, d.of.log)
                        \/ d.of \in Unnumbered /\ d.key = DepositKey(d.of, 0)
  /\ \A c, d \in deposit : c.key = d.key => c = d

ChainInv ==
  /\ \A t \in Transfers : dest[t] # 0 => PaidTo(t) /\ block[t.tx] # 0
  /\ \A d \in deposit : PaidTo(d.of) /\ d.user = payee[d.of]
  /\ KeysInv
  /\ \A e \in Events : \A t \in payload[e] : t.tx = e /\ dest[t] # 0
  /\ IsFiniteSet({e \in Events : block[e] # 0})

\* What the handler and the sweep have before them was mined.
WalkInv ==
  /\ \A w \in Runners : \A t \in left[w] : dest[t] # 0
  /\ \A t \in sweep.page : dest[t] # 0

\* Nothing is under way for an event that was not received, and what was received was mined.
RunsInv ==
  /\ \A w \in Runners : run[w].pc # "idle" =>
       run[w].ev \in Events /\ inbox[run[w].ev].status # "none"
  /\ todo \subseteq {e \in Events : inbox[e].status # "none"}
  /\ \A e \in Events : inbox[e].status # "none" => block[e] # 0

\* A handler has recorded what it no longer has before it.
Settled(t) == Recorded(t) \/ t \in Small

ItemsInv ==
  /\ \A w \in Runners :
       /\ run[w].pc = "handle" => \A t \in Stored(payload[run[w].ev]) : t \in left[w] \/ Settled(t)
       /\ run[w].pc = "done" => \A t \in Stored(payload[run[w].ev]) : Settled(t)
  /\ ProcessedIsRecorded

IInv == TypeOK /\ TableInv /\ CallInv /\ ChainInv /\ WalkInv /\ RunsInv /\ ItemsInv

-----------------------------------------------------------------------------
(* Runs of the inbox.                                                      *)

\* A run stays, ends, starts with an event that was received, or goes on to a place
\* that claims nothing of the items.
Moves(w) ==
  \/ run'[w] = run[w]
  \/ run'[w].pc = "idle"
  \/ run'[w].pc = "read" /\ run'[w].ev \in Events /\ inbox'[run'[w].ev].status # "none"
  \/ run'[w].pc \in {"mark", "failed"} /\ run[w].pc # "idle" /\ run'[w].ev = run[w].ev

RunTyped == run' \in [Runners -> RunType] /\ \A v \in Runners : run'[v].pc = "idle" <=> run'[v] = Idle

LEMMA RunReplaced ==
  ASSUME TypeOK, NEW w \in Runners, NEW r \in RunType, r.pc = "idle" <=> r = Idle,
         run' = [run EXCEPT ![w] = r]
  PROVE  RunTyped /\ run'[w] = r /\ \A v \in Runners \ {w} : run'[v] = run[v]
<1>1. run \in [Runners -> RunType] /\ \A v \in Runners : run[v].pc = "idle" <=> run[v] = Idle
  BY DEF TypeOK, InboxTypeOK
<1> HIDE DEF Idle, RunType
<1> QED
  BY <1>1 DEF RunTyped

LEMMA IdleType == Idle \in RunType /\ Idle.pc = "idle"
  BY DEF Idle, RunType

LEMMA ProcessStarts ==
  ASSUME TypeOK, NEW w \in Runners, NEW e \in Events, NEW auto \in BOOLEAN, Process(w, e, auto)
  PROVE  /\ RunTyped /\ run'[w].pc = "read" /\ run'[w].ev = e
         /\ \A v \in Runners \ {w} : run'[v] = run[v]
<1> DEFINE r == [pc |-> "read", ev |-> e, seen |-> 0, auto |-> auto]
<1>1. r \in RunType /\ r # Idle /\ r.pc = "read" /\ r.ev = e
  BY DEF RunType, Idle
<1>2. run' = [run EXCEPT ![w] = r]
  BY DEF Process
<1> HIDE DEF r
<1> QED
  BY <1>1, <1>2, RunReplaced

LEMMA StepGoes ==
  ASSUME TypeOK, NEW w \in Runners, NEW pc \in {"mark", "handle", "done", "failed"}, Step(w, pc)
  PROVE  /\ RunTyped /\ run'[w].pc = pc /\ run'[w].ev = run[w].ev
         /\ \A v \in Runners \ {w} : run'[v] = run[v]
<1> DEFINE r == [run[w] EXCEPT !.pc = pc]
<1>1. run[w] \in RunType
  BY DEF TypeOK, InboxTypeOK
<1>2. r \in RunType /\ r # Idle /\ r.pc = pc /\ r.ev = run[w].ev
  BY <1>1 DEF RunType, Idle
<1>3. run' = [run EXCEPT ![w] = r]
  BY DEF Step
<1> HIDE DEF r
<1> QED
  BY <1>2, <1>3, RunReplaced

LEMMA LeaveStops ==
  ASSUME TypeOK, NEW w \in Runners, Leave(w)
  PROVE  RunTyped /\ run'[w].pc = "idle" /\ \A v \in Runners \ {w} : run'[v] = run[v]
<1>1. run' = [run EXCEPT ![w] = Idle]
  BY DEF Leave
<1> HIDE DEF Idle
<1> QED
  BY <1>1, IdleType, RunReplaced

LEMMA ReadGoes ==
  ASSUME TypeOK, RunsInv, NEW w \in Runners, ReadEvent(w)
  PROVE  RunTyped /\ Moves(w) /\ \A v \in Runners \ {w} : run'[v] = run[v]
<1>1. run[w].pc = "read" /\ run[w].ev \in Events /\ run[w] \in RunType
  BY DEF ReadEvent, RunsInv, TypeOK, InboxTypeOK
<1>2. CASE inbox[run[w].ev].status = "PROCESSED"
  BY <1>2, LeaveStops DEF ReadEvent, Moves
<1>3. CASE inbox[run[w].ev].status # "PROCESSED"
  <2> DEFINE n == inbox[run[w].ev].retries
             r == [run[w] EXCEPT !.pc = "mark", !.seen = n]
  <2>1. n \in Nat
    BY <1>1 DEF TypeOK, InboxTypeOK
  <2>2. r \in RunType /\ r # Idle /\ r.pc = "mark" /\ r.ev = run[w].ev
    BY <1>1, <2>1 DEF RunType, Idle
  <2>3. run' = [run EXCEPT ![w] = r]
    BY <1>3 DEF ReadEvent, TypeOK, InboxTypeOK
  <2> HIDE DEF r
  <2> QED
    BY <1>1, <2>2, <2>3, RunReplaced DEF Moves
<1> QED
  BY <1>2, <1>3

\* What a step writes to the row of one event.
Writes(e, s) ==
  /\ inbox'[e].status = s
  /\ \A f \in Events \ {e} : inbox'[f] = inbox[f]
  /\ inbox' \in [Events -> [status : EventStatuses, retries : Nat]]

LEMMA RowWritten ==
  ASSUME TypeOK, NEW e \in Events, NEW s \in EventStatuses
  PROVE  /\ inbox' = [inbox EXCEPT ![e].status = s] => Writes(e, s)
         /\ \A n \in Nat : inbox' = [inbox EXCEPT ![e] = [status |-> s, retries |-> n]] => Writes(e, s)
<1>1. inbox \in [Events -> [status : EventStatuses, retries : Nat]]
  BY DEF TypeOK, InboxTypeOK
<1>2. ASSUME NEW r \in [status : EventStatuses, retries : Nat], r.status = s,
             inbox' = [inbox EXCEPT ![e] = r]
      PROVE  Writes(e, s)
  BY <1>1, <1>2 DEF Writes
<1>3. [inbox[e] EXCEPT !.status = s] \in [status : EventStatuses, retries : Nat]
  BY <1>1
<1>4. [inbox[e] EXCEPT !.status = s].status = s
  BY <1>1
<1> QED
  BY <1>2, <1>3, <1>4

-----------------------------------------------------------------------------
(* What a step does to the inbox, seen from the items.                     *)

\* An event becomes PROCESSED only when a run that is done with it says so.
InboxMoves ==
  /\ RunTyped /\ inbox' \in [Events -> [status : EventStatuses, retries : Nat]]
  /\ \A e \in Events :
       /\ inbox[e].status # "none" => inbox'[e].status # "none"
       /\ inbox'[e].status = "PROCESSED" =>
            \/ inbox[e].status = "PROCESSED"
            \/ \E w \in Runners : run[w].pc = "done" /\ run[w].ev = e
  /\ \A e \in todo' : e \in Events /\ inbox[e].status # "none"
  /\ faults' \in 0..MaxFaults /\ replays' \in 0..MaxReplays
  /\ tries' \in [Events -> Nat] /\ died' \in SUBSET Events

\* Nothing but the delivery makes an event received.
NoneReceived == \A e \in Events : inbox'[e].status # "none" => inbox[e].status # "none"

LEMMA OneRun ==
  ASSUME NEW w \in Runners, Moves(w), \A v \in Runners \ {w} : run'[v] = run[v]
  PROVE  \A v \in Runners : Moves(v)
  BY DEF Moves

LEMMA InboxTypes ==
  ASSUME TypeOK
  PROVE  /\ inbox \in [Events -> [status : EventStatuses, retries : Nat]]
         /\ run \in [Runners -> RunType]
         /\ faults \in 0..MaxFaults /\ replays \in 0..MaxReplays
         /\ tries \in [Events -> Nat] /\ died \in SUBSET Events
         /\ Fault => faults' \in 0..MaxFaults
<1>1. InboxTypeOK
  BY DEF TypeOK
<1>2. Fault => faults' \in 0..MaxFaults
  BY <1>1, InboxAssumption DEF InboxTypeOK, Fault
<1> QED
  BY <1>1, <1>2 DEF InboxTypeOK

LEMMA RunStepMoves ==
  ASSUME TypeOK, RunsInv, NEW w \in Runners,
         \/ ReadEvent(w) \/ WriteProcessed(w) \/ WriteProcessedFails(w)
         \/ WriteFailed(w) \/ ProcessThrows(w) \/ HandlerFails(w)
  PROVE  InboxMoves /\ NoneReceived /\ \A v \in Runners : Moves(v)
<1>0. /\ inbox \in [Events -> [status : EventStatuses, retries : Nat]]
      /\ run \in [Runners -> RunType]
      /\ faults \in 0..MaxFaults /\ replays \in 0..MaxReplays
      /\ tries \in [Events -> Nat] /\ died \in SUBSET Events
      /\ Fault => faults' \in 0..MaxFaults
      /\ todo \subseteq {e \in Events : inbox[e].status # "none"}
  BY InboxTypes DEF RunsInv
<1>1. ASSUME ReadEvent(w) PROVE InboxMoves /\ NoneReceived /\ \A v \in Runners : Moves(v)
  <2>1. UNCHANGED <<inbox, todo, faults, replays, tries, died>>
    BY <1>1 DEF ReadEvent
  <2> QED
    BY <1>0, <1>1, <2>1, ReadGoes, OneRun DEF InboxMoves, NoneReceived
<1>2. ASSUME WriteProcessed(w) PROVE InboxMoves /\ NoneReceived /\ \A v \in Runners : Moves(v)
  <2>1. run[w].pc = "done" /\ run[w].ev \in Events /\ inbox[run[w].ev].status # "none"
        /\ UNCHANGED <<todo, faults, replays, tries, died>>
    BY <1>2 DEF WriteProcessed, RunsInv
  <2>2. Writes(run[w].ev, "PROCESSED")
    BY <1>2, <2>1, RowWritten DEF WriteProcessed, EventStatuses
  <2>3. RunTyped /\ run'[w].pc = "idle" /\ \A v \in Runners \ {w} : run'[v] = run[v]
    BY <1>2, LeaveStops DEF WriteProcessed
  <2> QED
    BY <1>0, <2>1, <2>2, <2>3, OneRun DEF InboxMoves, NoneReceived, Writes, Moves
<1>3. ASSUME WriteProcessedFails(w) \/ HandlerFails(w)
      PROVE  InboxMoves /\ NoneReceived /\ \A v \in Runners : Moves(v)
  <2>1. run[w].pc # "idle" /\ Fault /\ UNCHANGED <<inbox, todo, replays, tries, died>> /\ Step(w, "failed")
    BY <1>3 DEF WriteProcessedFails, HandlerFails
  <2>2. RunTyped /\ run'[w].pc = "failed" /\ run'[w].ev = run[w].ev
        /\ \A v \in Runners \ {w} : run'[v] = run[v]
    BY <2>1, StepGoes
  <2> QED
    BY <1>0, <2>1, <2>2, OneRun DEF InboxMoves, NoneReceived, Moves
<1>4. ASSUME WriteFailed(w) PROVE InboxMoves /\ NoneReceived /\ \A v \in Runners : Moves(v)
  <2>1. run[w].pc = "failed" /\ run[w].ev \in Events /\ inbox[run[w].ev].status # "none"
        /\ UNCHANGED <<todo, faults, replays, tries, died>>
    BY <1>4 DEF WriteFailed, RunsInv
  <2>2. PICK n \in Nat : n = run[w].seen + 1
    BY <1>0 DEF RunType
  <2>3. inbox' = [inbox EXCEPT ![run[w].ev] = [status |-> AfterFailure(n), retries |-> n]]
    BY <1>4, <2>2 DEF WriteFailed
  <2>4. AfterFailure(n) \in EventStatuses \ {"none", "PROCESSED"}
    BY DEF AfterFailure, EventStatuses
  <2>5. Writes(run[w].ev, AfterFailure(n))
    BY <2>1, <2>2, <2>3, <2>4, RowWritten
  <2>6. RunTyped /\ run'[w].pc = "idle" /\ \A v \in Runners \ {w} : run'[v] = run[v]
    BY <1>4, LeaveStops DEF WriteFailed
  <2> HIDE DEF AfterFailure
  <2> QED
    BY <1>0, <2>1, <2>4, <2>5, <2>6, OneRun DEF InboxMoves, NoneReceived, Writes, Moves
<1>5. ASSUME ProcessThrows(w) PROVE InboxMoves /\ NoneReceived /\ \A v \in Runners : Moves(v)
  <2>1. run[w].ev \in Events /\ Fault /\ UNCHANGED <<inbox, replays, tries>>
        /\ todo' \subseteq todo /\ died' = died \cup {run[w].ev}
    BY <1>5 DEF ProcessThrows, RunsInv
  <2>2. RunTyped /\ run'[w].pc = "idle" /\ \A v \in Runners \ {w} : run'[v] = run[v]
    BY <1>5, LeaveStops DEF ProcessThrows
  <2> QED
    BY <1>0, <2>1, <2>2, OneRun DEF InboxMoves, NoneReceived, Moves
<1> QED
  BY <1>1, <1>2, <1>3, <1>4, <1>5

LEMMA JobMoves ==
  ASSUME TypeOK, RunsInv,
         \/ RetryFailed \/ RetryNext \/ Restart
         \/ \E w \in Workers, e \in Events : Replay(w, e)
  PROVE  InboxMoves /\ NoneReceived /\ \A v \in Runners : Moves(v)
<1>0. /\ inbox \in [Events -> [status : EventStatuses, retries : Nat]]
      /\ run \in [Runners -> RunType]
      /\ faults \in 0..MaxFaults /\ replays \in 0..MaxReplays
      /\ tries \in [Events -> Nat] /\ died \in SUBSET Events
      /\ Fault => faults' \in 0..MaxFaults
      /\ todo \subseteq {e \in Events : inbox[e].status # "none"}
      /\ Job \in Runners /\ Workers \subseteq Runners
      /\ \A v \in Runners : run[v].pc = "idle" <=> run[v] = Idle
  BY InboxTypes DEF RunsInv, Runners, TypeOK, InboxTypeOK
<1>1. ASSUME RetryFailed PROVE InboxMoves /\ NoneReceived /\ \A v \in Runners : Moves(v)
  <2>1. UNCHANGED <<inbox, run, faults, replays, tries, died>> /\ todo' = {e \in Events : Retryable(e)}
    BY <1>1 DEF RetryFailed
  <2>2. \A e \in todo' : e \in Events /\ inbox[e].status # "none"
    BY <2>1 DEF Retryable
  <2> QED
    BY <1>0, <2>1, <2>2 DEF InboxMoves, NoneReceived, Moves, RunTyped
<1>2. ASSUME RetryNext PROVE InboxMoves /\ NoneReceived /\ \A v \in Runners : Moves(v)
  <2>1. UNCHANGED <<inbox, faults, replays, tries, died>>
    BY <1>2 DEF RetryNext
  <2>2. PICK e \in todo : Process(Job, e, TRUE) /\ todo' = todo \ {e}
    BY <1>2 DEF RetryNext
  <2>3. e \in Events /\ inbox[e].status # "none"
    BY <1>0
  <2>4. /\ RunTyped /\ run'[Job].pc = "read" /\ run'[Job].ev = e
        /\ \A v \in Runners \ {Job} : run'[v] = run[v]
    BY <1>0, <2>2, <2>3, ProcessStarts
  <2> QED
    BY <1>0, <2>1, <2>2, <2>3, <2>4 DEF InboxMoves, NoneReceived, Moves
<1>3. ASSUME Restart PROVE InboxMoves /\ NoneReceived /\ \A v \in Runners : Moves(v)
  <2>1. /\ Fault /\ run' = [w \in Runners |-> Idle] /\ todo' = {}
        /\ died' = died \cup {run[w].ev : w \in {v \in Runners : run[v] # Idle}}
        /\ UNCHANGED <<inbox, replays, tries>>
    BY <1>3 DEF Restart
  <2>2. {run[w].ev : w \in {v \in Runners : run[v] # Idle}} \subseteq Events
    BY <1>0 DEF RunsInv
  <2> HIDE DEF Idle
  <2>3. RunTyped /\ \A v \in Runners : run'[v].pc = "idle"
    BY <2>1, IdleType DEF RunTyped
  <2> QED
    BY <1>0, <2>1, <2>2, <2>3 DEF InboxMoves, NoneReceived, Moves
<1>4. ASSUME NEW w \in Workers, NEW e \in Events, Replay(w, e)
      PROVE  InboxMoves /\ NoneReceived /\ \A v \in Runners : Moves(v)
  <2>1. /\ inbox[e].status # "none" /\ replays < MaxReplays /\ replays' = replays + 1
        /\ inbox' = [inbox EXCEPT ![e].status = "RECEIVED"] /\ Process(w, e, FALSE)
        /\ UNCHANGED <<todo, faults, tries, died>>
    BY <1>4 DEF Replay
  <2>2. Writes(e, "RECEIVED") /\ w \in Runners
    BY <1>0, <2>1, RowWritten DEF EventStatuses
  <2>3. /\ RunTyped /\ run'[w].pc = "read" /\ run'[w].ev = e
        /\ \A v \in Runners \ {w} : run'[v] = run[v]
    BY <2>1, <2>2, ProcessStarts
  <2>4. replays' \in 0..MaxReplays
    BY <1>0, <2>1, InboxAssumption
  <2>5. \A v \in Runners : Moves(v)
    BY <2>2, <2>3 DEF Moves, Writes
  <2> QED
    BY <1>0, <2>1, <2>2, <2>3, <2>4, <2>5 DEF InboxMoves, NoneReceived, Writes
<1> QED
  BY <1>1, <1>2, <1>3, <1>4

LEMMA InboxStepMoves ==
  ASSUME TypeOK, RunsInv, InboxStep
  PROVE  InboxMoves /\ NoneReceived /\ \A v \in Runners : Moves(v)
  BY RunStepMoves, JobMoves DEF InboxStep

LEMMA ReceiveMoves ==
  ASSUME TypeOK, RunsInv, NEW w \in Workers, NEW e \in Events, Receive(w, e)
  PROVE  /\ InboxMoves /\ inbox[e].status = "none" /\ \A v \in Runners : Moves(v)
         /\ \A f \in Events \ {e} : inbox'[f] = inbox[f]
<1>1. /\ inbox[e].status = "none" /\ inbox' = [inbox EXCEPT ![e].status = "RECEIVED"]
      /\ Process(w, e, TRUE) /\ UNCHANGED <<todo, faults, replays, tries, died>>
  BY DEF Receive
<1>2. Writes(e, "RECEIVED") /\ w \in Runners
  BY <1>1, RowWritten DEF EventStatuses, Runners
<1>3. /\ RunTyped /\ run'[w].pc = "read" /\ run'[w].ev = e
      /\ \A v \in Runners \ {w} : run'[v] = run[v]
  BY <1>1, <1>2, ProcessStarts
<1>4. \A v \in Runners : Moves(v)
  BY <1>2, <1>3 DEF Moves, Writes
<1> QED
  BY <1>1, <1>2, <1>3, <1>4, InboxTypes DEF InboxMoves, Writes, RunsInv

\* The start and the end of a handler, whose items the caller knows.
LEMMA HandlerMoves ==
  ASSUME TypeOK, RunsInv, NEW w \in Runners, Mark(w) \/ Handled(w)
  PROVE  /\ InboxMoves /\ NoneReceived /\ run[w].ev \in Events /\ run'[w].ev = run[w].ev
         /\ \A v \in Runners \ {w} : run'[v] = run[v]
         /\ Mark(w) => run'[w].pc = "handle"
         /\ Handled(w) => run[w].pc = "handle" /\ run'[w].pc = "done"
<1>0. /\ inbox \in [Events -> [status : EventStatuses, retries : Nat]]
      /\ faults \in 0..MaxFaults /\ replays \in 0..MaxReplays
      /\ tries \in [Events -> Nat] /\ died \in SUBSET Events
      /\ run[w].ev \in Events /\ inbox[run[w].ev].status # "none"
      /\ todo \subseteq {e \in Events : inbox[e].status # "none"}
  BY InboxTypes DEF RunsInv, Mark, Handled
<1>1. ASSUME Mark(w)
      PROVE  /\ InboxMoves /\ NoneReceived /\ run'[w].pc = "handle" /\ run'[w].ev = run[w].ev
             /\ \A v \in Runners \ {w} : run'[v] = run[v]
  <2>1. /\ inbox' = [inbox EXCEPT ![run[w].ev].status = "PROCESSING"] /\ Step(w, "handle")
        /\ UNCHANGED <<todo, faults, replays, died>>
        /\ tries' = IF run[w].auto THEN [tries EXCEPT ![run[w].ev] = @ + 1] ELSE tries
    BY <1>1 DEF Mark
  <2>2. Writes(run[w].ev, "PROCESSING")
    BY <1>0, <2>1, RowWritten DEF EventStatuses
  <2>3. /\ RunTyped /\ run'[w].pc = "handle" /\ run'[w].ev = run[w].ev
        /\ \A v \in Runners \ {w} : run'[v] = run[v]
    BY <2>1, StepGoes
  <2>4. tries' \in [Events -> Nat]
    BY <1>0, <2>1
  <2> QED
    BY <1>0, <2>1, <2>2, <2>3, <2>4 DEF InboxMoves, NoneReceived, Writes
<1>2. ASSUME Handled(w)
      PROVE  /\ InboxMoves /\ NoneReceived /\ run[w].pc = "handle" /\ run'[w].pc = "done"
             /\ run'[w].ev = run[w].ev /\ \A v \in Runners \ {w} : run'[v] = run[v]
  BY <1>0, <1>2, StepGoes DEF Handled, InboxMoves, NoneReceived
<1> QED
  BY <1>0, <1>1, <1>2

-----------------------------------------------------------------------------
(* The table of addresses.                                                 *)

LEMMA CallFields ==
  ASSUME TypeOK, NEW c \in Calls, NEW r \in CallType, call' = [call EXCEPT ![c] = r]
  PROVE  /\ call' \in [Calls -> CallType] /\ call'[c] = r
         /\ \A d \in Calls \ {c} : call'[d] = call[d]
<1>1. call \in [Calls -> CallType]
  BY DEF TypeOK, CallType, Steps
<1> HIDE DEF CallType
<1> QED
  BY <1>1

LEMMA NoCallType == NoCall \in CallType /\ NoCall.pc = "idle"
<1>1. Cardinality(Users) \in Nat
  BY IntakeAssumption, FS_CardinalityType
<1> QED
  BY <1>1 DEF NoCall, CallType, Steps

LEMMA HoldersCount ==
  /\ Cardinality(Users) \in Nat /\ IsFiniteSet(Holders) /\ Cardinality(Holders) \in 0..Cardinality(Users)
  /\ \A u \in Users \ Holders : /\ Cardinality(Holders \cup {u}) = Cardinality(Holders) + 1
                                /\ Cardinality(Holders) + 1 <= Cardinality(Users)
<1>1. Holders \subseteq Users /\ IsFiniteSet(Users)
  BY IntakeAssumption DEF Holders
<1>2. /\ IsFiniteSet(Holders) /\ Cardinality(Users) \in Nat /\ Cardinality(Holders) \in Nat
      /\ Cardinality(Holders) <= Cardinality(Users)
  BY <1>1, FS_Subset, FS_CardinalityType
<1>3. ASSUME NEW u \in Users \ Holders
      PROVE  /\ Cardinality(Holders \cup {u}) = Cardinality(Holders) + 1
             /\ Cardinality(Holders) + 1 <= Cardinality(Users)
  <2>1. Cardinality(Holders \cup {u}) = Cardinality(Holders) + 1
    BY <1>2, <1>3, FS_AddElement
  <2>2. Holders \cup {u} \subseteq Users
    BY <1>1, <1>3
  <2>3. Cardinality(Holders \cup {u}) <= Cardinality(Users)
    BY <1>1, <2>2, FS_Subset
  <2> QED
    BY <2>1, <2>3
<1> QED
  BY <1>2, <1>3

\* The next index is one more than there are holders, because the table has no gaps.
LEMMA NextIndex ==
  ASSUME TypeOK, TableInv, NEW u \in Users
  PROVE  Max({row[v] : v \in Users}) = Cardinality(Holders)
<1> DEFINE S == {row[v] : v \in Users}
           n == Cardinality(Holders)
<1>1. n \in Nat
  BY HoldersCount
<1>2. \A y \in S : y \in Nat /\ n >= y
  <2> SUFFICES ASSUME NEW v \in Users PROVE row[v] \in Nat /\ n >= row[v]
    OBVIOUS
  <2>1. CASE v \in Holders
    BY <1>1, <2>1 DEF TableInv
  <2>2. CASE v \notin Holders
    BY <1>1, <2>2 DEF Holders
  <2> QED
    BY <2>1, <2>2
<1>3. n \in S
  <2>1. CASE n = 0
    <3>1. Holders = {}
      BY <2>1, HoldersCount, FS_EmptySet
    <3>2. row[u] = 0
      BY <3>1 DEF Holders
    <3> QED
      BY <2>1, <3>2
  <2>2. CASE n # 0
    <3>1. n \in {row[v] : v \in Holders}
      BY <1>1, <2>2 DEF TableInv
    <3> QED
      BY <3>1 DEF Holders
  <2> QED
    BY <2>1, <2>2
<1>4. \A x \in S : (\A y \in S : x >= y) => x = n
  BY <1>1, <1>2, <1>3
<1> HIDE DEF S, n
<1>5. Max(S) = n
  BY <1>2, <1>3, <1>4 DEF Max
<1> QED
  BY <1>5 DEF S, n

\* What a request does to the table, seen from the deposits.
TableTyped ==
  /\ row' \in [Users -> Addresses \cup {0}] /\ call' \in [Calls -> CallType]
  /\ shown' \in [Users -> SUBSET Addresses] /\ watched' \subseteq Addresses /\ asks' \in 0..MaxAsks

RowsStay == \A u \in Users : row[u] # 0 => row'[u] = row[u]

AddressEffect == TableTyped /\ TableInv' /\ CallInv' /\ RowsStay

LEMMA TableTypes ==
  ASSUME TypeOK
  PROVE  /\ row \in [Users -> Addresses \cup {0}] /\ call \in [Calls -> CallType]
         /\ shown \in [Users -> SUBSET Addresses] /\ watched \subseteq Addresses /\ asks \in 0..MaxAsks
  BY DEF TypeOK, CallType, Steps

\* Whatever the table does not see keeps it.
LEMMA TableKept ==
  ASSUME TableInv, UNCHANGED <<row, shown>>
  PROVE  TableInv' /\ RowsStay /\ Holders' = Holders
  BY DEF TableInv, Holders, RowsStay

LEMMA AskKeeps ==
  ASSUME TypeOK, TableInv, CallInv, NEW c \in Calls, NEW u \in Users, AskAddress(c, u)
  PROVE  AddressEffect
<1> DEFINE r == [pc |-> "find", user |-> u, index |-> 0]
<1>1. r \in CallType /\ r.pc = "find" /\ r.user = u
  BY HoldersCount DEF CallType, Steps
<1>2. call' = [call EXCEPT ![c] = r] /\ UNCHANGED <<row, shown, watched>> /\ asks' = asks + 1 /\ asks < MaxAsks
  BY DEF AskAddress
<1> HIDE DEF r
<1>3. /\ call' \in [Calls -> CallType] /\ call'[c] = r
      /\ \A d \in Calls \ {c} : call'[d] = call[d]
  BY <1>1, <1>2, CallFields
<1>4. asks' \in 0..MaxAsks
  BY <1>2, IntakeAssumption DEF TypeOK
<1>5. TableInv' /\ RowsStay /\ Holders' = Holders
  BY <1>2, TableKept
<1>6. CallInv'
  BY <1>1, <1>2, <1>3, <1>5 DEF CallInv
<1> QED
  BY <1>2, <1>3, <1>4, <1>5, <1>6, TableTypes DEF AddressEffect, TableTyped

\* Answering the address of the user's row.
LEMMA ShowKeeps ==
  ASSUME TypeOK, TableInv, CallInv, NEW c \in Calls, call[c].pc # "idle", NEW a,
         a = row[call[c].user], a # 0, Show(c, a), UNCHANGED <<row, asks>>, watched' \subseteq Addresses
  PROVE  AddressEffect
<1> DEFINE u == call[c].user
<1>1. u \in Users
  BY DEF CallInv
<1>2. shown' = [shown EXCEPT ![u] = shown[u] \cup {a}] /\ call' = [call EXCEPT ![c] = NoCall]
  BY DEF Show
<1>3. /\ call' \in [Calls -> CallType] /\ call'[c] = NoCall
      /\ \A d \in Calls \ {c} : call'[d] = call[d]
  BY <1>2, NoCallType, CallFields
<1>4. a \in Addresses /\ a = row[u]
  BY <1>1, TableTypes
<1> HIDE DEF u
<1>5. shown' \in [Users -> SUBSET Addresses] /\ \A v \in Users : shown'[v] \subseteq {row[v]} \ {0}
  BY <1>1, <1>2, <1>4, TableTypes DEF TableInv
<1>6. TableInv' /\ RowsStay /\ Holders' = Holders
  BY <1>5 DEF TableInv, RowsStay, Holders
<1>7. CallInv'
  BY <1>3, <1>6, NoCallType DEF CallInv
<1> QED
  BY <1>3, <1>5, <1>6, <1>7, TableTypes DEF AddressEffect, TableTyped

\* Going on to a place that knows nothing of the table.
LEMMA StepKeeps ==
  ASSUME TypeOK, TableInv, CallInv, NEW c \in Calls, NEW r \in CallType,
         call' = [call EXCEPT ![c] = r], r.pc \in {"idle", "allocate", "insert", "raced"},
         r.pc # "idle" => r.user \in Users,
         r.pc = "insert" => r.index \in 1..(Cardinality(Holders) + 1),
         UNCHANGED <<row, shown, watched, asks>>
  PROVE  AddressEffect
<1>1. /\ call' \in [Calls -> CallType] /\ call'[c] = r
      /\ \A d \in Calls \ {c} : call'[d] = call[d]
  BY CallFields
<1>2. TableInv' /\ RowsStay /\ Holders' = Holders
  BY TableKept
<1>3. CallInv'
  BY <1>1, <1>2 DEF CallInv
<1> QED
  BY <1>1, <1>2, <1>3, TableTypes DEF AddressEffect, TableTyped

LEMMA FindKeeps ==
  ASSUME TypeOK, TableInv, CallInv, NEW c \in Calls, FindAddress(c)
  PROVE  AddressEffect
<1>1. call[c].pc = "find" /\ call[c].user \in Users /\ call[c] \in CallType
      /\ UNCHANGED <<row, asks, watched>> /\ watched \subseteq Addresses
  BY TableTypes DEF FindAddress, CallInv
<1>2. CASE row[call[c].user] # 0
  BY <1>1, <1>2, ShowKeeps DEF FindAddress
<1>3. CASE row[call[c].user] = 0
  <2> DEFINE r == [call[c] EXCEPT !.pc = "allocate"]
  <2>1. r \in CallType /\ r.pc = "allocate" /\ r.user \in Users
    BY <1>1 DEF CallType, Steps
  <2>2. call' = [call EXCEPT ![c] = r] /\ UNCHANGED shown
    BY <1>3 DEF FindAddress
  <2> HIDE DEF r
  <2> QED
    BY <1>1, <2>1, <2>2, StepKeeps
<1> QED
  BY <1>2, <1>3

LEMMA AllocateKeeps ==
  ASSUME TypeOK, TableInv, CallInv, NEW c \in Calls, Allocate(c)
  PROVE  AddressEffect
<1>1. call[c].pc = "allocate" /\ call[c].user \in Users /\ call[c] \in CallType
      /\ UNCHANGED <<row, asks, watched, shown>>
  BY TableTypes DEF Allocate, CallInv
<1>2. PICK n \in 1..(Cardinality(Holders) + 1) : n = Max({row[u] : u \in Users}) + 1
  <2>1. Max({row[u] : u \in Users}) = Cardinality(Holders)
    BY <1>1, NextIndex
  <2>2. Cardinality(Holders) + 1 \in 1..(Cardinality(Holders) + 1)
    BY HoldersCount
  <2> QED
    BY <2>1, <2>2
<1>3. n \in 0..(Cardinality(Users) + 1)
  BY HoldersCount
<1> DEFINE r == [call[c] EXCEPT !.pc = "insert", !.index = n]
<1>4. r \in CallType /\ r.pc = "insert" /\ r.user \in Users /\ r.index = n
  BY <1>1, <1>3 DEF CallType, Steps
<1>5. call' = [call EXCEPT ![c] = r]
  BY <1>2 DEF Allocate
<1> HIDE DEF r
<1> QED
  BY <1>1, <1>4, <1>5, StepKeeps

\* An index that is free is the next one, and the table grows by it.
LEMMA InsertKeeps ==
  ASSUME TypeOK, TableInv, CallInv, NEW c \in Calls, InsertAddress(c)
  PROVE  AddressEffect
<1>1. call[c].pc = "insert" /\ call[c].user \in Users /\ call[c] \in CallType
      /\ call[c].index \in 1..(Cardinality(Holders) + 1)
      /\ UNCHANGED <<asks, watched, shown>>
  BY TableTypes DEF InsertAddress, CallInv
<1>2. CASE ~Insertable(c)
  <2> DEFINE r == [call[c] EXCEPT !.pc = "raced"]
  <2>1. r \in CallType /\ r.pc = "raced" /\ r.user \in Users
    BY <1>1 DEF CallType, Steps
  <2>2. call' = [call EXCEPT ![c] = r] /\ UNCHANGED row
    BY <1>2 DEF InsertAddress
  <2> HIDE DEF r
  <2> QED
    BY <1>1, <2>1, <2>2, StepKeeps
<1>3. CASE Insertable(c)
  <2>0. PICK u \in Users, i \in 1..(Cardinality(Holders) + 1) : u = call[c].user /\ i = call[c].index
    BY <1>1
  <2>1. row[u] = 0 /\ i \notin {row[v] : v \in Users} /\ row' = [row EXCEPT ![u] = i]
    BY <1>3, <2>0 DEF Insertable, InsertAddress
  <2>2. u \notin Holders /\ Cardinality(Holders) \in Nat
    BY <2>1, HoldersCount DEF Holders
  <2>3. i = Cardinality(Holders) + 1
    <3>1. i \notin {row[v] : v \in Holders}
      BY <2>1 DEF Holders
    <3>2. i \notin 1..Cardinality(Holders)
      BY <3>1 DEF TableInv
    <3> QED
      BY <2>2, <3>2
  <2>4. /\ row' \in [Users -> Addresses \cup {0}] /\ row'[u] = i /\ i # 0
        /\ \A v \in Users \ {u} : row'[v] = row[v]
    <3>1. i \in Addresses /\ i # 0
      <4>1. Cardinality(Holders) + 1 <= Cardinality(Users) /\ Cardinality(Users) \in Nat
        BY <2>2, HoldersCount
      <4>2. i \in Nat \ {0} /\ i <= Cardinality(Users)
        BY <2>2, <2>3, <4>1
      <4> QED
        BY <4>1, <4>2 DEF Addresses
    <3> QED
      BY <2>1, <3>1, TableTypes
  <2>5. Holders' = Holders \cup {u}
    BY <2>4 DEF Holders
  <2>6. Cardinality(Holders') = Cardinality(Holders) + 1
    BY <2>2, <2>5, HoldersCount
  <2>7. {row'[v] : v \in Holders'} = 1..Cardinality(Holders')
    <3>1. \A v \in Holders : v # u /\ v \in Users
      BY <2>2 DEF Holders
    <3>2. {row'[v] : v \in Holders \cup {u}} = {row[v] : v \in Holders} \cup {i}
      BY <2>4, <3>1
    <3>3. {row[v] : v \in Holders} = 1..Cardinality(Holders)
      BY DEF TableInv
    <3> QED
      BY <2>2, <2>3, <2>5, <2>6, <3>2, <3>3
  <2>8. \A v, w \in Users : (row'[v] = row'[w] /\ row'[v] # 0) => v = w
    BY <2>1, <2>4 DEF TableInv
  <2>9. \A v \in Users : shown'[v] \subseteq {row'[v]} \ {0}
    BY <1>1, <2>1, <2>4 DEF TableInv
  <2>10. TableInv' /\ RowsStay
    BY <2>1, <2>4, <2>7, <2>8, <2>9 DEF TableInv, RowsStay
  <2> DEFINE r == [call[c] EXCEPT !.pc = "register"]
  <2>11. r \in CallType /\ r.pc = "register" /\ r.user = u /\ r.index = i
    BY <1>1, <2>0 DEF CallType, Steps
  <2>12. call' = [call EXCEPT ![c] = r]
    BY <1>3 DEF InsertAddress
  <2> HIDE DEF r
  <2>13. /\ call' \in [Calls -> CallType] /\ call'[c] = r
         /\ \A d \in Calls \ {c} : call'[d] = call[d]
    BY <2>11, <2>12, CallFields
  <2>14. CallInv'
    <3> SUFFICES ASSUME NEW d \in Calls
                 PROVE  /\ call'[d].pc # "idle" => call'[d].user \in Users
                        /\ call'[d].pc = "insert" => call'[d].index \in 1..(Cardinality(Holders') + 1)
                        /\ call'[d].pc = "register" =>
                             call'[d].index = row'[call'[d].user] /\ call'[d].index # 0
      BY DEF CallInv
    <3>1. CASE d = c
      BY <2>4, <2>11, <2>13, <3>1
    <3>2. CASE d # c
      <4>1. call'[d] = call[d]
        BY <2>13, <3>2
      <4>2. /\ call[d].pc # "idle" => call[d].user \in Users
            /\ call[d].pc = "insert" => call[d].index \in 1..(Cardinality(Holders) + 1)
            /\ call[d].pc = "register" => call[d].index = row[call[d].user] /\ call[d].index # 0
        BY DEF CallInv
      <4>3. call[d].pc = "register" => call[d].user \in Users \ {u}
        BY <2>1, <4>2
      <4> QED
        BY <2>2, <2>4, <2>6, <4>1, <4>2, <4>3
    <3> QED
      BY <3>1, <3>2
  <2> QED
    BY <1>1, <2>4, <2>10, <2>13, <2>14, TableTypes DEF AddressEffect, TableTyped
<1> QED
  BY <1>2, <1>3

LEMMA RegisterKeeps ==
  ASSUME TypeOK, TableInv, CallInv, NEW c \in Calls, RegisterAddress(c)
  PROVE  AddressEffect
<1>1. call[c].pc = "register" /\ call[c].user \in Users /\ UNCHANGED <<row, asks>>
      /\ call[c].index = row[call[c].user] /\ call[c].index # 0 /\ Show(c, call[c].index)
  BY DEF RegisterAddress, CallInv
<1>2. call[c].index \in Addresses
  BY <1>1, TableTypes
<1>3. watched' \subseteq Addresses
  BY <1>2, TableTypes DEF RegisterAddress
<1> QED
  BY <1>1, <1>3, ShowKeeps

LEMMA RacedKeeps ==
  ASSUME TypeOK, TableInv, CallInv, NEW c \in Calls, Raced(c)
  PROVE  AddressEffect
<1>1. call[c].pc = "raced" /\ call[c].user \in Users
      /\ UNCHANGED <<row, asks, watched>> /\ watched \subseteq Addresses
  BY TableTypes DEF Raced, CallInv
<1>2. CASE WinnersAddress(c) # 0
  BY <1>1, <1>2, ShowKeeps DEF Raced, WinnersAddress
<1>3. CASE WinnersAddress(c) = 0
  BY <1>1, <1>3, NoCallType, StepKeeps DEF Raced
<1> QED
  BY <1>2, <1>3

\* What requests leave alone.
LEMMA AddressSteps ==
  ASSUME TypeOK, TableInv, CallInv, AddressStep
  PROVE  /\ AddressEffect /\ UNCHANGED <<inbox, run, todo, replays, tries, died>>
         /\ faults' \in 0..MaxFaults /\ UNCHANGED <<chainVars, left, sweep, deposit>>
<1>1. PICK c \in Calls : \/ \E u \in Users : AskAddress(c, u)
                         \/ FindAddress(c) \/ Allocate(c) \/ InsertAddress(c)
                         \/ RegisterAddress(c) \/ Raced(c)
  BY DEF AddressStep
<1>2. AddressEffect
  BY <1>1, AskKeeps, FindKeeps, AllocateKeeps, InsertKeeps, RegisterKeeps, RacedKeeps
<1>3. /\ UNCHANGED <<inbox, run, todo, replays, tries, died>>
      /\ UNCHANGED <<chainVars, left, sweep, deposit>> /\ (Fault \/ UNCHANGED faults)
  BY <1>1 DEF AskAddress, FindAddress, Allocate, InsertAddress, RegisterAddress, Raced, inboxVars
<1> QED
  BY <1>2, <1>3, InboxTypes

-----------------------------------------------------------------------------
(* Deposits and items.                                                     *)

DepositType == [key : Events \X Nat, of : Transfers, user : Users]

\* Deposit rows are never changed, and a new one is its payee's.
DepositEffect ==
  /\ deposit' \in SUBSET DepositType
  /\ deposit \subseteq deposit'
  /\ \A d \in deposit' : PaidTo(d.of) /\ d.user = payee[d.of]
  /\ KeysInv'

LEMMA DepositsStay ==
  ASSUME TypeOK, ChainInv, UNCHANGED deposit
  PROVE  DepositEffect
  BY DEF TypeOK, ChainInv, KeysInv, DepositEffect, DepositType

\* The owner of the address is the payee, because no two users have one address; and under
\* its own number a transfer is recorded afterwards, whatever stood in the way of a row, or
\* it is too small.
LEMMA RecordEffect ==
  ASSUME TypeOK, TableInv, ChainInv, NEW t \in Transfers, dest[t] # 0,
         NEW log \in {t.log, LogInSweep(t)}, RecordTransfer(t, log)
  PROVE  DepositEffect /\ (log = t.log => Settled(t)')
<1> DEFINE owners == {u \in Users : row[u] = dest[t]}
           key == DepositKey(t, log)
           seen == \E d \in deposit : d.key = key
           new == [key |-> key, of |-> t, user |-> payee[t]]
<1>1. PaidTo(t)
  BY DEF ChainInv
<1>2. owners = {payee[t]} /\ payee[t] \in Users
  BY <1>1, IntakeAssumption DEF PaidTo, TableInv
<1>3. deposit \in SUBSET DepositType /\ KeysInv
  BY DEF TypeOK, ChainInv, DepositType
<1>4. ASSUME seen, log = t.log PROVE Recorded(t)
  <2>1. PICK d \in deposit : d.key = DepositKey(t, t.log)
    BY <1>4
  <2>2. CASE d.key = DepositKey(d.of, d.of.log)
    <3>1. d.of \in Transfers /\ d.of.tx = t.tx /\ d.of.log = t.log
      BY <1>3, <2>1, <2>2 DEF DepositKey, DepositType
    <3>2. d.of = t
      BY <3>1, IntakeAssumption
    <3> QED
      BY <3>2 DEF Recorded
  <2>3. CASE d.of \in Unnumbered
    BY <2>1, <2>3 DEF Recorded
  <2> QED
    BY <1>3, <2>2, <2>3 DEF KeysInv
<1>5. CASE TooSmall(t) \/ seen
  <2>1. UNCHANGED deposit
    BY <1>5 DEF RecordTransfer
  <2>2. log = t.log => Settled(t)
    BY <1>4, <1>5 DEF Settled, TooSmall
  <2> QED
    BY <2>1, <2>2, DepositsStay DEF Settled, Recorded
<1>6. CASE ~(TooSmall(t) \/ seen)
  <2>1. \E u \in owners : deposit' = deposit \cup {[key |-> key, of |-> t, user |-> u]}
    BY <1>2, <1>6 DEF RecordTransfer
  <2>2. deposit' = deposit \cup {new}
    BY <1>2, <2>1
  <2>3. t.tx \in Events /\ t.log \in Nat /\ log \in Nat
    BY IntakeAssumption DEF LogInSweep
  <2>4. new \in DepositType /\ new.of = t /\ new.user = payee[t] /\ new.key = key
    BY <1>2, <2>3 DEF DepositType, DepositKey
  <2>5. key = DepositKey(t, t.log) \/ (t \in Unnumbered /\ key = DepositKey(t, 0))
    BY DEF LogInSweep
  <2> HIDE DEF new, key
  <2>6. KeysInv'
    <3>1. \A d \in deposit' : \/ d.key = DepositKey(d.of, d.of.log)
                              \/ d.of \in Unnumbered /\ d.key = DepositKey(d.of, 0)
      BY <1>3, <2>2, <2>4, <2>5 DEF KeysInv
    <3>2. \A c, d \in deposit' : c.key = d.key => c = d
      BY <1>3, <1>6, <2>2, <2>4 DEF KeysInv
    <3> QED
      BY <3>1, <3>2 DEF KeysInv
  <2>7. DepositEffect
    BY <1>1, <1>3, <2>2, <2>4, <2>6 DEF ChainInv, DepositEffect
  <2>8. Recorded(t)'
    BY <2>2, <2>4 DEF Recorded
  <2> QED
    BY <2>7, <2>8 DEF Settled
<1> QED
  BY <1>5, <1>6

LEMMA SettledStays ==
  ASSUME DepositEffect, NEW t \in Transfers, Settled(t)
  PROVE  Settled(t)'
  BY DEF DepositEffect, Settled, Recorded

\* What the inbox stores of a webhook is a part of it.
LEMMA StoredPart == \A ts : Stored(ts) \subseteq ts
  BY DEF Stored

LEMMA ChainKept ==
  ASSUME ChainInv, DepositEffect, UNCHANGED <<row, chainVars>>
  PROVE  ChainInv'
  BY DEF ChainInv, DepositEffect, PaidTo, chainVars

Typed ==
  /\ block \in [Events -> Nat] /\ dest \in [Transfers -> Addresses \cup {0}]
  /\ payee \in [Transfers -> Users \cup {NoUser}] /\ payload \in [Events -> SUBSET Transfers]
  /\ left \in [Runners -> SUBSET Transfers]
  /\ sweep \in [todo : SUBSET Addresses, page : SUBSET Transfers]
  /\ deposit \in SUBSET DepositType

LEMMA TypesSplit ==
  /\ TypeOK => Typed
  /\ (InboxMoves /\ TableTyped /\ Typed') => TypeOK'
<1>1. TypeOK => Typed
  BY DEF TypeOK, Typed, DepositType
<1>2. ASSUME InboxMoves, TableTyped, Typed' PROVE TypeOK'
  <2>1. InboxTypeOK'
    BY <1>2 DEF InboxMoves, RunTyped, InboxTypeOK
  <2> QED
    BY <1>2, <2>1 DEF TypeOK, TableTyped, Typed, CallType, Steps, DepositType
<1> QED
  BY <1>1, <1>2

LEMMA InboxStays ==
  ASSUME TypeOK, RunsInv, UNCHANGED <<inbox, run, todo, replays, tries, died>>,
         faults' \in 0..MaxFaults
  PROVE  InboxMoves /\ NoneReceived /\ \A v \in Runners : Moves(v)
  BY InboxTypes DEF InboxMoves, NoneReceived, Moves, RunTyped, TypeOK, InboxTypeOK, RunsInv

LEMMA TableStays ==
  ASSUME TypeOK, TableInv, CallInv, UNCHANGED addressVars
  PROVE  AddressEffect
<1>1. UNCHANGED <<row, call, asks, shown, watched>>
  BY DEF addressVars
<1>2. TableInv' /\ RowsStay /\ Holders' = Holders
  BY <1>1, TableKept
<1> QED
  BY <1>1, <1>2, TableTypes DEF AddressEffect, TableTyped, CallInv

\* What a run claims of its items.
Good(w) ==
  /\ run[w].pc = "handle" => \A t \in Stored(payload[run[w].ev]) : t \in left[w] \/ Settled(t)
  /\ run[w].pc = "done" => \A t \in Stored(payload[run[w].ev]) : Settled(t)

\* A run that moves keeps its claims, if what it no longer has before it is recorded.
LEMMA RunKeeps ==
  ASSUME TypeOK, RunsInv, DepositEffect, NEW w \in Runners, Good(w), Moves(w), UNCHANGED payload,
         run'[w].pc = "handle" => \A t \in left[w] : t \in left'[w] \/ Settled(t)'
  PROVE  Good(w)'
<1>1. CASE run'[w] = run[w]
  <2>1. CASE run[w].pc \in {"handle", "done"}
    <3>1. Stored(payload[run[w].ev]) \subseteq Transfers
      BY <2>1, StoredPart DEF TypeOK, RunsInv
    <3> QED
      BY <1>1, <2>1, <3>1, SettledStays DEF Good
  <2>2. CASE run[w].pc \notin {"handle", "done"}
    BY <1>1, <2>2 DEF Good
  <2> QED
    BY <2>1, <2>2
<1>2. CASE run'[w].pc \in {"idle", "read", "mark", "failed"}
  BY <1>2 DEF Good
<1> QED
  BY <1>1, <1>2 DEF Moves

LEMMA ProcessedKeeps ==
  ASSUME TypeOK, RunsInv, DepositEffect, InboxMoves, UNCHANGED payload,
         ProcessedIsRecorded, \A w \in Runners : Good(w)
  PROVE  ProcessedIsRecorded'
<1> SUFFICES ASSUME NEW e \in Events, inbox'[e].status = "PROCESSED", NEW t \in Stored(payload[e])
             PROVE  Settled(t)'
  BY DEF ProcessedIsRecorded, Settled
<1>1. t \in Transfers
  BY StoredPart DEF TypeOK
<1>2. Settled(t)
  BY DEF InboxMoves, ProcessedIsRecorded, Good, Settled
<1> QED
  BY <1>1, <1>2, SettledStays

LEMMA ItemsSplit == ItemsInv <=> (\A w \in Runners : Good(w)) /\ ProcessedIsRecorded
  BY DEF ItemsInv, Good

LEMMA RunsKept ==
  ASSUME RunsInv, InboxMoves,
         \A w \in Runners : Moves(w) \/ (run[w].pc # "idle" /\ run'[w].ev = run[w].ev),
         \A e \in Events : inbox'[e].status # "none" => block'[e] # 0
  PROVE  RunsInv'
<1>1. \A w \in Runners : run'[w].pc # "idle" => run'[w].ev \in Events /\ inbox'[run'[w].ev].status # "none"
  BY DEF RunsInv, InboxMoves, Moves
<1> QED
  BY <1>1 DEF RunsInv, InboxMoves

-----------------------------------------------------------------------------
(* Every step keeps the invariant.                                         *)

\* A step that leaves the chain and the table alone: what it does to the inbox, to the
\* deposits and to what is walked.
LEMMA WalkStep ==
  ASSUME IInv, InboxMoves, DepositEffect, UNCHANGED <<addressVars, chainVars>>,
         \A w \in Runners : \/ Moves(w) /\ (run'[w].pc = "handle" =>
                                              \A t \in left[w] : t \in left'[w] \/ Settled(t)')
                            \/ run[w].pc # "idle" /\ run'[w].ev = run[w].ev /\ Good(w)',
         \A e \in Events : inbox'[e].status # "none" => block[e] # 0,
         left' \in [Runners -> SUBSET Transfers],
         sweep' \in [todo : SUBSET Addresses, page : SUBSET Transfers],
         WalkInv'
  PROVE  IInv'
<1>1. TypeOK /\ TableInv /\ CallInv /\ ChainInv /\ RunsInv /\ ItemsInv
  BY DEF IInv
<1>2. UNCHANGED <<row, block, dest, payee, payload>>
  BY DEF addressVars, chainVars
<1>3. TableTyped /\ TableInv' /\ CallInv'
  BY <1>1, TableStays DEF AddressEffect
<1>4. TypeOK'
  <2>1. Typed
    BY <1>1, TypesSplit
  <2>2. Typed'
    BY <1>2, <2>1 DEF Typed, DepositEffect
  <2> QED
    BY <1>3, <2>2, TypesSplit
<1>5. ChainInv'
  BY <1>1, <1>2, ChainKept DEF chainVars
<1>6. RunsInv'
  BY <1>1, <1>2, RunsKept
<1>7. \A w \in Runners : Good(w)'
  BY <1>1, <1>2, ItemsSplit, RunKeeps
<1>8. ProcessedIsRecorded'
  BY <1>1, <1>2, ItemsSplit, ProcessedKeeps
<1>9. ItemsInv'
  BY <1>7, <1>8 DEF ItemsInv, Good
<1> QED
  BY <1>3, <1>4, <1>5, <1>6, <1>9 DEF IInv

LEMMA AddressKeepsAll ==
  ASSUME IInv, AddressStep
  PROVE  IInv'
<1>1. TypeOK /\ TableInv /\ CallInv /\ ChainInv /\ WalkInv /\ RunsInv /\ ItemsInv
  BY DEF IInv
<1>2. /\ TableTyped /\ TableInv' /\ CallInv' /\ RowsStay
      /\ UNCHANGED <<inbox, run, todo, replays, tries, died>> /\ faults' \in 0..MaxFaults
      /\ UNCHANGED <<block, dest, payee, payload, left, sweep, deposit>>
  BY <1>1, AddressSteps DEF AddressEffect, chainVars
<1>3. TypeOK'
  BY <1>1, <1>2, InboxStays, TypesSplit DEF Typed
<1>4. ChainInv'
  BY <1>1, <1>2 DEF ChainInv, KeysInv, PaidTo, RowsStay
<1>5. WalkInv' /\ RunsInv' /\ ItemsInv'
  BY <1>1, <1>2 DEF WalkInv, RunsInv, ItemsInv, ProcessedIsRecorded, Settled, Recorded
<1> QED
  BY <1>2, <1>3, <1>4, <1>5 DEF IInv

LEMMA MineKeeps ==
  ASSUME IInv, NEW e \in Events, MineTransaction(e)
  PROVE  IInv'
<1>0. TypeOK /\ TableInv /\ CallInv /\ ChainInv /\ WalkInv /\ RunsInv /\ ItemsInv /\ Typed
  BY TypesSplit DEF IInv
<1> DEFINE ts == TransfersOf(e)
<1>1. /\ block[e] = 0
      /\ block' = [block EXCEPT ![e] = Cardinality({d \in Events : block[d] # 0}) + 1]
      /\ UNCHANGED <<inbox, run, todo, faults, replays, tries, died, left, sweep, deposit>>
      /\ UNCHANGED addressVars
  BY DEF MineTransaction, inboxVars
<1>2. PICK who \in [ts -> Users], to \in [ts -> Addresses] :
        /\ \A t \in ts : to[t] \in shown[who[t]]
        /\ dest' = [t \in Transfers |-> IF t \in ts THEN to[t] ELSE dest[t]]
        /\ payee' = [t \in Transfers |-> IF t \in ts THEN who[t] ELSE payee[t]]
        /\ payload' = [payload EXCEPT ![e] = {t \in ts : to[t] \in watched}]
  BY DEF MineTransaction
<1>3. \A t \in Transfers : t.tx \in Events /\ (t \in ts <=> t.tx = e)
  BY IntakeAssumption DEF TransfersOf
<1>4. ts \subseteq Transfers
  BY DEF TransfersOf
<1> HIDE DEF ts
<1>5. PICK n \in Nat : n = Cardinality({d \in Events : block[d] # 0})
  BY <1>0, FS_CardinalityType DEF ChainInv
<1>6. /\ block' \in [Events -> Nat] /\ block'[e] # 0 /\ \A d \in Events \ {e} : block'[d] = block[d]
  <2>1. block' = [block EXCEPT ![e] = n + 1]
    BY <1>1, <1>5
  <2> QED
    BY <1>0, <2>1 DEF Typed
<1>7. /\ \A t \in ts : dest'[t] = to[t] /\ payee'[t] = who[t]
      /\ \A t \in Transfers \ ts : dest'[t] = dest[t] /\ payee'[t] = payee[t]
      /\ payload'[e] \subseteq ts /\ \A d \in Events \ {e} : payload'[d] = payload[d]
      /\ payload' \in [Events -> SUBSET Transfers]
  BY <1>0, <1>2, <1>4 DEF Typed
<1>8. \A t \in Transfers : dest[t] # 0 => t \notin ts
  BY <1>0, <1>1, <1>3 DEF ChainInv
<1>9. Typed'
  <2>1. dest' \in [Transfers -> Addresses \cup {0}] /\ payee' \in [Transfers -> Users \cup {NoUser}]
    BY <1>0, <1>2 DEF Typed
  <2> QED
    BY <1>0, <1>1, <1>6, <1>7, <2>1 DEF Typed
<1>10. TableTyped /\ TableInv' /\ CallInv' /\ UNCHANGED row
  BY <1>0, <1>1, TableStays DEF AddressEffect, addressVars
<1>11. TypeOK'
  BY <1>0, <1>1, <1>9, <1>10, InboxTypes, InboxStays, TypesSplit
<1>12. ChainInv'
  <2>1. \A t \in ts : PaidTo(t)' /\ block'[t.tx] # 0
    <3> SUFFICES ASSUME NEW t \in ts PROVE PaidTo(t)' /\ block'[t.tx] # 0
      OBVIOUS
    <3>1. who[t] \in Users /\ to[t] \in shown[who[t]]
      BY <1>2
    <3>2. to[t] = row[who[t]] /\ to[t] # 0
      BY <1>0, <3>1 DEF TableInv
    <3> QED
      BY <1>3, <1>4, <1>6, <1>7, <1>10, <3>1, <3>2 DEF PaidTo
  <2>2. \A t \in Transfers \ ts : /\ PaidTo(t) => PaidTo(t)'
                                  /\ block'[t.tx] = block[t.tx]
    BY <1>3, <1>6, <1>7, <1>10 DEF PaidTo
  <2>3. \A t \in Transfers : dest'[t] # 0 => PaidTo(t)' /\ block'[t.tx] # 0
    BY <1>0, <1>7, <2>1, <2>2 DEF ChainInv
  <2>4. (\A d \in deposit' : PaidTo(d.of)' /\ d.user = payee'[d.of]) /\ KeysInv'
    <3>1. \A d \in deposit : /\ d.of \in Transfers /\ d.of \notin ts
                             /\ PaidTo(d.of) /\ d.user = payee[d.of]
      BY <1>0, <1>8 DEF ChainInv, PaidTo, Typed, DepositType
    <3>2. KeysInv'
      BY <1>0, <1>1 DEF ChainInv, KeysInv
    <3> QED
      BY <1>1, <1>7, <2>2, <3>1, <3>2
  <2>5. \A d \in Events : \A t \in payload'[d] : t.tx = d /\ dest'[t] # 0
    <3>1. \A t \in payload'[e] : t.tx = e /\ dest'[t] # 0
      BY <1>3, <1>4, <1>7, <2>1 DEF PaidTo
    <3>2. ASSUME NEW d \in Events \ {e}, NEW t \in payload[d] PROVE t.tx = d /\ dest'[t] # 0
      BY <1>0, <1>3, <1>7, <3>2 DEF ChainInv, Typed
    <3> QED
      BY <1>7, <3>1, <3>2
  <2>6. IsFiniteSet({d \in Events : block'[d] # 0})
    <3>1. {d \in Events : block'[d] # 0} = {d \in Events : block[d] # 0} \cup {e}
      BY <1>6
    <3> QED
      BY <1>0, <3>1, FS_AddElement DEF ChainInv
  <2> QED
    BY <2>3, <2>4, <2>5, <2>6 DEF ChainInv
<1>13. WalkInv'
  BY <1>0, <1>1, <1>7, <1>8 DEF WalkInv, Typed
<1>14. RunsInv'
  BY <1>0, <1>1, <1>6 DEF RunsInv
<1>15. ItemsInv'
  <2>1. \A d \in Events : inbox[d].status # "none" => payload'[d] = payload[d]
    BY <1>0, <1>1, <1>7 DEF RunsInv
  <2>2. \A t \in Transfers : Settled(t)' <=> Settled(t)
    BY <1>1 DEF Settled, Recorded
  <2>3. \A w \in Runners : Good(w)'
    <3> SUFFICES ASSUME NEW w \in Runners PROVE Good(w)'
      OBVIOUS
    <3>1. CASE run[w].pc \in {"handle", "done"}
      <4>1. /\ payload'[run[w].ev] = payload[run[w].ev]
            /\ Stored(payload[run[w].ev]) \subseteq Transfers
        BY <1>0, <2>1, <3>1, StoredPart DEF RunsInv, Typed
      <4> QED
        BY <1>0, <1>1, <2>2, <4>1, ItemsSplit DEF Good
    <3>2. CASE run[w].pc \notin {"handle", "done"}
      BY <1>1, <3>2 DEF Good
    <3> QED
      BY <3>1, <3>2
  <2>4. ProcessedIsRecorded'
    <3>1. \A d \in Events : inbox[d].status = "PROCESSED" => \A t \in Stored(payload[d]) : Settled(t)
      BY <1>0, ItemsSplit DEF ProcessedIsRecorded, Settled
    <3>2. \A d \in Events : inbox'[d].status = "PROCESSED" => \A t \in Stored(payload'[d]) : Settled(t)'
      BY <1>0, <1>1, <2>1, <2>2, <3>1, StoredPart DEF Typed
    <3> QED
      BY <3>2 DEF ProcessedIsRecorded, Settled
  <2> QED
    BY <2>3, <2>4 DEF ItemsInv, Good
<1> QED
  BY <1>10, <1>11, <1>12, <1>13, <1>14, <1>15 DEF IInv

LEMMA DeliverKeeps ==
  ASSUME IInv, NEW w \in Workers, NEW e \in Events, Deliver(w, e)
  PROVE  IInv'
<1>0. TypeOK /\ ChainInv /\ WalkInv /\ RunsInv /\ Typed
  BY TypesSplit DEF IInv
<1>1. Receive(w, e) /\ payload[e] # {} /\ UNCHANGED <<addressVars, chainVars, left, sweep, deposit>>
  BY DEF Deliver
<1>2. /\ InboxMoves /\ \A v \in Runners : Moves(v)
      /\ \A f \in Events \ {e} : inbox'[f] = inbox[f]
  BY <1>0, <1>1, ReceiveMoves
<1>3. block[e] # 0
  <2>1. PICK t \in payload[e] : t \in Transfers
    BY <1>0, <1>1 DEF Typed
  <2> QED
    BY <1>0, <2>1 DEF ChainInv
<1>4. \A f \in Events : inbox'[f].status # "none" => block[f] # 0
  BY <1>0, <1>2, <1>3 DEF RunsInv
<1>5. DepositEffect /\ WalkInv'
  BY <1>0, <1>1, DepositsStay DEF WalkInv, chainVars
<1> QED
  BY <1>0, <1>1, <1>2, <1>4, <1>5, WalkStep DEF Typed

\* The inbox by itself and the process that dies.
LEMMA InboxKeepsAll ==
  ASSUME IInv, InboxStep, UNCHANGED <<addressVars, chainVars, left, sweep, deposit>>
  PROVE  IInv'
<1>0. TypeOK /\ ChainInv /\ WalkInv /\ RunsInv /\ Typed
  BY TypesSplit DEF IInv
<1>1. InboxMoves /\ NoneReceived /\ \A v \in Runners : Moves(v)
  BY <1>0, InboxStepMoves
<1>2. \A f \in Events : inbox'[f].status # "none" => block[f] # 0
  BY <1>0, <1>1 DEF RunsInv, NoneReceived
<1>3. DepositEffect /\ WalkInv'
  BY <1>0, DepositsStay DEF WalkInv, chainVars
<1> QED
  BY <1>0, <1>1, <1>2, <1>3, WalkStep DEF Typed

\* The items of one run: it may begin with them, record one, end with none left, or fail.
LEMMA HandlerKeepsAll ==
  ASSUME IInv, NEW w \in Runners, BeginEvent(w) \/ HandleItem(w) \/ EndEvent(w) \/ EventFails(w)
  PROVE  IInv'
<1>0. TypeOK /\ TableInv /\ ChainInv /\ WalkInv /\ RunsInv /\ Typed /\ \A v \in Runners : Good(v)
  BY TypesSplit, ItemsSplit DEF IInv
<1>1. \A v \in Runners : \A t \in left[v] : t \in Transfers /\ dest[t] # 0
  BY <1>0 DEF Typed, WalkInv
<1>2. ASSUME NEW items \in SUBSET Transfers, left' = [left EXCEPT ![w] = items],
             \A t \in items : dest[t] # 0, UNCHANGED <<sweep, chainVars>>
      PROVE  /\ left' \in [Runners -> SUBSET Transfers] /\ left'[w] = items
             /\ \A v \in Runners \ {w} : left'[v] = left[v]
             /\ WalkInv' /\ sweep' \in [todo : SUBSET Addresses, page : SUBSET Transfers]
  <2>1. /\ left' \in [Runners -> SUBSET Transfers] /\ left'[w] = items
        /\ \A v \in Runners \ {w} : left'[v] = left[v]
    BY <1>0, <1>2 DEF Typed
  <2>2. WalkInv'
    BY <1>0, <1>2, <2>1 DEF WalkInv, chainVars
  <2> QED
    BY <1>0, <1>2, <2>1, <2>2 DEF Typed
<1>3. ASSUME BeginEvent(w) PROVE IInv'
  <2>1. /\ Mark(w) /\ left' = [left EXCEPT ![w] = Stored(payload[run[w].ev])]
        /\ UNCHANGED <<addressVars, chainVars, sweep, deposit>>
    BY <1>3 DEF BeginEvent
  <2>2. /\ InboxMoves /\ NoneReceived /\ run[w].ev \in Events /\ run'[w].ev = run[w].ev
        /\ \A v \in Runners \ {w} : run'[v] = run[v]
        /\ run'[w].pc = "handle" /\ run[w].pc # "idle"
    BY <1>0, <2>1, HandlerMoves DEF Mark
  <2>3. /\ Stored(payload[run[w].ev]) \in SUBSET Transfers
        /\ \A t \in Stored(payload[run[w].ev]) : dest[t] # 0
    BY <1>0, <2>2, StoredPart DEF Typed, ChainInv
  <2>4. /\ left' \in [Runners -> SUBSET Transfers] /\ left'[w] = Stored(payload[run[w].ev])
        /\ \A v \in Runners \ {w} : left'[v] = left[v]
        /\ WalkInv' /\ sweep' \in [todo : SUBSET Addresses, page : SUBSET Transfers]
    BY <1>2, <2>1, <2>3
  <2>5. Good(w)'
    BY <2>1, <2>2, <2>4 DEF Good, chainVars
  <2>6. DepositEffect
    BY <1>0, <2>1, DepositsStay
  <2>7. \A e \in Events : inbox'[e].status # "none" => block[e] # 0
    BY <1>0, <2>2 DEF RunsInv, NoneReceived
  <2> QED
    BY <2>1, <2>2, <2>4, <2>5, <2>6, <2>7, WalkStep DEF Moves
<1>4. ASSUME HandleItem(w) PROVE IInv'
  <2>1. PICK t \in left[w] : RecordTransfer(t, t.log) /\ left' = [left EXCEPT ![w] = left[w] \ {t}]
    BY <1>4 DEF HandleItem, Foremost
  <2>2. UNCHANGED <<inboxVars, addressVars, chainVars, sweep>>
    BY <1>4 DEF HandleItem
  <2>3. DepositEffect /\ Settled(t)'
    BY <1>0, <1>1, <2>1, RecordEffect
  <2>4. left[w] \ {t} \in SUBSET Transfers /\ \A s \in left[w] \ {t} : dest[s] # 0
    BY <1>0, <1>1
  <2>5. /\ left' \in [Runners -> SUBSET Transfers] /\ left'[w] = left[w] \ {t}
        /\ \A v \in Runners \ {w} : left'[v] = left[v]
        /\ WalkInv' /\ sweep' \in [todo : SUBSET Addresses, page : SUBSET Transfers]
    BY <1>2, <2>1, <2>2, <2>4
  <2>6. InboxMoves /\ NoneReceived /\ \A v \in Runners : Moves(v)
    BY <1>0, <2>2, InboxTypes, InboxStays DEF inboxVars
  <2>7. \A e \in Events : inbox'[e].status # "none" => block[e] # 0
    BY <1>0, <2>6 DEF RunsInv, NoneReceived
  <2>8. \A v \in Runners : \A s \in left[v] : s \in left'[v] \/ Settled(s)'
    BY <2>3, <2>5
  <2> QED
    BY <2>2, <2>3, <2>5, <2>6, <2>7, <2>8, WalkStep
<1>5. ASSUME EndEvent(w) PROVE IInv'
  <2>1. /\ left[w] = {} /\ Handled(w) /\ left' = [left EXCEPT ![w] = {}]
        /\ UNCHANGED <<addressVars, chainVars, sweep, deposit>>
    BY <1>5 DEF EndEvent, ItemsDone
  <2>2. /\ InboxMoves /\ NoneReceived /\ run'[w].ev = run[w].ev
        /\ \A v \in Runners \ {w} : run'[v] = run[v]
        /\ run'[w].pc = "done" /\ run[w].pc = "handle"
    BY <1>0, <2>1, HandlerMoves
  <2>3. /\ left' \in [Runners -> SUBSET Transfers]
        /\ \A v \in Runners \ {w} : left'[v] = left[v]
        /\ WalkInv' /\ sweep' \in [todo : SUBSET Addresses, page : SUBSET Transfers]
    BY <1>2, <2>1
  <2>4. Good(w)'
    BY <1>0, <2>1, <2>2 DEF Good, Settled, Recorded, chainVars
  <2>5. DepositEffect
    BY <1>0, <2>1, DepositsStay
  <2>6. \A e \in Events : inbox'[e].status # "none" => block[e] # 0
    BY <1>0, <2>2 DEF RunsInv, NoneReceived
  <2> QED
    BY <2>1, <2>2, <2>3, <2>4, <2>5, <2>6, WalkStep DEF Moves
<1>6. ASSUME EventFails(w) PROVE IInv'
  <2>1. PICK t \in left[w] : RecordTransfer(t, t.log) \/ UNCHANGED deposit
    BY <1>6 DEF EventFails, Foremost
  <2>2. HandlerFails(w) /\ left' = [left EXCEPT ![w] = {}] /\ UNCHANGED <<addressVars, chainVars, sweep>>
    BY <1>6 DEF EventFails
  <2>3. DepositEffect
    BY <1>0, <1>1, <2>1, RecordEffect, DepositsStay
  <2>4. /\ left' \in [Runners -> SUBSET Transfers]
        /\ \A v \in Runners \ {w} : left'[v] = left[v]
        /\ WalkInv' /\ sweep' \in [todo : SUBSET Addresses, page : SUBSET Transfers]
    <3>1. PICK items \in SUBSET Transfers : items = {}
      OBVIOUS
    <3>2. left' = [left EXCEPT ![w] = items] /\ \A s \in items : dest[s] # 0
      BY <2>2, <3>1
    <3>3. UNCHANGED <<sweep, chainVars>>
      BY <2>2
    <3> QED
      BY <1>2, <3>2, <3>3
  <2>5. InboxMoves /\ NoneReceived /\ \A v \in Runners : Moves(v)
    BY <1>0, <2>2, RunStepMoves
  <2>6. run'[w].pc = "failed"
    BY <1>0, <2>2, StepGoes DEF HandlerFails
  <2>7. \A e \in Events : inbox'[e].status # "none" => block[e] # 0
    BY <1>0, <2>5 DEF RunsInv, NoneReceived
  <2>8. \A v \in Runners : run'[v].pc = "handle" => left'[v] = left[v]
    BY <2>4, <2>6
  <2> QED
    BY <2>2, <2>3, <2>4, <2>5, <2>7, <2>8, WalkStep
<1> QED
  BY <1>3, <1>4, <1>5, <1>6

\* The sweep walks what is on the chain for an address of the table.
LEMMA SweepKeepsAll ==
  ASSUME IInv, SweepStep \/ SweepFails
  PROVE  IInv'
<1>0. TypeOK /\ TableInv /\ ChainInv /\ WalkInv /\ RunsInv /\ Typed
  BY TypesSplit DEF IInv
<1>1. /\ UNCHANGED <<inbox, run, todo, replays, tries, died>> /\ (Fault \/ UNCHANGED faults)
      /\ UNCHANGED <<addressVars, chainVars, left>>
  BY DEF SweepStep, StartSweep, SweepAddress, SweepItem, SweepFails, inboxVars
<1>2. InboxMoves /\ NoneReceived /\ \A v \in Runners : Moves(v)
  BY <1>0, <1>1, InboxTypes, InboxStays
<1>3. \A e \in Events : inbox'[e].status # "none" => block[e] # 0
  BY <1>0, <1>2 DEF RunsInv, NoneReceived
<1>4. ASSUME DepositEffect, NEW rest \in SUBSET Addresses, NEW page \in SUBSET Transfers,
             sweep'.todo = rest, sweep'.page = page, sweep' = [todo |-> rest, page |-> page],
             \A t \in page : dest[t] # 0
      PROVE  IInv'
  <2>1. sweep' \in [todo : SUBSET Addresses, page : SUBSET Transfers]
    BY <1>4
  <2>2. WalkInv'
    BY <1>0, <1>1, <1>4 DEF WalkInv, chainVars
  <2> QED
    BY <1>0, <1>1, <1>2, <1>3, <1>4, <2>1, <2>2, WalkStep DEF Typed
<1>5. sweep.todo \in SUBSET Addresses /\ sweep.page \in SUBSET Transfers
      /\ sweep = [todo |-> sweep.todo, page |-> sweep.page]
      /\ \A t \in sweep.page : dest[t] # 0
  BY <1>0 DEF Typed, WalkInv
<1>6. ASSUME StartSweep PROVE IInv'
  <2>1. PICK rest \in SUBSET Addresses : rest = {row[u] : u \in Users} \ {0}
    BY <1>0, TableTypes
  <2>2. sweep' = [todo |-> rest, page |-> {}] /\ UNCHANGED deposit
    BY <1>6, <2>1 DEF StartSweep, Resting
  <2> QED
    BY <1>0, <1>4, <2>2, DepositsStay
<1>7. ASSUME SweepAddress PROVE IInv'
  <2>1. PICK a \in sweep.todo : sweep' = [todo |-> sweep.todo \ {a}, page |-> Page(a)]
    BY <1>7 DEF SweepAddress
  <2>2. a # 0
    BY <1>5, <2>1 DEF Addresses
  <2>3. Page(a) \in SUBSET Transfers /\ \A t \in Page(a) : dest[t] # 0
    BY <2>2 DEF Page
  <2>4. UNCHANGED deposit
    BY <1>7 DEF SweepAddress
  <2>5. sweep.todo \ {a} \in SUBSET Addresses
    BY <1>5
  <2> HIDE DEF Page
  <2> QED
    BY <1>0, <1>4, <2>1, <2>3, <2>4, <2>5, DepositsStay
<1>8. ASSUME SweepItem PROVE IInv'
  <2>1. PICK t \in sweep.page : /\ RecordTransfer(t, LogInSweep(t))
                                /\ sweep' = [sweep EXCEPT !.page = sweep.page \ {t}]
    BY <1>8 DEF SweepItem, Foremost
  <2>2. DepositEffect
    BY <1>0, <1>5, <2>1, RecordEffect
  <2>3. sweep' = [todo |-> sweep.todo, page |-> sweep.page \ {t}]
    BY <1>5, <2>1
  <2>4. sweep.page \ {t} \in SUBSET Transfers /\ \A s \in sweep.page \ {t} : dest[s] # 0
    BY <1>5
  <2> QED
    BY <1>4, <1>5, <2>2, <2>3, <2>4
<1>9. ASSUME SweepFails PROVE IInv'
  <2>1. sweep' = [todo |-> sweep.todo, page |-> {}] /\ UNCHANGED deposit
    BY <1>5, <1>9 DEF SweepFails
  <2> QED
    BY <1>0, <1>4, <1>5, <2>1, DepositsStay
<1> QED
  BY <1>6, <1>7, <1>8, <1>9 DEF SweepStep

LEMMA CrashKeepsAll ==
  ASSUME IInv, Crash
  PROVE  IInv'
<1>0. TypeOK /\ TableInv /\ CallInv /\ ChainInv /\ RunsInv /\ ItemsInv /\ Typed
  BY TypesSplit DEF IInv
<1>1. /\ Restart /\ call' = [c \in Calls |-> NoCall] /\ left' = [w \in Runners |-> {}]
      /\ sweep' = [todo |-> {}, page |-> {}]
      /\ UNCHANGED <<row, asks, shown, watched, block, dest, payee, payload, deposit>>
  BY DEF Crash, Resting, chainVars
<1>2. InboxMoves /\ NoneReceived /\ \A v \in Runners : Moves(v)
  BY <1>0, <1>1, JobMoves
<1>3. \A v \in Runners : run'[v].pc = "idle"
  BY <1>1, IdleType DEF Restart
<1>4. TableTyped /\ TableInv' /\ CallInv'
  <2>1. call' \in [Calls -> CallType] /\ \A c \in Calls : call'[c].pc = "idle"
    BY <1>1, NoCallType
  <2>2. TableInv'
    BY <1>0, <1>1, TableKept
  <2> QED
    BY <1>0, <1>1, <2>1, <2>2, TableTypes DEF TableTyped, CallInv
<1>5. Typed'
  BY <1>0, <1>1 DEF Typed
<1>6. TypeOK'
  BY <1>2, <1>4, <1>5, TypesSplit
<1>7. ChainInv' /\ WalkInv'
  BY <1>0, <1>1 DEF ChainInv, KeysInv, PaidTo, WalkInv
<1>8. RunsInv'
  BY <1>0, <1>1, <1>2, RunsKept DEF RunsInv, NoneReceived
<1>9. DepositEffect
  BY <1>0, <1>1, DepositsStay
<1>10. ItemsInv'
  <2>1. ProcessedIsRecorded'
    BY <1>0, <1>1, <1>2, <1>9, ItemsSplit, ProcessedKeeps
  <2> QED
    BY <1>3, <2>1 DEF ItemsInv
<1> QED
  BY <1>4, <1>6, <1>7, <1>8, <1>10 DEF IInv

LEMMA StepInv ==
  ASSUME IInv, [Next]_vars
  PROVE  IInv'
<1>1. CASE UNCHANGED vars
  <2>1. UNCHANGED <<inbox, run, todo, faults, replays, tries, died, row, call, asks, shown, watched,
                    block, dest, payee, payload, left, sweep, deposit>>
    BY <1>1 DEF vars, inboxVars, addressVars, chainVars
  <2>2. TypeOK'
    BY <2>1 DEF IInv, TypeOK, InboxTypeOK
  <2>3. TableInv' /\ Holders' = Holders
    BY <2>1, TableKept DEF IInv
  <2>4. CallInv'
    BY <2>1, <2>3 DEF IInv, CallInv
  <2>5. ChainInv' /\ WalkInv' /\ RunsInv'
    BY <2>1 DEF IInv, ChainInv, KeysInv, PaidTo, WalkInv, RunsInv
  <2>6. ItemsInv'
    BY <2>1 DEF IInv, ItemsInv, ProcessedIsRecorded, Settled, Recorded
  <2> QED
    BY <2>2, <2>3, <2>4, <2>5, <2>6 DEF IInv
<1>2. CASE Next
  BY <1>2, AddressKeepsAll, MineKeeps, DeliverKeeps, HandlerKeepsAll, SweepKeepsAll, CrashKeepsAll,
     InboxKeepsAll DEF Next
<1> QED
  BY <1>1, <1>2

LEMMA InitInv ==
  ASSUME Init
  PROVE  IInv
<1>1. /\ InboxInit
      /\ row = [u \in Users |-> 0] /\ shown = [u \in Users |-> {}] /\ watched = {} /\ asks = 0
      /\ call = [c \in Calls |-> NoCall] /\ sweep = [todo |-> {}, page |-> {}]
      /\ block = [e \in Events |-> 0] /\ dest = [t \in Transfers |-> 0]
      /\ payee = [t \in Transfers |-> NoUser] /\ payload = [e \in Events |-> {}]
      /\ left = [w \in Runners |-> {}] /\ deposit = {}
  BY DEF Init, Resting
<1>2. InboxTypeOK /\ \A w \in Runners : run[w].pc = "idle"
  <2>1. /\ inbox = [e \in Events |-> [status |-> "none", retries |-> 0]]
        /\ run = [w \in Runners |-> Idle] /\ todo = {} /\ faults = 0 /\ replays = 0
        /\ tries = [e \in Events |-> 0] /\ died = {}
    BY <1>1 DEF InboxInit
  <2>2. inbox \in [Events -> [status : EventStatuses, retries : Nat]]
    BY <2>1 DEF EventStatuses
  <2> HIDE DEF Idle
  <2>3. run \in [Runners -> RunType] /\ \A w \in Runners : run[w] = Idle /\ run[w].pc = "idle"
    BY <2>1, IdleType
  <2> QED
    BY <2>1, <2>2, <2>3, InboxAssumption DEF InboxTypeOK
<1>3. call \in [Calls -> CallType] /\ \A c \in Calls : call[c].pc = "idle"
  BY <1>1, NoCallType
<1>4. TypeOK
  BY <1>1, <1>2, <1>3, IntakeAssumption DEF TypeOK, CallType, Steps
<1>5. Holders = {}
  BY <1>1 DEF Holders
<1>6. TableInv
  <2>1. Cardinality(Holders) = 0
    BY <1>5, FS_EmptySet
  <2>2. {row[u] : u \in Holders} = {} /\ 1..Cardinality(Holders) = {}
    BY <1>5, <2>1
  <2> QED
    BY <1>1, <2>2 DEF TableInv
<1>7. CallInv
  BY <1>3 DEF CallInv
<1>8. ChainInv
  <2>1. {e \in Events : block[e] # 0} = {}
    BY <1>1
  <2> QED
    BY <1>1, <2>1, FS_EmptySet DEF ChainInv, KeysInv
<1>9. \A e \in Events : inbox[e].status = "none"
  BY <1>1 DEF InboxInit
<1>10. todo = {}
  BY <1>1 DEF InboxInit
<1>11. WalkInv /\ RunsInv /\ ItemsInv
  BY <1>1, <1>2, <1>9, <1>10 DEF WalkInv, RunsInv, ItemsInv, ProcessedIsRecorded
<1> QED
  BY <1>4, <1>6, <1>7, <1>8, <1>11 DEF IInv

LEMMA Inductive == Spec => []IInv
<1>1. Init => IInv
  BY InitInv
<1>2. IInv /\ [Next]_vars => IInv'
  BY StepInv
<1> QED
  BY <1>1, <1>2, PTL DEF Spec

-----------------------------------------------------------------------------
(* Theorems.                                                               *)

\* Every variable keeps its type; in particular the indices never run past the number of
\* users, although requests take an index before they insert it (getOrCreate).
THEOREM TypeCorrect == Spec => []TypeOK
<1>1. IInv => TypeOK
  BY DEF IInv
<1> QED
  BY <1>1, Inductive, PTL

\* Whoever was shown an address has it alone, and a transfer is credited to the user whose
\* address the sender was given, by one row if the sweep can read its number (getOrCreate,
\* recordTransfer).
THEOREM MoneyGoesToPayeeCorrect == Spec => []MoneyGoesToPayee
<1>1. IInv => MoneyGoesToPayee
  <2> SUFFICES ASSUME IInv PROVE MoneyGoesToPayee
    OBVIOUS
  <2>1. TableInv /\ ChainInv /\ KeysInv
    BY DEF IInv, ChainInv
  <2>2. ASSUME NEW c \in deposit, NEW d \in deposit, c.of = d.of, c.of \notin Unnumbered PROVE c = d
    BY <2>1, <2>2 DEF KeysInv
  <2> QED
    BY <2>1, <2>2 DEF TableInv, ChainInv, MoneyGoesToPayee
<1> QED
  BY <1>1, Inductive, PTL

\* An event that says PROCESSED has left behind no transfer that was stored of it, whatever
\* failed, was tried again, replayed or cut off before (processAlchemy, process).
THEOREM ProcessedIsRecordedCorrect == Spec => []ProcessedIsRecorded
<1>1. IInv => ProcessedIsRecorded
  BY DEF IInv, ItemsInv
<1> QED
  BY <1>1, Inductive, PTL
=============================================================================
