-------------------------- MODULE VerificationProofs --------------------------
(***************************************************************************)
(* Theorems about Inbox and Verification, for any number of events, runs,  *)
(* submissions, replays and faults.                                        *)
(***************************************************************************)
EXTENDS Verification, SequenceTheorems, TLAPS

\* What is under way is about events that were received.
RunsInv ==
  /\ inbox \in [Events -> [status : EventStatuses, retries : Nat]]
  /\ run \in [Runners -> RunType]
  /\ \A w \in Runners : /\ run[w].pc = "idle" <=> run[w] = Idle
                        /\ run[w].pc # "idle" =>
                             run[w].ev \in Events /\ inbox[run[w].ev].status # "none"
  /\ todo \subseteq {e \in Events : inbox[e].status # "none"}
  /\ faults \in 0..MaxFaults /\ replays \in 0..MaxReplays
  /\ tries \in [Events -> Nat]
  /\ died \in SUBSET Events

LEMMA RunsInvTypes == RunsInv => InboxTypeOK
  BY DEF RunsInv, InboxTypeOK

\* How each step of the inbox leaves a run: at its start, at another place, or over.
Starts(w, e, auto) ==
  /\ run'[w].pc = "read" /\ run'[w].ev = e /\ run'[w].auto = auto
  /\ \A v \in Runners \ {w} : run'[v] = run[v]

Goes(w, pc) ==
  /\ run'[w].pc = pc /\ run'[w].ev = run[w].ev /\ run'[w].auto = run[w].auto
  /\ run'[w].seen = run[w].seen
  /\ \A v \in Runners \ {w} : run'[v] = run[v]

Stops(w) == run'[w] = Idle /\ \A v \in Runners \ {w} : run'[v] = run[v]

LEMMA ProcessStarts ==
  ASSUME RunsInv, NEW w \in Runners, NEW e \in Events, NEW auto \in BOOLEAN, Process(w, e, auto)
  PROVE  Starts(w, e, auto) /\ run' \in [Runners -> RunType]
         /\ \A v \in Runners : run'[v].pc = "idle" <=> run'[v] = Idle
<1> DEFINE r == [pc |-> "read", ev |-> e, seen |-> 0, auto |-> auto]
<1>1. r \in RunType
  BY DEF RunType
<1>2. r # Idle /\ r.pc = "read" /\ r.ev = e /\ r.auto = auto
  BY DEF Idle
<1>3. run' = [run EXCEPT ![w] = r]
  BY DEF Process
<1> HIDE DEF r
<1> QED
  BY <1>1, <1>2, <1>3 DEF RunsInv, Starts

LEMMA StepGoes ==
  ASSUME RunsInv, NEW w \in Runners, NEW pc \in {"mark", "handle", "done", "failed"},
         run[w].pc # "idle", Step(w, pc)
  PROVE  Goes(w, pc) /\ run' \in [Runners -> RunType]
         /\ \A v \in Runners : run'[v].pc = "idle" <=> run'[v] = Idle
<1> DEFINE r == [run[w] EXCEPT !.pc = pc]
<1>1. run[w] \in RunType
  BY DEF RunsInv
<1>2. r \in RunType /\ r.pc = pc /\ r.ev = run[w].ev /\ r.auto = run[w].auto /\ r.seen = run[w].seen
  BY <1>1 DEF RunType
<1>3. r # Idle
  BY <1>2 DEF Idle
<1>4. run' = [run EXCEPT ![w] = r]
  BY DEF Step
<1> HIDE DEF r
<1> QED
  BY <1>2, <1>3, <1>4 DEF RunsInv, Goes

LEMMA LeaveStops ==
  ASSUME RunsInv, NEW w \in Runners, Leave(w)
  PROVE  Stops(w) /\ run' \in [Runners -> RunType]
         /\ \A v \in Runners : run'[v].pc = "idle" <=> run'[v] = Idle
<1>1. Idle \in RunType
  BY DEF Idle, RunType
<1> HIDE DEF Idle
<1>2. run' = [run EXCEPT ![w] = Idle]
  BY DEF Leave
<1>3. \A v \in Runners : run'[v] = IF v = w THEN Idle ELSE run[v]
  BY <1>2 DEF RunsInv
<1>4. Idle.pc = "idle"
  BY DEF Idle
<1> QED
  BY <1>1, <1>2, <1>3, <1>4 DEF RunsInv, Stops

-----------------------------------------------------------------------------
\* The steps that the inbox sees.
LEMMA Steps ==
  ASSUME [Next]_vars
  PROVE  \/ \E w \in Workers, e \in Events : Receive(w, e) \/ Replay(w, e)
         \/ \E w \in Runners : \/ ReadEvent(w) \/ Mark(w) \/ Handled(w) \/ HandlerFails(w)
                               \/ WriteProcessed(w) \/ WriteProcessedFails(w)
                               \/ WriteFailed(w) \/ ProcessThrows(w)
         \/ Restart \/ RetryFailed \/ RetryNext
         \/ UNCHANGED <<inbox, run, todo, replays, tries, died>> /\ (Fault \/ UNCHANGED faults)
<1>1. CASE Next
  BY <1>1 DEF Next, Decide, Submit, CreateHolder, ReadHolder, Save, SubmitFails, Deliver,
              BeginEvent, HandleEvent, EventFails, Crash, InboxStep, inboxVars
<1>2. CASE UNCHANGED vars
  BY <1>2 DEF vars, inboxVars
<1> QED
  BY <1>1, <1>2

LEMMA ReadEventEffect ==
  ASSUME RunsInv, NEW w \in Runners, ReadEvent(w)
  PROVE  /\ run[w].pc = "read" /\ UNCHANGED <<inbox, todo, faults, replays, tries, died>>
         /\ run' \in [Runners -> RunType] /\ \A v \in Runners : run'[v].pc = "idle" <=> run'[v] = Idle
         /\ \/ Stops(w)
            \/ /\ run'[w].pc = "mark" /\ run'[w].ev = run[w].ev /\ run'[w].auto = run[w].auto
               /\ run'[w].seen = inbox[run[w].ev].retries
               /\ \A v \in Runners \ {w} : run'[v] = run[v]
<1>1. run[w].pc = "read" /\ UNCHANGED <<inbox, todo, faults, replays, tries, died>>
  BY DEF ReadEvent
<1>2. CASE inbox[run[w].ev].status = "PROCESSED"
  BY <1>1, <1>2, LeaveStops DEF ReadEvent
<1>3. CASE inbox[run[w].ev].status # "PROCESSED"
  <2> DEFINE n == inbox[run[w].ev].retries
             r == [run[w] EXCEPT !.pc = "mark", !.seen = n]
  <2>1. run[w] \in RunType /\ run[w].ev \in Events /\ n \in Nat
    BY <1>1 DEF RunsInv
  <2>2. r \in RunType /\ r.pc = "mark" /\ r.ev = run[w].ev /\ r.auto = run[w].auto /\ r.seen = n
    BY <2>1 DEF RunType
  <2>3. r # Idle
    BY <2>2 DEF Idle
  <2>4. run' = [run EXCEPT ![w] = r]
    BY <1>3 DEF ReadEvent, RunsInv
  <2> HIDE DEF r
  <2> QED
    BY <1>1, <2>2, <2>3, <2>4 DEF RunsInv
<1> QED
  BY <1>2, <1>3

\* What a step writes to the row of one event.
Writes(e, s, n) ==
  /\ inbox'[e].status = s /\ inbox'[e].retries = n
  /\ \A f \in Events \ {e} : inbox'[f] = inbox[f]
  /\ inbox' \in [Events -> [status : EventStatuses, retries : Nat]]

LEMMA RowWritten ==
  ASSUME RunsInv, NEW e \in Events, NEW s \in EventStatuses
  PROVE  /\ inbox' = [inbox EXCEPT ![e].status = s] => Writes(e, s, inbox[e].retries)
         /\ \A n \in Nat : inbox' = [inbox EXCEPT ![e] = [status |-> s, retries |-> n]] => Writes(e, s, n)
<1>1. inbox[e] \in [status : EventStatuses, retries : Nat]
  BY DEF RunsInv
<1>2. ASSUME inbox' = [inbox EXCEPT ![e].status = s] PROVE Writes(e, s, inbox[e].retries)
  <2> DEFINE r == [inbox[e] EXCEPT !.status = s]
  <2>1. r \in [status : EventStatuses, retries : Nat] /\ r.status = s /\ r.retries = inbox[e].retries
    BY <1>1
  <2>2. inbox' = [inbox EXCEPT ![e] = r]
    BY <1>2
  <2> HIDE DEF r
  <2> QED
    BY <2>1, <2>2 DEF RunsInv, Writes
<1>3. ASSUME NEW n \in Nat, inbox' = [inbox EXCEPT ![e] = [status |-> s, retries |-> n]]
      PROVE  Writes(e, s, n)
  <2> DEFINE r == [status |-> s, retries |-> n]
  <2>1. r \in [status : EventStatuses, retries : Nat] /\ r.status = s /\ r.retries = n
    OBVIOUS
  <2>2. inbox' = [inbox EXCEPT ![e] = r]
    BY <1>3
  <2> HIDE DEF r
  <2> QED
    BY <2>1, <2>2 DEF RunsInv, Writes
<1> QED
  BY <1>2, <1>3

-----------------------------------------------------------------------------
\* The types of the runs, for what every step does to them.
RunsTyped ==
  run' \in [Runners -> RunType] /\ \A v \in Runners : run'[v].pc = "idle" <=> run'[v] = Idle

LEMMA MarkEffect ==
  ASSUME RunsInv, NEW w \in Runners, Mark(w)
  PROVE  /\ run[w].pc = "mark" /\ run[w].ev \in Events /\ Goes(w, "handle") /\ RunsTyped
         /\ Writes(run[w].ev, "PROCESSING", inbox[run[w].ev].retries)
         /\ UNCHANGED <<todo, faults, replays, died>>
         /\ tries' \in [Events -> Nat]
         /\ \A e \in Events \ {run[w].ev} : tries'[e] = tries[e]
         /\ tries'[run[w].ev] = IF run[w].auto THEN tries[run[w].ev] + 1 ELSE tries[run[w].ev]
<1>1. run[w].pc = "mark" /\ run[w].ev \in Events
  BY DEF Mark, RunsInv
<1>2. Goes(w, "handle") /\ RunsTyped
  BY <1>1, StepGoes DEF Mark, RunsTyped
<1>3. Writes(run[w].ev, "PROCESSING", inbox[run[w].ev].retries)
  BY <1>1, RowWritten DEF Mark, EventStatuses
<1>4. tries' = IF run[w].auto THEN [tries EXCEPT ![run[w].ev] = tries[run[w].ev] + 1] ELSE tries
  BY DEF Mark
<1>5. UNCHANGED <<todo, faults, replays, died>>
  BY DEF Mark
<1> QED
  BY <1>1, <1>2, <1>3, <1>4, <1>5 DEF RunsInv

LEMMA HandlerEffect ==
  ASSUME RunsInv, NEW w \in Runners, Handled(w) \/ HandlerFails(w) \/ WriteProcessedFails(w)
  PROVE  /\ run[w].pc \in {"handle", "done"} /\ RunsTyped
         /\ Goes(w, "done") \/ Goes(w, "failed")
         /\ UNCHANGED <<inbox, todo, replays, tries, died>> /\ (Fault \/ UNCHANGED faults)
  BY StepGoes DEF Handled, HandlerFails, WriteProcessedFails, RunsTyped

LEMMA EndEffect ==
  ASSUME RunsInv, NEW w \in Runners, WriteProcessed(w) \/ WriteFailed(w)
  PROVE  /\ run[w].ev \in Events /\ Stops(w) /\ RunsTyped
         /\ UNCHANGED <<todo, faults, replays, tries, died>>
         /\ \/ run[w].pc = "done" /\ Writes(run[w].ev, "PROCESSED", inbox[run[w].ev].retries)
            \/ run[w].pc = "failed"
               /\ Writes(run[w].ev, AfterFailure(run[w].seen + 1), run[w].seen + 1)
<1>1. run[w].ev \in Events /\ run[w].seen + 1 \in Nat
  BY DEF WriteProcessed, WriteFailed, RunsInv, RunType
<1>2. AfterFailure(run[w].seen + 1) \in EventStatuses /\ "PROCESSED" \in EventStatuses
  BY DEF AfterFailure, EventStatuses
<1>3. Stops(w) /\ RunsTyped
  BY LeaveStops DEF WriteProcessed, WriteFailed, RunsTyped
<1>4. CASE WriteProcessed(w)
  BY <1>1, <1>2, <1>3, <1>4, RowWritten DEF WriteProcessed
<1>5. CASE WriteFailed(w)
  <2>1. inbox' = [inbox EXCEPT ![run[w].ev] = [status |-> AfterFailure(run[w].seen + 1),
                                               retries |-> run[w].seen + 1]]
    BY <1>5 DEF WriteFailed
  <2> HIDE DEF AfterFailure
  <2> QED
    BY <1>1, <1>2, <1>3, <1>5, <2>1, RowWritten DEF WriteFailed
<1> QED
  BY <1>4, <1>5

LEMMA ReceiveEffect ==
  ASSUME RunsInv, NEW w \in Workers, NEW e \in Events
  PROVE  /\ Receive(w, e) => /\ inbox[e].status = "none" /\ Starts(w, e, TRUE) /\ RunsTyped
                             /\ Writes(e, "RECEIVED", inbox[e].retries)
                             /\ UNCHANGED <<todo, faults, replays, tries, died>>
         /\ Replay(w, e) => /\ inbox[e].status # "none" /\ Starts(w, e, FALSE) /\ RunsTyped
                            /\ Writes(e, "RECEIVED", inbox[e].retries)
                            /\ UNCHANGED <<todo, faults, tries, died>>
                            /\ replays' = replays + 1 /\ replays < MaxReplays
<1>1. w \in Runners /\ "RECEIVED" \in EventStatuses
  BY DEF Runners, EventStatuses
<1>2. ASSUME Receive(w, e) PROVE Starts(w, e, TRUE) /\ RunsTyped /\ Writes(e, "RECEIVED", inbox[e].retries)
  BY <1>1, <1>2, ProcessStarts, RowWritten DEF Receive, RunsTyped
<1>3. ASSUME Replay(w, e) PROVE Starts(w, e, FALSE) /\ RunsTyped /\ Writes(e, "RECEIVED", inbox[e].retries)
  BY <1>1, <1>3, ProcessStarts, RowWritten DEF Replay, RunsTyped
<1> QED
  BY <1>2, <1>3 DEF Receive, Replay

LEMMA ThrowEffect ==
  ASSUME RunsInv, NEW w \in Runners, ProcessThrows(w)
  PROVE  /\ run[w].pc \in {"read", "mark", "failed"} /\ Stops(w) /\ RunsTyped /\ Fault
         /\ todo' \subseteq todo /\ died' \in SUBSET Events
         /\ UNCHANGED <<inbox, replays, tries>>
  BY LeaveStops DEF ProcessThrows, RunsTyped, RunsInv

LEMMA RestartEffect ==
  ASSUME RunsInv, Restart
  PROVE  /\ \A w \in Runners : run'[w] = Idle
         /\ RunsTyped /\ Fault /\ todo' = {} /\ died' \in SUBSET Events
         /\ UNCHANGED <<inbox, replays, tries>>
<1>1. Idle \in RunType /\ Idle.pc = "idle"
  BY DEF Idle, RunType
<1> HIDE DEF Idle
<1>2. run' = [w \in Runners |-> Idle]
  BY DEF Restart
<1>3. {run[w].ev : w \in {v \in Runners : run[v] # Idle}} \subseteq Events
  BY DEF RunsInv
<1> QED
  BY <1>1, <1>2, <1>3 DEF Restart, RunsTyped, RunsInv

LEMMA RetryEffect ==
  ASSUME RunsInv
  PROVE  /\ RetryFailed => /\ run[Job] = Idle /\ todo = {} /\ todo' = {e \in Events : Retryable(e)}
                           /\ UNCHANGED <<inbox, run, faults, replays, tries, died>>
         /\ RetryNext => /\ run[Job] = Idle /\ UNCHANGED <<inbox, faults, replays, tries, died>>
                         /\ \E e \in todo : /\ e \in Events /\ todo' = todo \ {e}
                                            /\ Starts(Job, e, TRUE) /\ RunsTyped
<1>1. Job \in Runners
  BY DEF Runners
<1>2. ASSUME RetryNext PROVE \E e \in todo : /\ e \in Events /\ todo' = todo \ {e}
                                            /\ Starts(Job, e, TRUE) /\ RunsTyped
  <2>1. PICK e \in todo : Process(Job, e, TRUE) /\ todo' = todo \ {e}
    BY <1>2 DEF RetryNext
  <2>2. e \in Events
    BY DEF RunsInv
  <2> QED
    BY <1>1, <2>1, <2>2, ProcessStarts DEF RunsTyped
<1> QED
  BY <1>2 DEF RetryFailed, RetryNext

LEMMA RunsKept ==
  ASSUME RunsInv, RunsTyped, NEW w \in Runners, \A v \in Runners \ {w} : run'[v] = run[v],
         run'[w].pc # "idle" => run'[w].ev \in Events /\ inbox'[run'[w].ev].status # "none",
         inbox' \in [Events -> [status : EventStatuses, retries : Nat]],
         \A e \in Events : inbox[e].status # "none" => inbox'[e].status # "none",
         todo' \subseteq todo, Fault \/ UNCHANGED faults, replays' \in 0..MaxReplays,
         tries' \in [Events -> Nat], died' \in SUBSET Events
  PROVE  RunsInv'
<1>1. \A v \in Runners : run'[v].pc # "idle" => run'[v].ev \in Events /\ inbox'[run'[v].ev].status # "none"
  BY DEF RunsInv
<1>2. \A e \in todo' : e \in Events /\ inbox'[e].status # "none"
  BY DEF RunsInv
<1>3. faults' \in 0..MaxFaults
  BY InboxAssumption DEF Fault, RunsInv
<1> QED
  BY <1>1, <1>2, <1>3 DEF RunsInv, RunsTyped

LEMMA RunsStep ==
  ASSUME RunsInv, [Next]_vars
  PROVE  RunsInv'
<1>0. /\ inbox \in [Events -> [status : EventStatuses, retries : Nat]] /\ replays \in 0..MaxReplays
      /\ tries \in [Events -> Nat] /\ died \in SUBSET Events
  BY DEF RunsInv
<1>1. ASSUME NEW w \in Workers, NEW e \in Events, Receive(w, e) \/ Replay(w, e) PROVE RunsInv'
  <2>1. w \in Runners /\ RunsTyped /\ Writes(e, "RECEIVED", inbox[e].retries)
        /\ UNCHANGED <<todo, faults, tries, died>>
    BY <1>1, ReceiveEffect DEF Runners
  <2>2. run'[w].ev = e /\ \A v \in Runners \ {w} : run'[v] = run[v]
    BY <1>1, ReceiveEffect DEF Starts
  <2>3. replays' \in 0..MaxReplays
    <3>1. replays' = replays \/ (replays' = replays + 1 /\ replays < MaxReplays)
      BY <1>1, ReceiveEffect
    <3> QED
      BY <1>0, <3>1, InboxAssumption
  <2> QED
    BY <1>0, <2>1, <2>2, <2>3, RunsKept DEF Writes
<1>2. ASSUME NEW w \in Runners, ReadEvent(w) PROVE RunsInv'
  <2>1. /\ UNCHANGED <<inbox, todo, faults, replays, tries, died>> /\ RunsTyped
        /\ run[w].pc # "idle" /\ (run'[w].pc # "idle" => run'[w].ev = run[w].ev)
        /\ \A v \in Runners \ {w} : run'[v] = run[v]
    BY <1>2, ReadEventEffect DEF Stops, Idle, RunsTyped
  <2>2. run[w].ev \in Events /\ inbox[run[w].ev].status # "none"
    BY <2>1 DEF RunsInv
  <2> QED
    BY <1>0, <2>1, <2>2, RunsKept
<1>3. ASSUME NEW w \in Runners, Mark(w) PROVE RunsInv'
  BY <1>0, <1>3, MarkEffect, RunsKept DEF Writes, Goes
<1>5. ASSUME NEW w \in Runners, Handled(w) \/ HandlerFails(w) \/ WriteProcessedFails(w) PROVE RunsInv'
  <2>1. run[w].ev \in Events /\ inbox[run[w].ev].status # "none"
    BY <1>5, HandlerEffect DEF RunsInv
  <2> QED
    BY <1>0, <1>5, <2>1, HandlerEffect, RunsKept DEF Goes
<1>6. ASSUME NEW w \in Runners, WriteProcessed(w) \/ WriteFailed(w) PROVE RunsInv'
  <2>1. PICK s \in EventStatuses \ {"none"}, n \in Nat : Writes(run[w].ev, s, n)
    BY <1>6, EndEffect DEF AfterFailure, EventStatuses, RunsInv, RunType
  <2> QED
    BY <1>0, <1>6, <2>1, EndEffect, RunsKept DEF Writes, Stops, Idle
<1>7. ASSUME NEW w \in Runners, ProcessThrows(w) PROVE RunsInv'
  BY <1>0, <1>7, ThrowEffect, RunsKept DEF Stops, Idle
<1>8. CASE Restart
  <2>1. \A w \in Runners : run'[w].pc = "idle"
    BY <1>8, RestartEffect DEF Idle
  <2> QED
    BY <1>8, <2>1, RestartEffect, InboxAssumption DEF RunsInv, RunsTyped, Fault
<1>9. CASE RetryFailed
  <2>1. UNCHANGED <<inbox, run, faults, replays, tries, died>> /\ todo' = {e \in Events : Retryable(e)}
    BY <1>9, RetryEffect
  <2>2. todo' \subseteq {e \in Events : inbox'[e].status # "none"}
    BY <2>1 DEF Retryable
  <2> QED
    BY <2>1, <2>2 DEF RunsInv
<1>10. CASE RetryNext
  <2>1. PICK e \in todo : e \in Events /\ todo' = todo \ {e} /\ Starts(Job, e, TRUE) /\ RunsTyped
    BY <1>10, RetryEffect
  <2>2. inbox[e].status # "none" /\ Job \in Runners
    BY DEF RunsInv, Runners
  <2>3. UNCHANGED <<inbox, faults, replays, tries, died>>
    BY <1>10, RetryEffect
  <2> QED
    BY <1>0, <2>1, <2>2, <2>3, RunsKept DEF Starts
<1>11. CASE UNCHANGED <<inbox, run, todo, replays, tries, died>> /\ (Fault \/ UNCHANGED faults)
  BY <1>11, InboxAssumption DEF RunsInv, Fault
<1> QED
  BY Steps, <1>1, <1>2, <1>3, <1>5, <1>6, <1>7, <1>8, <1>9, <1>10, <1>11

-----------------------------------------------------------------------------
(* How often an event is attempted.                                        *)

\* Before any replay: what one run is at, and that no other run or retry has its event.
RunInv(w) ==
  LET e == run[w].ev IN
  run[w].pc # "idle" =>
    /\ run[w].auto /\ e \notin todo
    /\ run[w].pc \in {"read", "mark"} => inbox[e].status = IF w = Job THEN "FAILED" ELSE "RECEIVED"
    /\ run[w].pc = "mark" => run[w].seen = inbox[e].retries
    /\ run[w].pc \in {"handle", "done", "failed"} => inbox[e].status = "PROCESSING" /\ tries[e] = run[w].seen + 1
    /\ \A v \in Runners : (run[v].pc # "idle" /\ run[v].ev = e) => v = w

\* An event that may still be attempted was attempted as often as its row says.
TriesInv(e) ==
  /\ tries[e] <= MaxAttempts
  /\ inbox[e].status \in {"none", "RECEIVED", "FAILED"} => tries[e] = inbox[e].retries /\ tries[e] < MaxAttempts

CountInv ==
  replays = 0 => /\ \A w \in Runners : RunInv(w)
                 /\ \A e \in Events : TriesInv(e)
                 /\ \A e \in todo : inbox[e].status = "FAILED"

LEMMA CountStep ==
  ASSUME RunsInv, CountInv, [Next]_vars
  PROVE  CountInv'
<1> SUFFICES ASSUME replays' = 0 PROVE CountInv'
  BY DEF CountInv
<1>0. /\ inbox \in [Events -> [status : EventStatuses, retries : Nat]] /\ replays \in Nat
      /\ tries \in [Events -> Nat] /\ MaxAttempts \in Nat \ {0}
      /\ \A w \in Runners : /\ run[w].pc # "idle" => run[w].ev \in Events /\ inbox[run[w].ev].status # "none"
                            /\ run[w].seen \in Nat
      /\ todo \subseteq Events
  BY InboxAssumption DEF RunsInv, RunType
<1>1. ASSUME NEW w \in Workers, NEW e \in Events, Receive(w, e) PROVE CountInv'
  <2>1. w \in Runners /\ w # Job
    BY InboxAssumption DEF Runners
  <2>2. inbox[e].status = "none" /\ Starts(w, e, TRUE) /\ Writes(e, "RECEIVED", inbox[e].retries)
        /\ UNCHANGED <<todo, faults, replays, tries, died>>
    BY <1>1, ReceiveEffect
  <2>3. \A v \in Runners : run[v].pc # "idle" => run[v].ev # e
    BY <1>0, <2>2
  <2>4. \A v \in Runners : RunInv(v)'
    BY <1>0, <2>1, <2>2, <2>3, SMTT(30) DEF CountInv, RunInv, Starts, Writes
  <2>5. \A f \in Events : TriesInv(f)'
    BY <2>2 DEF CountInv, TriesInv, Writes
  <2>6. \A f \in todo' : inbox'[f].status = "FAILED"
    BY <1>0, <2>2 DEF CountInv, Writes
  <2> QED
    BY <2>4, <2>5, <2>6 DEF CountInv
<1>2. ASSUME NEW w \in Runners, ReadEvent(w) PROVE CountInv'
  <2>1. UNCHANGED <<inbox, todo, faults, replays, tries, died>> /\ run[w].pc = "read"
    BY <1>2, ReadEventEffect
  <2>2. \A v \in Runners : RunInv(v)'
    BY <1>2, <2>1, ReadEventEffect DEF CountInv, RunInv, Stops, Idle
  <2> QED
    BY <2>1, <2>2 DEF CountInv, TriesInv
<1>3. ASSUME NEW w \in Runners, Mark(w) PROVE CountInv'
  <2>0. PICK e \in Events : e = run[w].ev
    BY <1>3, MarkEffect
  <2>1. e \in Events /\ run[w].pc = "mark" /\ UNCHANGED <<todo, replays>> /\ Goes(w, "handle")
        /\ Writes(e, "PROCESSING", inbox[e].retries)
    BY <1>3, <2>0, MarkEffect
  <2>2. run[w].auto /\ run[w].seen = inbox[e].retries /\ inbox[e].status \in {"FAILED", "RECEIVED"}
        /\ e \notin todo /\ \A v \in Runners \ {w} : run[v].pc # "idle" => run[v].ev # e
    BY <2>0, <2>1 DEF CountInv, RunInv
  <2>3. tries'[e] = tries[e] + 1 /\ \A f \in Events \ {e} : tries'[f] = tries[f]
    BY <1>3, <2>0, <2>2, MarkEffect
  <2>4. tries[e] = inbox[e].retries /\ tries[e] < MaxAttempts
    BY <2>1, <2>2 DEF CountInv, TriesInv
  <2>5. \A v \in Runners \ {w} : RunInv(v)'
    BY <1>0, <2>1, <2>2, <2>3 DEF CountInv, RunInv, Goes, Writes
  <2>6. RunInv(w)'
    BY <1>0, <2>0, <2>1, <2>2, <2>3, <2>4 DEF RunInv, Goes, Writes
  <2>7. \A f \in Events : TriesInv(f)'
    BY <1>0, <2>1, <2>3, <2>4 DEF CountInv, TriesInv, Writes
  <2>8. \A f \in todo' : inbox'[f].status = "FAILED"
    BY <1>0, <2>1, <2>2 DEF CountInv, Writes
  <2> QED
    BY <2>5, <2>6, <2>7, <2>8 DEF CountInv
<1>4. ASSUME NEW w \in Workers, NEW e \in Events, Replay(w, e) PROVE CountInv'
  <2>1. replays' = replays + 1
    BY <1>4, ReceiveEffect
  <2> QED
    BY <1>0, <2>1
<1>5. ASSUME NEW w \in Runners, Handled(w) \/ HandlerFails(w) \/ WriteProcessedFails(w) PROVE CountInv'
  <2>1. run[w].pc \in {"handle", "done"} /\ UNCHANGED <<inbox, todo, replays, tries>>
        /\ (Goes(w, "done") \/ Goes(w, "failed"))
    BY <1>5, HandlerEffect
  <2>2. \A v \in Runners : RunInv(v)'
    BY <2>1 DEF CountInv, RunInv, Goes
  <2> QED
    BY <2>1, <2>2 DEF CountInv, TriesInv
<1>6. ASSUME NEW w \in Runners, WriteProcessed(w) \/ WriteFailed(w) PROVE CountInv'
  <2>0. PICK e \in Events, n \in Nat : e = run[w].ev /\ n = run[w].seen + 1
    BY <1>0, <1>6, EndEffect
  <2>1. e \in Events /\ Stops(w) /\ UNCHANGED <<todo, replays, tries>>
        /\ \/ run[w].pc = "done" /\ Writes(e, "PROCESSED", inbox[e].retries)
           \/ run[w].pc = "failed" /\ Writes(e, AfterFailure(n), n)
    BY <1>6, <2>0, EndEffect
  <2>2. inbox[e].status = "PROCESSING" /\ tries[e] = n
        /\ e \notin todo /\ \A v \in Runners \ {w} : run[v].pc # "idle" => run[v].ev # e
    BY <2>0, <2>1 DEF CountInv, RunInv
  <2>3. \A v \in Runners : RunInv(v)'
    <3>1. RunInv(w)'
      BY <2>1 DEF RunInv, Stops, Idle
    <3>2. ASSUME NEW v \in Runners \ {w} PROVE RunInv(v)'
      <4>1. run'[v] = run[v] /\ RunInv(v) /\ (run[v].pc # "idle" => run[v].ev # e /\ run[v].ev \in Events)
        BY <1>0, <2>1, <2>2 DEF CountInv, Stops
      <4>2. run[v].pc # "idle" => inbox'[run[v].ev] = inbox[run[v].ev]
        BY <2>1, <4>1 DEF Writes
      <4>3. run'[w].pc = "idle"
        BY <2>1 DEF Stops, Idle
      <4> QED
        BY <2>1, <4>1, <4>2, <4>3 DEF RunInv, Stops
    <3> QED
      BY <3>1, <3>2
  <2>4. TriesInv(e)'
    <3>1. tries[e] <= MaxAttempts /\ tries[e] \in Nat
      BY <1>0, <2>1 DEF CountInv, TriesInv
    <3>2. n < MaxAttempts \/ AfterFailure(n) = "DEAD_LETTER"
      BY <1>0, <2>2, <3>1 DEF AfterFailure
    <3>3. CASE run[w].pc = "done"
      BY <2>1, <3>1, <3>3 DEF TriesInv, Writes
    <3>4. CASE run[w].pc = "failed"
      <4>1. inbox'[e].status = AfterFailure(n) /\ inbox'[e].retries = n
        BY <2>1, <3>4 DEF Writes
      <4>2. tries'[e] = n
        BY <2>1, <2>2
      <4> HIDE DEF AfterFailure
      <4> QED
        BY <2>2, <3>1, <3>2, <4>1, <4>2 DEF TriesInv
    <3> QED
      BY <2>1, <3>3, <3>4
  <2>5. \A f \in Events \ {e} : TriesInv(f)'
    BY <2>1 DEF CountInv, TriesInv, Writes
  <2>6. \A f \in todo' : inbox'[f].status = "FAILED"
    BY <1>0, <2>1, <2>2 DEF CountInv, Writes
  <2>7. \A f \in Events : TriesInv(f)'
    BY <2>4, <2>5
  <2> QED
    BY <2>3, <2>6, <2>7 DEF CountInv
<1>7. ASSUME NEW w \in Runners, ProcessThrows(w) PROVE CountInv'
  <2>1. Stops(w) /\ todo' \subseteq todo /\ UNCHANGED <<inbox, replays, tries>>
    BY <1>7, ThrowEffect
  <2>2. \A v \in Runners : RunInv(v)'
    BY <2>1 DEF CountInv, RunInv, Stops, Idle
  <2> QED
    BY <2>1, <2>2 DEF CountInv, TriesInv
<1>8. CASE Restart
  <2>1. (\A v \in Runners : run'[v].pc = "idle") /\ todo' = {} /\ UNCHANGED <<inbox, replays, tries>>
    BY <1>8, RestartEffect DEF Idle
  <2> QED
    BY <2>1 DEF CountInv, RunInv, TriesInv
<1>9. CASE RetryFailed
  <2>1. run[Job].pc = "idle" /\ todo' = {e \in Events : Retryable(e)} /\ UNCHANGED <<inbox, run, replays, tries>>
    BY <1>9, RetryEffect DEF Idle
  <2>2. ASSUME NEW v \in Runners, run[v].pc # "idle" PROVE run[v].ev \notin todo'
    <3>1. v # Job /\ RunInv(v)
      BY <2>1, <2>2 DEF CountInv
    <3>2. inbox[run[v].ev].status # "FAILED"
      BY <1>0, <2>2, <3>1 DEF RunInv, RunsInv, RunType
    <3> QED
      BY <2>1, <3>2 DEF Retryable
  <2>3. \A v \in Runners : RunInv(v)'
    BY <2>1, <2>2 DEF CountInv, RunInv
  <2> QED
    BY <2>1, <2>3 DEF CountInv, TriesInv, Retryable
<1>10. CASE RetryNext
  <2>1. PICK e \in todo : e \in Events /\ todo' = todo \ {e} /\ Starts(Job, e, TRUE)
    BY <1>10, RetryEffect
  <2>2. UNCHANGED <<inbox, replays, tries>> /\ Job \in Runners
    BY <1>10, RetryEffect DEF Runners
  <2>3. inbox[e].status = "FAILED" /\ \A v \in Runners : run[v].pc # "idle" => run[v].ev # e
    BY <2>2 DEF CountInv, RunInv
  <2>4. RunInv(Job)'
    BY <2>1, <2>2, <2>3 DEF RunInv, Starts
  <2>5. \A v \in Runners \ {Job} : RunInv(v)'
    BY <2>1, <2>2, <2>3 DEF CountInv, RunInv, Starts
  <2> QED
    BY <2>1, <2>2, <2>4, <2>5 DEF CountInv, TriesInv
<1>11. CASE UNCHANGED <<inbox, run, todo, replays, tries, died>>
  BY <1>11 DEF CountInv, RunInv, TriesInv
<1> HIDE DEF CountInv
<1> QED
  BY Steps, <1>1, <1>2, <1>3, <1>4, <1>5, <1>6, <1>7, <1>8, <1>9, <1>10, <1>11

-----------------------------------------------------------------------------
(* What the row of the account holder shows.                               *)

SubmitType == [pc : {"idle", "create", "reread", "save"}, told : Nat]

KycInv ==
  /\ verdicts \in Seq(Decisions) /\ Len(verdicts) \in Events \cup {0, 1}
  /\ holder \in 0..Len(verdicts)
  /\ submit \in [Calls -> SubmitType] /\ \A c \in Calls : submit[c].told <= Len(verdicts)
  /\ submits \in 0..MaxSubmits
  /\ missed \in SUBSET Events /\ overtaken \subseteq 1..Len(verdicts)
  /\ \A k \in Events : inbox[k].status # "none" => k <= Len(verdicts)

Reached(k) == holder >= k \/ k \in missed \/ k \in overtaken

\* The handler of an event ends with its decision in the row or set apart, and no write of
\* the row leaves a decision behind without setting it apart.
ReachedInv ==
  /\ \A k \in Events : inbox[k].status = "PROCESSED" => Reached(k)
  /\ \A w \in Runners : run[w].pc = "done" => Reached(run[w].ev)

LEMMA Types == RunsInv /\ KycInv => TypeOK
<1> SUFFICES ASSUME RunsInv, KycInv PROVE TypeOK
  OBVIOUS
<1>1. submit \in [Calls -> [pc : {"idle", "create", "reread", "save"}, told : 0..Len(verdicts)]]
  BY DEF KycInv, SubmitType
<1> QED
  BY <1>1, RunsInvTypes DEF KycInv, TypeOK

\* What a step does to the row: whatever it leaves behind is set apart.
RowKept ==
  /\ holder' \in Nat
  /\ missed' \in SUBSET Events /\ overtaken' \subseteq 1..Len(verdicts)
  /\ \A k \in Events : Reached(k) => Reached(k)'

LEMMA RowAlone ==
  ASSUME KycInv, UNCHANGED <<holder, missed, overtaken>>
  PROVE  RowKept
  BY DEF KycInv, RowKept, Reached

LEMMA ShowsKeeps ==
  ASSUME KycInv, NEW k \in Nat, k <= Len(verdicts), Shows(k)
  PROVE  holder' = k /\ RowKept
<1>1. /\ holder \in Nat /\ holder <= Len(verdicts) /\ Len(verdicts) \in Nat
      /\ missed \in SUBSET Events /\ overtaken \subseteq 1..Len(verdicts) /\ Events \subseteq Nat \ {0}
  BY VerificationAssumption DEF KycInv
<1>2. holder' = k /\ missed' = missed \ 1..k
  BY DEF Shows
<1>3. CASE k < holder
  <2>1. overtaken' = overtaken \cup (k + 1)..holder
    BY <1>3 DEF Shows
  <2>2. overtaken' \subseteq 1..Len(verdicts)
    BY <1>1, <2>1
  <2>3. ASSUME NEW e \in Events, Reached(e) PROVE Reached(e)'
    BY <1>1, <1>2, <2>1, <2>3 DEF Reached
  <2> QED
    BY <1>1, <1>2, <2>2, <2>3 DEF RowKept
<1>4. CASE ~(k < holder)
  <2>1. overtaken' = overtaken \ 1..k
    BY <1>4 DEF Shows
  <2>2. overtaken' \subseteq 1..Len(verdicts)
    BY <1>1, <2>1
  <2>3. ASSUME NEW e \in Events, Reached(e) PROVE Reached(e)'
    BY <1>1, <1>2, <1>4, <2>1, <2>3 DEF Reached
  <2> QED
    BY <1>1, <1>2, <2>2, <2>3 DEF RowKept
<1> QED
  BY <1>2, <1>3, <1>4

\* The steps that the issuer, the submissions and the row see.
LEMMA KycSteps ==
  ASSUME [Next]_vars
  PROVE  \/ Decide
         \/ \E c \in Calls : Submit(c) \/ CreateHolder(c) \/ ReadHolder(c) \/ Save(c) \/ SubmitFails(c)
         \/ \E w \in Runners : HandleEvent(w) \/ EventFails(w)
         \/ Crash
         \/ UNCHANGED kycVars
<1>1. CASE Next
  BY <1>1 DEF Next, Deliver, BeginEvent
<1>2. CASE UNCHANGED vars
  BY <1>2 DEF vars
<1> QED
  BY <1>1, <1>2

\* Handling an event writes its decision, or sets it apart.
LEMMA ApplyEffect ==
  ASSUME RunsInv, KycInv, NEW w \in Runners, ApplyProviderUpdate(w)
  PROVE  /\ run[w].pc = "handle" /\ run[w].ev \in Events /\ RowKept
         /\ holder' <= Len(verdicts)
         /\ UNCHANGED <<verdicts, submit, submits>>
         /\ run[w].ev \in missed' \/ holder' = run[w].ev
<1>1. PICK k \in Events : k = run[w].ev /\ k \in Nat /\ k <= Len(verdicts)
  BY VerificationAssumption DEF ApplyProviderUpdate, RunsInv, KycInv
<1>2. holder \in Nat /\ holder <= Len(verdicts) /\ missed \in SUBSET Events
  BY DEF KycInv
<1>3. run[w].pc = "handle" /\ UNCHANGED <<verdicts, submit, submits>>
  BY DEF ApplyProviderUpdate
<1>4. CASE ~Applies(k)
  <2>1. UNCHANGED <<holder, overtaken>> /\ missed' = missed \cup {k}
    BY <1>1, <1>4 DEF ApplyProviderUpdate, Applies
  <2>2. RowKept
    BY <1>1, <1>2, <2>1 DEF RowKept, Reached, KycInv
  <2> QED
    BY <1>1, <1>2, <1>3, <2>1, <2>2
<1>5. CASE Applies(k)
  <2>1. Shows(k)
    BY <1>1, <1>5 DEF ApplyProviderUpdate
  <2> QED
    BY <1>1, <1>3, <2>1, ShowsKeeps
<1> QED
  BY <1>4, <1>5

LEMMA RowStep ==
  ASSUME RunsInv, KycInv, [Next]_vars
  PROVE  RowKept /\ (holder' <= Len(verdicts) \/ \E c \in Calls : Save(c))
<1>0. holder \in Nat /\ holder <= Len(verdicts)
  BY DEF KycInv
<1>1. ASSUME NEW c \in Calls, Save(c) PROVE RowKept
  <2>1. submit[c].told \in Nat /\ submit[c].told <= Len(verdicts)
    BY DEF KycInv, SubmitType
  <2> QED
    BY <1>1, <2>1, ShowsKeeps DEF Save
<1>2. ASSUME NEW w \in Runners, HandleEvent(w) \/ EventFails(w)
      PROVE  RowKept /\ holder' <= Len(verdicts)
  <2>1. CASE ApplyProviderUpdate(w)
    BY <2>1, ApplyEffect
  <2>2. CASE UNCHANGED kycVars
    BY <1>0, <2>2, RowAlone DEF kycVars
  <2> QED
    BY <1>2, <2>1, <2>2 DEF HandleEvent, EventFails
<1>3. ASSUME NEW c \in Calls, Submit(c) \/ CreateHolder(c) \/ ReadHolder(c) \/ SubmitFails(c)
      PROVE  UNCHANGED <<holder, missed, overtaken>>
  BY <1>3 DEF Submit, CreateHolder, ReadHolder, SubmitFails
<1>4. CASE UNCHANGED <<holder, missed, overtaken>>
  BY <1>0, <1>4, RowAlone
<1>5. Decide \/ Crash \/ UNCHANGED kycVars => UNCHANGED <<holder, missed, overtaken>>
  BY DEF Decide, Crash, kycVars
<1> QED
  BY <1>0, <1>1, <1>2, <1>3, <1>4, <1>5, KycSteps

\* The issuer's decisions only grow.
LEMMA VerdictsStep ==
  ASSUME KycInv, [Next]_vars
  PROVE  /\ verdicts' \in Seq(Decisions) /\ Len(verdicts') \in Events \cup {0, 1}
         /\ Len(verdicts) <= Len(verdicts')
<1>0. verdicts \in Seq(Decisions) /\ Len(verdicts) \in Events \cup {0, 1} /\ Len(verdicts) \in Nat
  BY DEF KycInv
<1>1. CASE Decide
  <2>1. PICK d \in Decisions : verdicts' = Append(verdicts, d)
    BY <1>1 DEF Decide
  <2>2. Len(verdicts) + 1 \in Events
    BY <1>1 DEF Decide
  <2>3. verdicts' \in Seq(Decisions) /\ Len(verdicts') = Len(verdicts) + 1
    BY <1>0, <2>1
  <2> QED
    BY <1>0, <2>2, <2>3
<1>2. ASSUME NEW c \in Calls, CreateHolder(c)
      PROVE  verdicts' = verdicts \/ (verdicts = <<>> /\ verdicts' \in Seq(Decisions) /\ Len(verdicts') = 1)
  <2>1. verdicts = <<>> => \E d \in Decisions : verdicts' = <<d>>
    BY <1>2 DEF CreateHolder
  <2>2. verdicts # <<>> => verdicts' = verdicts
    BY <1>2 DEF CreateHolder
  <2>3. \A d \in Decisions : <<d>> \in Seq(Decisions) /\ Len(<<d>>) = 1
    OBVIOUS
  <2> QED
    BY <2>1, <2>2, <2>3
<1>3. (\E c \in Calls : CreateHolder(c)) \/ Decide \/ UNCHANGED verdicts
  BY KycSteps DEF Submit, ReadHolder, Save, SubmitFails, Crash, HandleEvent, EventFails, ApplyProviderUpdate, kycVars
<1>4. CASE \E c \in Calls : CreateHolder(c)
  BY <1>0, <1>2, <1>4
<1> QED
  BY <1>0, <1>1, <1>3, <1>4

\* An event is received only when its decision was taken.
LEMMA ReceivedStep ==
  ASSUME RunsInv, KycInv, [Next]_vars, NEW k \in Events, inbox'[k].status # "none"
  PROVE  k <= Len(verdicts)
<1>1. CASE \E w \in Workers, e \in Events : Deliver(w, e)
  <2>1. PICK w \in Workers, e \in Events : Deliver(w, e)
    BY <1>1
  <2>2. e <= Len(verdicts) /\ Writes(e, "RECEIVED", inbox[e].retries)
    BY <2>1, ReceiveEffect DEF Deliver
  <2> QED
    BY <2>2 DEF Writes, KycInv
<1>2. CASE ~\E w \in Workers, e \in Events : Deliver(w, e)
  <2>1. inbox[k].status # "none"
    <3>1. \/ \E w \in Workers, e \in Events : Replay(w, e)
          \/ \E w \in Runners : \/ Mark(w) \/ WriteProcessed(w) \/ WriteFailed(w)
          \/ UNCHANGED inbox
      BY <1>2 DEF Next, Decide, Submit, CreateHolder, ReadHolder, Save, SubmitFails, BeginEvent, HandleEvent,
           EventFails, Crash, InboxStep, inboxVars, vars, ReadEvent, Handled, HandlerFails,
           WriteProcessedFails, ProcessThrows, Restart, RetryFailed, RetryNext
    <3>2. ASSUME NEW w \in Workers, NEW e \in Events, Replay(w, e) PROVE inbox[k].status # "none"
      BY <3>2, ReceiveEffect DEF Writes
    <3>3. ASSUME NEW w \in Runners, Mark(w) \/ WriteProcessed(w) \/ WriteFailed(w) PROVE inbox[k].status # "none"
      <4>1. run[w].ev \in Events /\ inbox[run[w].ev].status # "none"
        BY <3>3 DEF Mark, WriteProcessed, WriteFailed, RunsInv
      <4>2. \A f \in Events \ {run[w].ev} : inbox'[f] = inbox[f]
        BY <3>3, MarkEffect, EndEffect DEF Writes
      <4> QED
        BY <4>1, <4>2
    <3> QED
      BY <3>1, <3>2, <3>3
  <2> QED
    BY <2>1 DEF KycInv
<1> QED
  BY <1>1, <1>2

LEMMA SubmitStep ==
  ASSUME KycInv, [Next]_vars
  PROVE  /\ submit' \in [Calls -> SubmitType] /\ submits' \in 0..MaxSubmits
         /\ \A c \in Calls : submit'[c].told <= Len(verdicts')
         /\ \A c \in Calls : Save(c) => holder' <= Len(verdicts)
<1>0. /\ submit \in [Calls -> SubmitType] /\ submits \in 0..MaxSubmits
      /\ \A c \in Calls : submit[c].told <= Len(verdicts)
      /\ Len(verdicts) \in Nat /\ Len(verdicts') \in Nat /\ Len(verdicts) <= Len(verdicts')
      /\ \A c \in Calls : submit[c].told \in Nat
  <2>1. Len(verdicts) \in Nat /\ Len(verdicts') \in Nat /\ Len(verdicts) <= Len(verdicts')
    BY VerdictsStep DEF KycInv
  <2> QED
    BY <2>1 DEF KycInv, SubmitType
<1>1. \A c \in Calls : Save(c) => holder' <= Len(verdicts)
  BY <1>0 DEF Save, Shows
<1>2. \A c \in Calls : submit[c].told <= Len(verdicts')
  BY <1>0
<1>3. \/ UNCHANGED submit
      \/ \E c \in Calls, r \in SubmitType : r.told <= Len(verdicts') /\ submit' = [submit EXCEPT ![c] = r]
      \/ submit' = [c \in Calls |-> NoSubmit]
  <2>1. NoSubmit \in SubmitType /\ NoSubmit.told = 0
    BY DEF NoSubmit, SubmitType
  <2>2. ASSUME NEW c \in Calls, Submit(c)
        PROVE  \E r \in SubmitType : r.told <= Len(verdicts') /\ submit' = [submit EXCEPT ![c] = r]
    <3> DEFINE r == [submit[c] EXCEPT !.pc = IF holder = 0 THEN "create" ELSE "reread"]
    <3>1. r \in SubmitType /\ r.told = submit[c].told
      BY <1>0 DEF SubmitType
    <3>2. submit' = [submit EXCEPT ![c] = r]
      BY <2>2 DEF Submit
    <3> HIDE DEF r
    <3> QED
      BY <1>2, <3>1, <3>2
  <2>3. ASSUME NEW c \in Calls, CreateHolder(c) \/ ReadHolder(c)
        PROVE  \E r \in SubmitType : r.told <= Len(verdicts') /\ submit' = [submit EXCEPT ![c] = r]
    <3>1. CASE CreateHolder(c)
      <4> DEFINE r == [pc |-> "save", told |-> 1]
      <4>1. r \in SubmitType /\ r.told = 1 /\ submit' = [submit EXCEPT ![c] = r]
        BY <3>1 DEF CreateHolder, SubmitType
      <4>2. Len(verdicts') >= 1
        <5>1. verdicts = <<>> => \E d \in Decisions : verdicts' = <<d>>
          BY <3>1 DEF CreateHolder
        <5>2. \A d \in Decisions : Len(<<d>>) = 1
          OBVIOUS
        <5>3. verdicts # <<>> => Len(verdicts) # 0
          BY EmptySeq DEF KycInv
        <5>4. verdicts = <<>> => Len(verdicts') = 1
          BY <5>1, <5>2
        <5> QED
          BY <1>0, <5>3, <5>4
      <4> HIDE DEF r
      <4> QED
        BY <1>0, <4>1, <4>2
    <3>2. CASE ReadHolder(c)
      <4> DEFINE r == [pc |-> "save", told |-> Len(verdicts)]
      <4>1. r \in SubmitType /\ r.told = Len(verdicts) /\ submit' = [submit EXCEPT ![c] = r]
        BY <1>0, <3>2 DEF ReadHolder, SubmitType
      <4> HIDE DEF r
      <4> QED
        BY <1>0, <4>1
    <3> QED
      BY <2>3, <3>1, <3>2
  <2>4. ASSUME NEW c \in Calls, Save(c) \/ SubmitFails(c) PROVE submit' = [submit EXCEPT ![c] = NoSubmit]
    BY <2>4 DEF Save, SubmitFails
  <2>5. Decide \/ UNCHANGED kycVars \/ (\E w \in Runners : HandleEvent(w) \/ EventFails(w)) => UNCHANGED submit
    BY DEF Decide, kycVars, HandleEvent, EventFails, ApplyProviderUpdate
  <2> HIDE DEF NoSubmit, SubmitType
  <2>6. 0 <= Len(verdicts')
    BY <1>0
  <2> QED
    BY <2>1, <2>2, <2>3, <2>4, <2>5, <2>6, KycSteps DEF Crash
<1>4. submits' \in 0..MaxSubmits
  <2>1. submits' = submits \/ (submits' = submits + 1 /\ submits < MaxSubmits)
    BY KycSteps DEF Decide, Submit, CreateHolder, ReadHolder, Save, SubmitFails, HandleEvent, EventFails,
                    ApplyProviderUpdate, Crash, kycVars
  <2> QED
    BY <1>0, <2>1, VerificationAssumption
<1>5. NoSubmit \in SubmitType /\ NoSubmit.told = 0
  BY DEF NoSubmit, SubmitType
<1> HIDE DEF NoSubmit, SubmitType
<1> QED
  BY <1>0, <1>1, <1>2, <1>3, <1>4, <1>5

LEMMA KycStep ==
  ASSUME RunsInv, KycInv, [Next]_vars
  PROVE  KycInv'
<1>1. /\ verdicts' \in Seq(Decisions) /\ Len(verdicts') \in Events \cup {0, 1}
      /\ Len(verdicts) <= Len(verdicts') /\ Len(verdicts) \in Nat /\ Len(verdicts') \in Nat
  BY VerdictsStep DEF KycInv
<1>2. /\ holder' \in Nat /\ holder' <= Len(verdicts')
      /\ missed' \in SUBSET Events /\ overtaken' \subseteq 1..Len(verdicts')
  BY <1>1, RowStep, SubmitStep DEF RowKept
<1>3. \A k \in Events : inbox'[k].status # "none" => k <= Len(verdicts')
  BY <1>1, ReceivedStep, VerificationAssumption
<1> QED
  BY <1>1, <1>2, <1>3, SubmitStep DEF KycInv

\* A run comes to its end by handling its event.
LEMMA DoneStep ==
  ASSUME RunsInv, [Next]_vars, NEW v \in Runners, run'[v].pc = "done"
  PROVE  run'[v] = run[v] \/ (HandleEvent(v) /\ run'[v].ev = run[v].ev)
<1>1. ASSUME NEW w \in Workers, NEW e \in Events, Receive(w, e) \/ Replay(w, e) PROVE run'[v] = run[v]
  BY <1>1, ReceiveEffect DEF Starts, Runners
<1>2. ASSUME NEW w \in Runners, \/ ReadEvent(w) \/ Mark(w) \/ HandlerFails(w) \/ WriteProcessed(w)
                               \/ WriteProcessedFails(w) \/ WriteFailed(w) \/ ProcessThrows(w)
      PROVE  run'[v] = run[v]
  <2>1. CASE ReadEvent(w)
    BY <2>1, ReadEventEffect DEF Stops, Idle
  <2>2. CASE HandlerFails(w) \/ WriteProcessedFails(w)
    <3>1. run[w].pc # "idle" /\ Step(w, "failed")
      BY <2>2 DEF HandlerFails, WriteProcessedFails
    <3> QED
      BY <3>1, StepGoes DEF Goes
  <2>3. CASE Mark(w) \/ WriteProcessed(w) \/ WriteFailed(w) \/ ProcessThrows(w)
    BY <2>3, MarkEffect, EndEffect, ThrowEffect DEF Goes, Stops, Idle
  <2> QED
    BY <1>2, <2>1, <2>2, <2>3
<1>3. ASSUME NEW w \in Runners, HandleEvent(w) PROVE run'[v] = run[v] \/ (v = w /\ run'[v].ev = run[v].ev)
  BY <1>3, StepGoes DEF HandleEvent, Handled, Goes
<1>4. ~Restart
  BY RestartEffect DEF Idle
<1>5. RetryFailed => run'[v] = run[v]
  BY RetryEffect
<1>6. RetryNext => run'[v] = run[v]
  BY RetryEffect DEF Starts
<1>7. \/ \E w \in Workers, e \in Events : Receive(w, e) \/ Replay(w, e)
      \/ \E w \in Runners : HandleEvent(w)
      \/ \E w \in Runners : \/ ReadEvent(w) \/ Mark(w) \/ HandlerFails(w) \/ WriteProcessed(w)
                            \/ WriteProcessedFails(w) \/ WriteFailed(w) \/ ProcessThrows(w)
      \/ Restart \/ RetryFailed \/ RetryNext \/ UNCHANGED run
  BY DEF Next, Decide, Submit, CreateHolder, ReadHolder, Save, SubmitFails, Deliver, BeginEvent,
         EventFails, Crash, InboxStep, inboxVars, vars
<1> QED
  BY <1>1, <1>2, <1>3, <1>4, <1>5, <1>6, <1>7

LEMMA ReachedStep ==
  ASSUME RunsInv, KycInv, ReachedInv, [Next]_vars
  PROVE  ReachedInv'
<1>0. RowKept
  BY RowStep
<1>1. \A w \in Runners : run[w].pc # "idle" => run[w].ev \in Events
  BY DEF RunsInv
<1>2. ASSUME NEW k \in Events, inbox'[k].status = "PROCESSED" PROVE Reached(k)'
  <2>1. Reached(k)
    <3>1. CASE inbox[k].status = "PROCESSED"
      BY <3>1 DEF ReachedInv
    <3>2. CASE inbox[k].status # "PROCESSED"
      <4>1. \A e \in Events, s \in EventStatuses \ {"PROCESSED"}, n \in Nat : ~Writes(e, s, n)
        BY <1>2, <3>2 DEF Writes
      <4>2. inbox[k].retries \in Nat /\ inbox # inbox'
        BY <1>2, <3>2 DEF RunsInv
      <4>3. \A e \in Events : inbox[e].retries \in Nat
        BY DEF RunsInv
      <4>4. ASSUME NEW w \in Workers, NEW e \in Events, Receive(w, e) \/ Replay(w, e) PROVE FALSE
        BY <4>1, <4>3, <4>4, ReceiveEffect DEF EventStatuses
      <4>5. ASSUME NEW w \in Runners, Mark(w) PROVE FALSE
        BY <4>1, <4>3, <4>5, MarkEffect DEF EventStatuses
      <4>6. ASSUME NEW w \in Runners, WriteProcessed(w) \/ WriteFailed(w) PROVE Reached(k)
        <5>1. CASE run[w].pc = "failed" /\ Writes(run[w].ev, AfterFailure(run[w].seen + 1), run[w].seen + 1)
          <6>1. run[w].ev \in Events /\ run[w].seen + 1 \in Nat
            BY <5>1, <1>1 DEF RunsInv, RunType
          <6> QED
            BY <4>1, <5>1, <6>1 DEF AfterFailure, EventStatuses
        <5>2. CASE run[w].pc = "done" /\ Writes(run[w].ev, "PROCESSED", inbox[run[w].ev].retries)
          <6>1. k = run[w].ev
            BY <1>2, <3>2, <5>2 DEF Writes
          <6> QED
            BY <5>2, <6>1 DEF ReachedInv
        <5> QED
          BY <4>6, <5>1, <5>2, EndEffect
      <4> QED
        BY Steps, <4>2, <4>4, <4>5, <4>6, ReadEventEffect, HandlerEffect, ThrowEffect, RestartEffect, RetryEffect
    <3> QED
      BY <3>1, <3>2
  <2> QED
    BY <1>0, <2>1 DEF RowKept
<1>3. ASSUME NEW v \in Runners, NEW k \in Events, run'[v].pc = "done", k = run'[v].ev PROVE Reached(k)'
  <2>1. CASE run'[v] = run[v]
    <3>1. Reached(k)
      BY <1>3, <2>1 DEF ReachedInv
    <3> QED
      BY <1>0, <1>3, <3>1 DEF RowKept
  <2>2. CASE HandleEvent(v) /\ run'[v].ev = run[v].ev
    <3>1. k \in missed' \/ holder' = k
      BY <1>3, <2>2, ApplyEffect DEF HandleEvent
    <3> QED
      BY <1>3, <3>1, VerificationAssumption DEF Reached
  <2> QED
    BY <1>3, <2>1, <2>2, DoneStep
<1>4. \A v \in Runners : run'[v].pc # "idle" => run'[v].ev \in Events
  BY RunsStep DEF RunsInv
<1> QED
  BY <1>2, <1>3, <1>4 DEF ReachedInv

-----------------------------------------------------------------------------
IInv == RunsInv /\ CountInv /\ KycInv /\ ReachedInv

LEMMA Initially == Init => IInv
<1> SUFFICES ASSUME Init PROVE IInv
  OBVIOUS
<1>1. Idle \in RunType /\ Idle.pc = "idle"
  BY DEF Idle, RunType
<1>2. RunsInv
  <2> HIDE DEF Idle, RunType
  <2> QED
    BY <1>1, InboxAssumption DEF Init, InboxInit, RunsInv, EventStatuses
<1>3. CountInv
  BY <1>1, InboxAssumption DEF Init, InboxInit, CountInv, RunInv, TriesInv
<1>4. KycInv
  <2>1. submit \in [Calls -> SubmitType] /\ \A c \in Calls : submit[c].told = 0
    BY DEF Init, NoSubmit, SubmitType
  <2>2. verdicts \in Seq(Decisions) /\ Len(verdicts) = 0
    BY DEF Init
  <2>3. \A k \in Events : inbox[k].status = "none"
    BY DEF Init, InboxInit
  <2> QED
    <3>1. holder = 0 /\ submits = 0 /\ missed = {} /\ overtaken = {}
      BY DEF Init
    <3>2. submits \in 0..MaxSubmits /\ holder \in 0..Len(verdicts) /\ Len(verdicts) \in Events \cup {0, 1}
      BY <2>2, <3>1, VerificationAssumption
    <3>3. \A c \in Calls : submit[c].told <= Len(verdicts)
      BY <2>1, <2>2
    <3>4. missed \in SUBSET Events /\ overtaken \subseteq 1..Len(verdicts)
      BY <3>1
    <3> QED
      BY <2>1, <2>2, <2>3, <3>2, <3>3, <3>4 DEF KycInv
<1>5. ReachedInv
  BY <1>1 DEF Init, InboxInit, ReachedInv
<1> QED
  BY <1>2, <1>3, <1>4, <1>5 DEF IInv

LEMMA Inductive == IInv /\ [Next]_vars => IInv'
  BY RunsStep, CountStep, KycStep, ReachedStep DEF IInv

\* IInv holds throughout: the invariant the theorems below are read off.
LEMMA Throughout == Spec => []IInv
  BY Initially, Inductive, PTL DEF Spec

\* Events, runs, submissions and the row keep their types through every interleaving of
\* deliveries, retries, replays, submissions, failures and restarts.
THEOREM TypeCorrect == Spec => []TypeOK
<1>1. IInv => TypeOK
  BY Types DEF IInv
<1> QED
  BY <1>1, Throughout, PTL

\* Before an operator replays, an event is attempted at most MaxAttempts times, by one run at a time.
THEOREM AttemptsBoundedCorrect == Spec => []AttemptsBounded
<1>1. IInv => AttemptsBounded
  <2> SUFFICES ASSUME IInv, replays = 0, NEW e \in Events
               PROVE  /\ tries[e] <= MaxAttempts
                      /\ \A v, w \in Runners : (run[v].ev = e /\ run[w].ev = e) => v = w
    BY DEF AttemptsBounded
  <2>1. \A w \in Runners : run[w].ev = e => run[w].pc # "idle"
    BY InboxAssumption DEF IInv, RunsInv, Idle
  <2> QED
    BY <2>1 DEF IInv, CountInv, RunInv, TriesInv
<1> QED
  BY <1>1, Throughout, PTL

\* What is marked processed has reached the row.
THEOREM ProcessedReachedRowCorrect == Spec => []ProcessedReachedRow
<1>1. IInv => ProcessedReachedRow
  BY DEF IInv, ReachedInv, Reached, ProcessedReachedRow
<1> QED
  BY <1>1, Throughout, PTL
=============================================================================
