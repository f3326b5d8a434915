------------------------------- MODULE Inbox --------------------------------
(***************************************************************************)
(* The webhook inbox: WebhooksService.receive, process, retryFailed and    *)
(* replay.  Whoever extends this module says what handling an event does,  *)
(* by conjoining its own steps with Handled and HandlerFails.              *)
(***************************************************************************)
EXTENDS Naturals

CONSTANTS Events,
          Workers,     \* runs of process() in the background and for operators
          Job,         \* the run of the retry job
          NoEvent,
          MaxAttempts, \* attempts after which an event is dead-lettered
          MaxReplays,  \* replays of an operator, of all events together
          MaxFaults    \* failures of handlers, of the database and of the process

ASSUME InboxAssumption ==
  /\ Job \notin Workers /\ NoEvent \notin Events
  /\ MaxAttempts \in Nat \ {0} /\ MaxReplays \in Nat /\ MaxFaults \in Nat

VARIABLES
  inbox,    \* inbox[e]: status and retryCount of the event's row
  run,      \* run[w]: the call of process() that w is in
  todo,     \* events the retry job has still to process
  faults,
  replays,  \* how often operators replayed
  \* History:
  tries,    \* tries[e]: automatic attempts
  died      \* events whose processing was cut off

inboxVars == <<inbox, run, todo, faults, replays, tries, died>>

Runners == Workers \cup {Job}
EventStatuses == {"none", "RECEIVED", "PROCESSING", "FAILED", "PROCESSED", "DEAD_LETTER"}
Idle == [pc |-> "idle", ev |-> NoEvent, seen |-> 0, auto |-> FALSE]
RunType == [pc : {"idle", "read", "mark", "handle", "done", "failed"},
            ev : Events \cup {NoEvent}, seen : Nat, auto : BOOLEAN]

InboxInit ==
  /\ inbox = [e \in Events |-> [status |-> "none", retries |-> 0]]
  /\ run = [w \in Runners |-> Idle]
  /\ todo = {}
  /\ faults = 0 /\ replays = 0
  /\ tries = [e \in Events |-> 0]
  /\ died = {}

-----------------------------------------------------------------------------
Process(w, e, auto) == run' = [run EXCEPT ![w] = [pc |-> "read", ev |-> e, seen |-> 0, auto |-> auto]]
Step(w, pc) == run' = [run EXCEPT ![w].pc = pc]

Leave(w) == run' = [run EXCEPT ![w] = Idle]
Fault == faults < MaxFaults /\ faults' = faults + 1

\* A delivery is stored under its unique event id, answered at once and processed
\* in the background; a second delivery of the event changes nothing.
Receive(w, e) ==
  /\ inbox[e].status = "none"
  /\ run[w] = Idle
  /\ inbox' = [inbox EXCEPT ![e].status = "RECEIVED"]
  /\ Process(w, e, TRUE)
  /\ UNCHANGED <<todo, faults, replays, tries, died>>

ReadEvent(w) ==
  /\ run[w].pc = "read"
  /\ LET r == inbox[run[w].ev] IN
     IF r.status = "PROCESSED" THEN Leave(w)
     ELSE run' = [run EXCEPT ![w].pc = "mark", ![w].seen = r.retries]
  /\ UNCHANGED <<inbox, todo, faults, replays, tries, died>>

Mark(w) ==
  LET e == run[w].ev IN
  /\ run[w].pc = "mark"
  /\ inbox' = [inbox EXCEPT ![e].status = "PROCESSING"]
  /\ tries' = IF run[w].auto THEN [tries EXCEPT ![e] = @ + 1] ELSE tries
  /\ Step(w, "handle")
  /\ UNCHANGED <<todo, faults, replays, died>>

\* The end of the handler, of which the caller says what it did.
Handled(w) ==
  /\ run[w].pc = "handle"
  /\ Step(w, "done")
  /\ UNCHANGED <<inbox, todo, faults, replays, tries, died>>

HandlerFails(w) ==
  /\ run[w].pc = "handle"
  /\ Fault
  /\ Step(w, "failed")
  /\ UNCHANGED <<inbox, todo, replays, tries, died>>

WriteProcessed(w) ==
  /\ run[w].pc = "done"
  /\ inbox' = [inbox EXCEPT ![run[w].ev].status = "PROCESSED"]
  /\ Leave(w)
  /\ UNCHANGED <<todo, faults, replays, tries, died>>

\* The write of PROCESSED is inside the try.
WriteProcessedFails(w) ==
  /\ run[w].pc = "done"
  /\ Fault
  /\ Step(w, "failed")
  /\ UNCHANGED <<inbox, todo, replays, tries, died>>

AfterFailureEndless(n) == "FAILED"                              \* mutant

AfterFailure(n) == IF n >= MaxAttempts THEN "DEAD_LETTER" ELSE "FAILED"

\* retryCount as it was read at the start, plus one.
WriteFailed(w) ==
  LET n == run[w].seen + 1 IN
  /\ run[w].pc = "failed"
  /\ inbox' = [inbox EXCEPT ![run[w].ev] = [status |-> AfterFailure(n), retries |-> n]]
  /\ Leave(w)
  /\ UNCHANGED <<todo, faults, replays, tries, died>>

\* A read or a write outside the try fails: process() throws, the row stays as it
\* is, and the retry job ends its pass.
ProcessThrows(w) ==
  /\ run[w].pc \in {"read", "mark", "failed"}
  /\ Fault
  /\ Leave(w)
  /\ todo' = IF w = Job THEN {} ELSE todo
  /\ died' = died \cup {run[w].ev}
  /\ UNCHANGED <<inbox, replays, tries>>

\* The process restarts: nothing takes up what was in progress.
Restart ==
  /\ Fault
  /\ run' = [w \in Runners |-> Idle]
  /\ todo' = {}
  /\ died' = died \cup {run[w].ev : w \in {v \in Runners : run[v] # Idle}}
  /\ UNCHANGED <<inbox, replays, tries>>

-----------------------------------------------------------------------------
RetryDeadToo(e) == inbox[e].status \in {"FAILED", "DEAD_LETTER"}   \* mutant

Retryable(e) == inbox[e].status = "FAILED" /\ inbox[e].retries < MaxAttempts

\* The job does not overlap itself: it lists the failed events and processes them
\* one after the other.
RetryFailed ==
  /\ run[Job] = Idle /\ todo = {}
  /\ todo' = {e \in Events : Retryable(e)}
  /\ todo' # {}
  /\ UNCHANGED <<inbox, run, faults, replays, tries, died>>

RetryNext ==
  /\ run[Job] = Idle
  /\ \E e \in todo : Process(Job, e, TRUE) /\ todo' = todo \ {e}
  /\ UNCHANGED <<inbox, faults, replays, tries, died>>

\* An operator may replay any event, whatever its status.
Replay(w, e) ==
  /\ inbox[e].status # "none"
  /\ run[w] = Idle
  /\ replays < MaxReplays
  /\ replays' = replays + 1
  /\ inbox' = [inbox EXCEPT ![e].status = "RECEIVED"]
  /\ Process(w, e, FALSE)
  /\ UNCHANGED <<todo, faults, tries, died>>

\* Every step but the first delivery, the handler's, the mark before it and a restart.
InboxStep ==
  \/ \E w \in Runners :
       \/ ReadEvent(w) \/ WriteProcessed(w) \/ WriteProcessedFails(w)
       \/ WriteFailed(w) \/ ProcessThrows(w)
  \/ RetryFailed \/ RetryNext
  \/ \E w \in Workers, e \in Events : Replay(w, e)

\* The steps the event loop and the schedule of the job make sure of.
InboxProgress(w) == ReadEvent(w) \/ WriteProcessed(w) \/ WriteFailed(w)
JobProgress == RetryFailed \/ RetryNext

-----------------------------------------------------------------------------
InboxTypeOK ==
  /\ inbox \in [Events -> [status : EventStatuses, retries : Nat]]
  /\ run \in [Runners -> RunType]
  /\ \A w \in Runners : run[w].pc = "idle" <=> run[w] = Idle
  /\ todo \in SUBSET Events
  /\ faults \in 0..MaxFaults /\ replays \in 0..MaxReplays
  /\ tries \in [Events -> Nat]
  /\ died \in SUBSET Events

\* Until an operator replays, an event is attempted at most MaxAttempts times and by
\* one run at a time, although each run counts from what it read at its start (process,
\* retryFailed and the guard of the jobs; "after five attempts stop retrying").
AttemptsBounded ==
  replays = 0 => \A e \in Events :
    /\ tries[e] <= MaxAttempts
    /\ \A v, w \in Runners : (run[v].ev = e /\ run[w].ev = e) => v = w

\* What was received comes to an end, processed or in the hands of the operators, unless
\* its processing was cut off.
EventsSettle ==
  \A e \in Events :
    inbox[e].status = "RECEIVED" ~> (inbox[e].status \in {"PROCESSED", "DEAD_LETTER"} \/ e \in died)
=============================================================================
