---------------------------- MODULE Verification ----------------------------
(***************************************************************************)
(* Identity verification: KycService around one customer, fed by the       *)
(* inbox.  The issuer decides again and again and sends a webhook for each *)
(* decision; the customer may submit again, which reads the decision.      *)
(***************************************************************************)
EXTENDS Inbox, Sequences

CONSTANTS Calls,       \* submissions the API is serving at one time
          Nameless,    \* events that name the account holder in the field token alone
          MaxSubmits   \* submissions in all

\* Event k announces the k-th decision of the issuer.
ASSUME VerificationAssumption ==
  Events \subseteq Nat \ {0} /\ Nameless \subseteq Events /\ MaxSubmits \in Nat

VARIABLES
  verdicts,  \* the issuer's decisions on this customer, in order
  holder,    \* the decision the account holder's row shows, 0 without a row
  submit,    \* submit[c]: the submission in slot c, and the decision it was told
  submits,   \* submissions so far
  \* History, of a decision until the row shows it or a later one:
  missed,    \* its event found no row
  overtaken  \* the row showed it, or a later one, before an older one was written

kycVars == <<verdicts, holder, submit, submits, missed, overtaken>>
vars == <<inboxVars, kycVars>>

\* What the issuer decides other than to accept is all the same to submit.
Decisions == {"ACCEPTED", "OTHER"}
NoSubmit == [pc |-> "idle", told |-> 0]

\* A decision is written to the row whatever the row shows.
Shows(k) ==
  /\ holder' = k
  /\ missed' = missed \ 1..k
  /\ overtaken' = IF k < holder THEN overtaken \cup (k + 1)..holder ELSE overtaken \ 1..k

-----------------------------------------------------------------------------
\* The issuer creates a holder once per customer, and answers a repeated request as
\* it answered the first; later it decides by itself.
Decide ==
  /\ verdicts # <<>> /\ Len(verdicts) + 1 \in Events
  /\ \E d \in Decisions : verdicts' = Append(verdicts, d)
  /\ UNCHANGED <<inboxVars, holder, submit, submits, missed, overtaken>>

Accepted == holder # 0 /\ verdicts[holder] = "ACCEPTED"

\* An accepted customer is answered from the row.  One with a row has the decision
\* read again, one without has a holder created.
Submit(c) ==
  /\ submit[c] = NoSubmit
  /\ submits < MaxSubmits
  /\ submits' = submits + 1
  /\ ~Accepted
  /\ submit' = [submit EXCEPT ![c].pc = IF holder = 0 THEN "create" ELSE "reread"]
  /\ UNCHANGED <<inboxVars, verdicts, holder, missed, overtaken>>

CreateHolder(c) ==
  /\ submit[c].pc = "create"
  /\ IF verdicts = <<>> THEN \E d \in Decisions : verdicts' = <<d>> ELSE UNCHANGED verdicts
  /\ submit' = [submit EXCEPT ![c] = [pc |-> "save", told |-> 1]]
  /\ UNCHANGED <<inboxVars, holder, submits, missed, overtaken>>

ReadHolder(c) ==
  /\ submit[c].pc = "reread"
  /\ submit' = [submit EXCEPT ![c] = [pc |-> "save", told |-> Len(verdicts)]]
  /\ UNCHANGED <<inboxVars, verdicts, holder, submits, missed, overtaken>>

\* The upsert and the update write what the issuer said when it was asked.
Save(c) ==
  /\ submit[c].pc = "save"
  /\ Shows(submit[c].told)
  /\ submit' = [submit EXCEPT ![c] = NoSubmit]
  /\ UNCHANGED <<inboxVars, verdicts, submits>>

SubmitFails(c) ==
  /\ submit[c] # NoSubmit
  /\ Fault
  /\ submit' = [submit EXCEPT ![c] = NoSubmit]
  /\ UNCHANGED <<inbox, run, todo, replays, tries, died, verdicts, holder, submits, missed, overtaken>>

-----------------------------------------------------------------------------
Deliver(w, k) ==
  /\ k <= Len(verdicts)
  /\ Receive(w, k)
  /\ UNCHANGED kycVars

BeginEvent(w) == Mark(w) /\ UNCHANGED kycVars

DropWhenAccepted(k) == ~Accepted                                \* mutant

\* The row is looked up by account_holder_token or, without one, by token, of which the
\* inbox has stored no more than a mark.
Applies(k) == holder # 0 /\ k \notin Nameless

\* An event that finds no row is logged and counts as processed.
ApplyProviderUpdate(w) ==
  LET k == run[w].ev IN
  /\ run[w].pc = "handle"
  /\ IF Applies(k) THEN Shows(k)
     ELSE /\ missed' = IF holder = 0 \/ k \in Nameless THEN missed \cup {k} ELSE missed
          /\ UNCHANGED <<holder, overtaken>>
  /\ UNCHANGED <<verdicts, submit, submits>>

HandleEvent(w) == ApplyProviderUpdate(w) /\ Handled(w)

\* The handler fails before it wrote the row, or at the history record after it.
EventFails(w) ==
  /\ HandlerFails(w)
  /\ \/ UNCHANGED kycVars
     \/ holder # 0 /\ ApplyProviderUpdate(w)

Crash ==
  /\ Restart
  /\ submit' = [c \in Calls |-> NoSubmit]
  /\ UNCHANGED <<verdicts, holder, submits, missed, overtaken>>

-----------------------------------------------------------------------------
Init ==
  /\ InboxInit
  /\ verdicts = <<>> /\ holder = 0 /\ submits = 0
  /\ submit = [c \in Calls |-> NoSubmit]
  /\ missed = {} /\ overtaken = {}

Next ==
  \/ Decide
  \/ \E c \in Calls : Submit(c) \/ CreateHolder(c) \/ ReadHolder(c) \/ Save(c) \/ SubmitFails(c)
  \/ \E w \in Workers, k \in Events : Deliver(w, k)
  \/ \E w \in Runners : BeginEvent(w) \/ HandleEvent(w) \/ EventFails(w)
  \/ Crash
  \/ InboxStep /\ UNCHANGED kycVars

Fairness ==
  /\ \A w \in Runners :
       /\ WF_vars(InboxProgress(w) /\ UNCHANGED kycVars)
       /\ WF_vars(BeginEvent(w)) /\ WF_vars(HandleEvent(w))
  /\ WF_vars(JobProgress /\ UNCHANGED kycVars)

Spec == Init /\ [][Next]_vars
FairSpec == Spec /\ Fairness

-----------------------------------------------------------------------------
TypeOK ==
  /\ InboxTypeOK
  /\ verdicts \in Seq(Decisions) /\ Len(verdicts) \in Events \cup {0, 1}
  /\ holder \in 0..Len(verdicts)
  /\ submit \in [Calls -> [pc : {"idle", "create", "reread", "save"}, told : 0..Len(verdicts)]]
  /\ submits \in 0..MaxSubmits
  /\ missed \in SUBSET Events /\ overtaken \subseteq 1..Len(verdicts)

\* A decision whose event is marked processed is in the row, or a later one is, however
\* often the event was tried and wherever a try broke off.  While the row is behind it, one
\* of two things has happened and nothing as late was written since, by another event or by
\* a submission: the event came before the row or named the holder in token alone (missed),
\* or an older decision was written over it, by an event handled late or by a submission
\* that had asked before (overtaken).
ProcessedReachedRow ==
  \A k \in Events : inbox[k].status = "PROCESSED" =>
    holder >= k \/ k \in missed \/ k \in overtaken
=============================================================================
