----------------------------- MODULE CardsProofs ------------------------------
(***************************************************************************)
(* Theorems about Cards, for any keys, limits, requests and bounds.        *)
(***************************************************************************)
EXTENDS Cards, SequenceTheorems, FiniteSetTheorems, TLAPS

CallType == [pc : {"idle"} \cup Creating \cup Changing \cup Ruling,
             key : Keys \cup {NoKey}, target : Statuses,
             amount : Limits \cup {0}, old : SUBSET Limits, creating : BOOLEAN]

\* What a request in progress is about.
CallInv ==
  /\ call \in [Calls -> CallType]
  /\ \A c \in Calls :
       /\ call[c].pc = "idle" <=> call[c] = NoCall
       /\ call[c].pc # "idle" => call[c].key \in Keys
       /\ call[c].pc \in Attaching => call[c].amount \in Limits

DataInv ==
  /\ state \in [Keys -> States \cup {"none"}]
  /\ status \in [Keys -> Statuses \cup {"none"}]
  /\ charged \in [Keys -> Nat] /\ funds \in 0..Funds
  /\ limit \in [Keys -> Limits \cup {0}] /\ ruleRows \in [Keys -> SUBSET Limits]
  /\ rules \in [Keys -> [Limits -> RuleStates]]
  /\ late \subseteq Keys \X States
  /\ news \in [Keys -> Seq(States)]
  /\ requests \in 0..MaxRequests /\ faults \in 0..MaxFaults
  /\ crowded \in BOOLEAN /\ overtaken \subseteq Calls
  /\ muddled \subseteq Keys /\ safe \subseteq Keys
  /\ unruled \subseteq Keys /\ reused \subseteq Keys
  /\ twinned \subseteq Keys /\ thawed \subseteq Keys

\* The request in slot c is begun, goes on or ends.
Moves(c) ==
  \/ \E r \in CallType :
       /\ r.pc # "idle" /\ r.key \in Keys /\ r.pc \notin Attaching
       /\ call' = [call EXCEPT ![c] = r]
  \/ /\ call[c].pc # "idle"
     /\ \E pc \in Creating \cup Changing \cup Ruling :
          /\ pc \in Attaching => call[c].amount \in Limits
          /\ Goto(c, pc)
  \/ Leave(c)

-----------------------------------------------------------------------------
LEMMA TypeParts == CallInv /\ DataInv => TypeOK
  BY DEF TypeOK, CallInv, DataInv, CallType

LEMMA InitInv == Init => CallInv /\ DataInv
<1> SUFFICES ASSUME Init PROVE CallInv /\ DataInv
  OBVIOUS
<1>1. CallInv
  BY DEF Init, CallInv, CallType, NoCall, Statuses, Creating, Changing, Ruling, Attaching
<1>2. DataInv
  <2>1. rules \in [Keys -> [Limits -> RuleStates]]
    BY DEF Init, RuleStates
  <2>2. news \in [Keys -> Seq(States)]
    BY DEF Init
  <2>3. crowded \in BOOLEAN /\ late = {} /\ overtaken = {} /\ muddled = {} /\ safe = {}
        /\ unruled = {} /\ reused = {} /\ twinned = {} /\ thawed = {}
    BY DEF Init
  <2>4. /\ state \in [Keys -> States \cup {"none"}] /\ status \in [Keys -> Statuses \cup {"none"}]
        /\ charged \in [Keys -> Nat] /\ funds \in 0..Funds
        /\ limit \in [Keys -> Limits \cup {0}] /\ ruleRows \in [Keys -> SUBSET Limits]
        /\ requests \in 0..MaxRequests /\ faults \in 0..MaxFaults
    BY CardsAssumption DEF Init
  <2> QED
    BY <2>1, <2>2, <2>3, <2>4 DEF DataInv
<1> QED
  BY <1>1, <1>2

LEMMA MoveKeepsCalls ==
  ASSUME CallInv, NEW c \in Calls, Moves(c)
  PROVE  CallInv'
<1> USE DEF CallInv
<1>1. NoCall \in CallType /\ NoCall.pc = "idle" /\ "idle" \notin Attaching
  BY DEF NoCall, CallType, Statuses, Attaching
<1>2. ASSUME NEW r \in CallType, r.pc # "idle", r.key \in Keys, r.pc \notin Attaching,
             call' = [call EXCEPT ![c] = r]
      PROVE  CallInv'
  BY <1>1, <1>2
<1>3. ASSUME NEW pc \in Creating \cup Changing \cup Ruling, call[c].pc # "idle",
             pc \in Attaching => call[c].amount \in Limits, Goto(c, pc)
      PROVE  CallInv'
  <2> DEFINE r == [call[c] EXCEPT !.pc = pc]
  <2>1. r \in CallType /\ r.pc = pc /\ r.key = call[c].key /\ r.amount = call[c].amount
    BY DEF CallType
  <2>2. pc # "idle"
    BY DEF Creating, Changing, Ruling, Attaching
  <2>3. call' = [call EXCEPT ![c] = r]
    BY <1>3, Zenon DEF Goto
  <2>4. r.pc # "idle" /\ r # NoCall
    BY <2>1, <2>2, <1>1
  <2> HIDE DEF r
  <2> QED
    BY <1>3, <2>1, <2>3, <2>4
<1>4. CASE Leave(c)
  BY <1>1, <1>4 DEF Leave
<1> QED
  BY <1>2, <1>3, <1>4, Zenon DEF Moves

\* Each step moves one request or none.
LEMMA EveryStepMoves ==
  ASSUME CallInv, DataInv, [Next]_vars
  PROVE  UNCHANGED call \/ \E c \in Calls : Moves(c)
<1> USE CardsAssumption DEF CallInv, Moves
<1>1. ASSUME NEW c \in Calls, NEW k \in Keys, NEW l \in KeyLimits[k], CountCards(c, k, l) PROVE Moves(c)
  <2> DEFINE r == [NoCall EXCEPT !.pc = "charge", !.key = k, !.amount = l, !.creating = TRUE]
  <2>1. r \in CallType /\ r.pc = "charge" /\ r.key = k /\ "charge" \notin Attaching
    BY DEF NoCall, CallType, Statuses, Creating, Attaching
  <2> HIDE DEF r
  <2>2. call' = [call EXCEPT ![c] = r]
    BY <1>1, Zenon DEF CountCards, r
  <2> QED
    BY <2>1, <2>2, Zenon
<1>2. ASSUME NEW c \in Calls, NEW k \in Keys, NEW t \in Statuses, StartChange(c, k, t) PROVE Moves(c)
  <2> DEFINE r == [NoCall EXCEPT !.pc = "patch", !.key = k, !.target = t]
  <2>1. r \in CallType /\ r.pc = "patch" /\ r.key = k /\ "patch" \notin Attaching
    BY DEF NoCall, CallType, Changing, Attaching
  <2> HIDE DEF r
  <2>2. call' = [call EXCEPT ![c] = r]
    BY <1>2, Zenon DEF StartChange, r
  <2> QED
    BY <2>1, <2>2, Zenon
<1>3. ASSUME NEW c \in Calls, NEW k \in Keys, NEW l \in Limits \cup {0}, StartLimits(c, k, l) PROVE Moves(c)
  <2> DEFINE r == [NoCall EXCEPT !.pc = "spend", !.key = k, !.amount = l, !.old = ruleRows[k]]
  <2>1. r \in CallType /\ r.pc = "spend" /\ r.key = k /\ "spend" \notin Attaching
    BY DEF NoCall, CallType, Statuses, Ruling, Attaching, DataInv
  <2> HIDE DEF r
  <2>2. call' = [call EXCEPT ![c] = r]
    BY <1>3, Zenon DEF StartLimits, r
  <2> QED
    BY <2>1, <2>2, Zenon
<1>4. ASSUME NEW c \in Calls,
             ChargeIssuance(c) \/ IssueCard(c) \/ IssueFails(c) \/ SaveCard(c)
      PROVE Moves(c)
  BY <1>4 DEF ChargeIssuance, IssueCard, IssueFails, SaveCard, Creating, Changing, Ruling, Attaching, CallType
<1>5. ASSUME NEW c \in Calls,
             PatchCard(c) \/ PatchTimesOut(c) \/ WriteStatus(c) \/ Die(c)
      PROVE Moves(c)
  BY <1>5 DEF PatchCard, PatchTimesOut, WriteStatus, Die, AfterTimeout, Creating, Changing, Ruling, Attaching
<1>6. ASSUME NEW c \in Calls,
             UpdateCardLimit(c) \/ DeleteRules(c) \/ DeleteFails(c) \/ DeleteRows(c) \/ CreateRule(c)
      PROVE Moves(c)
  BY <1>6 DEF UpdateCardLimit, DeleteRules, DeleteFails, DeleteRows, CreateRule,
              Creating, Changing, Ruling, Attaching, CallType
<1>7. ASSUME NEW c \in Calls,
             PromoteRule(c) \/ RecordRule(c) \/ AttachFails(c) \/ UpdateLimits(c)
      PROVE Moves(c)
  BY <1>7 DEF PromoteRule, RecordRule, AttachFails, UpdateLimits, AfterRules,
              Creating, Changing, Ruling, Attaching
<1>8. ASSUME NEW k \in Keys, (\E i \in DOMAIN news[k] : SyncCardState(k, i)) \/ WebhookLost(k)
      PROVE UNCHANGED call
  BY <1>8 DEF SyncCardState, WebhookLost
<1>9. CASE CarriedOutLate \/ UNCHANGED vars
  BY <1>9 DEF CarriedOutLate, vars
<1> HIDE DEF Moves
<1> QED
  BY <1>1, <1>2, <1>3, <1>4, <1>5, <1>6, <1>7, <1>8, <1>9 DEF Next, SetStatus, FreezeCard, Statuses

LEMMA CallStep ==
  ASSUME CallInv, DataInv, [Next]_vars
  PROVE  CallInv'
<1>1. ASSUME UNCHANGED call PROVE CallInv'
  BY <1>1 DEF CallInv
<1> QED
  BY <1>1, EveryStepMoves, MoveKeepsCalls

-----------------------------------------------------------------------------
(* The types of everything else.                                           *)

LEMMA CarryOutType ==
  ASSUME DataInv, NEW k \in Keys, NEW s \in States, CarryOut(k, s)
  PROVE  /\ state' \in [Keys -> States \cup {"none"}]
         /\ news' \in [Keys -> Seq(States)]
<1> USE DEF DataInv, CarryOut
<1>1. Append(news[k], s) \in Seq(States)
  OBVIOUS
<1> QED
  BY <1>1

LEMMA OvertakeType ==
  ASSUME CallInv, DataInv, NEW k \in Keys, NEW new \in SUBSET Calls, Overtake(k, new)
  PROVE  overtaken' \subseteq Calls /\ muddled' \subseteq Keys
  BY DEF DataInv, Overtake, On

LEMMA RemoveAtType ==
  ASSUME NEW S, NEW q \in Seq(S), NEW i \in DOMAIN q
  PROVE  RemoveAt(q, i) \in Seq(S)
<1>1. i \in 1..Len(q) /\ Len(q) \in Nat
  OBVIOUS
<1>2. SubSeq(q, 1, i - 1) \in Seq(S) /\ SubSeq(q, i + 1, Len(q)) \in Seq(S)
  <2>1. \A j \in 1..(i - 1) : q[j] \in S
    BY <1>1
  <2>2. \A j \in (i + 1)..Len(q) : q[j] \in S
    BY <1>1
  <2> QED
    BY <1>1, <2>1, <2>2, SubSeqProperties
<1> QED
  BY <1>2 DEF RemoveAt

LEMMA DataStep ==
  ASSUME CallInv, DataInv, [Next]_vars
  PROVE  DataInv'
<1> USE CardsAssumption
    DEF CallInv, DataInv, money, ruling, counters, history, freezes, doubts, Request, Fault
<1>1. ASSUME NEW c \in Calls, NEW k \in Keys, NEW l \in KeyLimits[k], CountCards(c, k, l) PROVE DataInv'
  <2>1. crowded' \in BOOLEAN
    BY <1>1, Zenon DEF CountCards
  <2>2. requests' \in 0..MaxRequests /\ UNCHANGED <<state, status, money, ruling, late, news, faults,
                                                  overtaken, muddled, freezes, doubts>>
    BY <1>1 DEF CountCards
  <2> QED
    BY <2>1, <2>2
<1>2. ASSUME NEW c \in Calls, NEW k \in Keys, NEW t \in Statuses, StartChange(c, k, t) PROVE DataInv'
  <2>1. overtaken' \subseteq Calls /\ muddled' \subseteq Keys
    BY <1>2, OvertakeType DEF StartChange
  <2> QED
    BY <1>2, <2>1, SMTT(30) DEF StartChange
<1>3. ASSUME NEW c \in Calls, NEW k \in Keys, NEW l \in Limits \cup {0}, StartLimits(c, k, l) PROVE DataInv'
  BY <1>3, SMTT(30) DEF StartLimits, Meets
<1>4. ASSUME NEW c \in Calls, ChargeIssuance(c) PROVE DataInv'
  BY <1>4 DEF ChargeIssuance
<1>5. ASSUME NEW c \in Calls, IssueCard(c) \/ IssueFails(c) PROVE DataInv'
  <2>1. state' \in [Keys -> States \cup {"none"}]
    <3> DEFINE X == [state EXCEPT ![call[c].key] = IF @ = "none" THEN "OPEN" ELSE @]
    <3>1. X \in [Keys -> States \cup {"none"}]
      BY DEF States
    <3>2. state' = state \/ state' = X
      BY <1>5, Zenon DEF IssueCard, IssueFails
    <3>3. state \in [Keys -> States \cup {"none"}]
      OBVIOUS
    <3> HIDE DEF X, DataInv, CallInv
    <3> QED
      BY <3>1, <3>2, <3>3
  <2>2. UNCHANGED <<status, money, ruling, late, news, requests, history>> /\ faults' \in 0..MaxFaults
    BY <1>5 DEF IssueCard, IssueFails
  <2> QED
    BY <2>1, <2>2
<1>6. ASSUME NEW c \in Calls, SaveCard(c) PROVE DataInv'
  <2>1. call[c].key \in Keys
    BY <1>6 DEF SaveCard
  <2>2. status' \in [Keys -> Statuses \cup {"none"}]
    BY <1>6 DEF SaveCard, Statuses
  <2>3. limit' \in [Keys -> Limits \cup {0}] /\ unruled' \subseteq Keys /\ twinned' \subseteq Keys
    BY <1>6, <2>1 DEF SaveCard, Meets, CallType
  <2> QED
    BY <1>6, <2>2, <2>3 DEF SaveCard
<1>7. ASSUME NEW c \in Calls, PatchCard(c) PROVE DataInv'
  <2>1. call[c].key \in Keys /\ ToLithicState[call[c].target] \in States
    BY <1>7 DEF PatchCard, CallType, Statuses, States, ToLithicState
  <2>2. state' \in [Keys -> States \cup {"none"}] /\ news' \in [Keys -> Seq(States)]
    BY <1>7, <2>1, CarryOutType DEF PatchCard
  <2> QED
    BY <1>7, <2>2 DEF PatchCard
<1>8. ASSUME NEW c \in Calls, PatchTimesOut(c) PROVE DataInv'
  <2>1. call[c].key \in Keys /\ ToLithicState[call[c].target] \in States
    BY <1>8 DEF PatchTimesOut, CallType, Statuses, States, ToLithicState
  <2> QED
    BY <1>8, <2>1 DEF PatchTimesOut
<1>9. ASSUME NEW c \in Calls, WriteStatus(c) PROVE DataInv'
  BY <1>9 DEF WriteStatus, CallType
<1>10. ASSUME NEW c \in Calls, Die(c) PROVE DataInv'
  <2>1. call[c].pc # "idle" /\ call[c].key \in Keys
    BY <1>10 DEF Die
  <2> QED
    BY <1>10, <2>1 DEF Die
<1>11. ASSUME NEW c \in Calls, UpdateCardLimit(c) PROVE DataInv'
  BY <1>11 DEF UpdateCardLimit
<1>12. ASSUME NEW c \in Calls, DeleteRules(c) PROVE DataInv'
  BY <1>12 DEF DeleteRules, RuleStates
<1>13. ASSUME NEW c \in Calls, DeleteFails(c) PROVE DataInv'
  <2>1. call[c].key \in Keys
    BY <1>13 DEF DeleteFails
  <2>2. rules' \in [Keys -> [Limits -> RuleStates]]
    BY <1>13 DEF DeleteFails, RuleStates
  <2> QED
    BY <1>13, <2>1, <2>2 DEF DeleteFails
<1>14. ASSUME NEW c \in Calls, DeleteRows(c) PROVE DataInv'
  BY <1>14 DEF DeleteRows
<1>15. ASSUME NEW c \in Calls, CreateRule(c) PROVE DataInv'
  <2>1. call[c].key \in Keys /\ call[c].amount \in Limits
    BY <1>15 DEF CreateRule, Attaching
  <2>2. rules' \in [Keys -> [Limits -> RuleStates]]
    BY <1>15, <2>1, ZenonT(30) DEF CreateRule, RuleStates
  <2> QED
    BY <1>15, <2>1, <2>2 DEF CreateRule
<1>16. ASSUME NEW c \in Calls, PromoteRule(c) PROVE DataInv'
  <2>1. call[c].key \in Keys /\ call[c].amount \in Limits
    BY <1>16 DEF PromoteRule, Attaching
  <2>2. rules' \in [Keys -> [Limits -> RuleStates]]
    BY <1>16, <2>1, ZenonT(30) DEF PromoteRule, Promoted, RuleStates
  <2> QED
    BY <1>16, <2>1, <2>2 DEF PromoteRule
<1>17. ASSUME NEW c \in Calls, RecordRule(c) PROVE DataInv'
  BY <1>17 DEF RecordRule, Attaching
<1>18. ASSUME NEW c \in Calls, AttachFails(c) PROVE DataInv'
  BY <1>18 DEF AttachFails, Attaching
<1>19. ASSUME NEW c \in Calls, UpdateLimits(c) PROVE DataInv'
  BY <1>19 DEF UpdateLimits, CallType
<1>20. CASE CarriedOutLate
  <2>1. PICK p \in late : /\ late' = late \ {p}
                          /\ CarryOut(p[1], p[2])
                          /\ Overtake(p[1], {})
    BY <1>20 DEF CarriedOutLate
  <2>2. p[1] \in Keys /\ p[2] \in States
    BY <2>1
  <2>3. state' \in [Keys -> States \cup {"none"}] /\ news' \in [Keys -> Seq(States)]
    BY <2>1, <2>2, CarryOutType
  <2>4. overtaken' \subseteq Calls /\ muddled' \subseteq Keys
    <3>1. {} \in SUBSET Calls
      OBVIOUS
    <3> QED
      BY <2>1, <2>2, <3>1, OvertakeType
  <2> QED
    BY <1>20, <2>1, <2>3, <2>4 DEF CarriedOutLate
<1>21. ASSUME NEW k \in Keys, NEW i \in DOMAIN news[k], SyncCardState(k, i) PROVE DataInv'
  <2>1. RemoveAt(news[k], i) \in Seq(States)
    BY RemoveAtType
  <2>2. news' \in [Keys -> Seq(States)]
    BY <1>21, <2>1 DEF SyncCardState
  <2>3. status' \in [Keys -> Statuses \cup {"none"}]
    <3>1. StatusOf(news[k][i]) # {} => (CHOOSE t \in StatusOf(news[k][i]) : TRUE) \in Statuses
      BY DEF StatusOf
    <3> QED
      BY <1>21, <3>1 DEF SyncCardState
  <2> QED
    BY <1>21, <2>2, <2>3 DEF SyncCardState
<1>22. ASSUME NEW k \in Keys, WebhookLost(k) PROVE DataInv'
  <2>1. Tail(news[k]) \in Seq(States)
    BY <1>22 DEF WebhookLost
  <2>2. news' \in [Keys -> Seq(States)]
    BY <1>22, <2>1 DEF WebhookLost
  <2> QED
    BY <1>22, <2>2 DEF WebhookLost
<1>23. CASE UNCHANGED vars
  BY <1>23 DEF vars
<1> HIDE DEF CallInv, DataInv
<1> QED
  BY <1>1, <1>2, <1>3, <1>4, <1>5, <1>6, <1>7, <1>8, <1>9, <1>10, <1>11, <1>12, <1>13, <1>14,
     <1>15, <1>16, <1>17, <1>18, <1>19, <1>20, <1>21, <1>22, <1>23
  DEF Next, SetStatus, FreezeCard, Statuses

-----------------------------------------------------------------------------
(* Cards are paid for, frozen cards stay frozen, rows follow the issuer.   *)

\* A card that is issued was paid for, a row that is saved has its card, and a state is asked for,
\* with or without success, only for a card that has a row.
PaidInv ==
  /\ \A k \in Keys : /\ charged[k] <= 1
                     /\ state[k] # "none" => charged[k] = 1
                     /\ status[k] # "none" => state[k] # "none"
  /\ \A c \in Calls : /\ call[c].pc = "issue" => charged[call[c].key] = 1
                      /\ call[c].pc = "save" => state[call[c].key] # "none"
                      /\ call[c].pc \in Changing => status[call[c].key] # "none"
  /\ \A p \in late : status[p[1]] # "none"

Changes(c, k) == call[c].key = k /\ call[c].pc \in Changing

\* Of what is under way only a late unfreeze can open a safe card, and a request that was not
\* overtaken finds the card as it left it.
SafeInv ==
  /\ \A k \in safe : /\ status[k] # "none"
                     /\ state[k] = "OPEN" => k \in thawed
                     /\ \A c \in Calls : Changes(c, k) => call[c].target # "ACTIVE"
  /\ \A k \in Keys : \A c, d \in Calls : (c # d /\ Changes(c, k) /\ Changes(d, k)) => c \in overtaken
  /\ \A c \in Calls \ overtaken :
       (call[c].pc = "write" /\ call[c].target # "ACTIVE") => state[call[c].key] # "OPEN"

\* Where nothing was overtaken, the last webhook on its way tells the state of the card.
RowInv ==
  /\ \A k \in Keys : status[k] = "none" => state[k] \in {"none", "OPEN"} /\ news[k] = <<>>
  /\ \A k \in Keys \ muddled :
       /\ (status[k] # "none" /\ news[k] = <<>>) => state[k] = ToLithicState[status[k]]
       /\ news[k] # <<>> => news[k][Len(news[k])] = state[k]
       /\ \A c, d \in Calls : (Changes(c, k) /\ Changes(d, k)) => c = d
       /\ \A c \in Calls : (Changes(c, k) /\ call[c].pc = "write") => state[k] = ToLithicState[call[c].target]

\* What steps do to the requests, field by field.
Others(c) == \A d \in Calls \ {c} : call'[d] = call[d]

Keeps(c, pc) ==
  /\ call[c].key \in Keys /\ call[c].target \in Statuses
  /\ call'[c].pc = pc /\ call'[c].key = call[c].key /\ call'[c].target = call[c].target
  /\ Others(c)

Ends(c) == call[c].key \in Keys /\ call[c].target \in Statuses /\ call'[c].pc = "idle" /\ Others(c)

Begins(c, k, pc, t) ==
  call[c].pc = "idle" /\ call'[c].pc = pc /\ call'[c].key = k /\ call'[c].target = t /\ Others(c)

LEMMA GotoKeeps ==
  ASSUME CallInv, NEW c \in Calls, NEW pc, call[c].pc # "idle", Goto(c, pc)
  PROVE  Keeps(c, pc)
<1> DEFINE r == [call[c] EXCEPT !.pc = pc]
<1>1. call' = [call EXCEPT ![c] = r]
  BY Zenon DEF Goto
<1>2. r.pc = pc /\ r.key = call[c].key /\ r.target = call[c].target
  BY DEF CallInv, CallType
<1>3. call[c].key \in Keys /\ call[c].target \in Statuses
  BY DEF CallInv, CallType
<1> HIDE DEF r
<1> QED
  BY <1>1, <1>2, <1>3 DEF CallInv, Keeps, Others

LEMMA LeaveEnds ==
  ASSUME CallInv, NEW c \in Calls, call[c].pc # "idle", Leave(c)
  PROVE  Ends(c)
  BY DEF CallInv, CallType, Leave, NoCall, Ends, Others

LEMMA RequestBegins ==
  ASSUME CallInv, NEW c \in Calls, NEW k \in Keys
  PROVE  /\ \A t \in Statuses : StartChange(c, k, t) => Begins(c, k, "patch", t)
         /\ \A l \in KeyLimits[k] : CountCards(c, k, l) => Begins(c, k, "charge", "ACTIVE")
         /\ \A l \in Limits \cup {0} : StartLimits(c, k, l) => Begins(c, k, "spend", "ACTIVE")
<1>1. ASSUME NEW t \in Statuses, StartChange(c, k, t) PROVE Begins(c, k, "patch", t)
  BY <1>1 DEF CallInv, StartChange, NoCall, Request, Begins, Others
<1>2. ASSUME NEW l \in KeyLimits[k], CountCards(c, k, l) PROVE Begins(c, k, "charge", "ACTIVE")
  BY <1>2 DEF CallInv, CountCards, NoCall, Request, Begins, Others
<1>3. ASSUME NEW l \in Limits \cup {0}, StartLimits(c, k, l) PROVE Begins(c, k, "spend", "ACTIVE")
  BY <1>3 DEF CallInv, StartLimits, NoCall, Request, Begins, Others
<1> QED
  BY <1>1, <1>2, <1>3

LEMMA CreateMoves ==
  ASSUME CallInv, NEW c \in Calls
  PROVE  /\ ChargeIssuance(c) => Keeps(c, "issue") \/ Ends(c)
         /\ IssueCard(c) => Keeps(c, "save")
         /\ IssueFails(c) => Ends(c)
         /\ SaveCard(c) => Keeps(c, "attach") \/ Ends(c)
  BY GotoKeeps, LeaveEnds DEF ChargeIssuance, IssueCard, IssueFails, SaveCard

LEMMA ChangeMoves ==
  ASSUME CallInv, NEW c \in Calls
  PROVE  /\ PatchCard(c) =>
              IF Refused(call[c].key, ToLithicState[call[c].target]) THEN Ends(c) ELSE Keeps(c, "write")
         /\ PatchTimesOut(c) => Keeps(c, "patch")
         /\ WriteStatus(c) => Ends(c)
  BY GotoKeeps, LeaveEnds DEF PatchCard, PatchTimesOut, AfterTimeout, WriteStatus

\* Steps that have to do with neither the states nor the fees of cards.
Quiet(c) ==
  /\ UNCHANGED <<state, status, charged, late, news, overtaken, muddled, safe, thawed, crowded>>
  /\ Others(c)
  /\ call'[c].pc \notin Changing \cup Creating

LEMMA QuietSteps ==
  ASSUME CallInv, NEW c \in Calls,
         \/ \E k \in Keys, l \in Limits \cup {0} : StartLimits(c, k, l)
         \/ Die(c)
         \/ UpdateCardLimit(c) \/ DeleteRules(c) \/ DeleteFails(c) \/ DeleteRows(c)
         \/ CreateRule(c) \/ PromoteRule(c) \/ RecordRule(c) \/ AttachFails(c) \/ UpdateLimits(c)
  PROVE  Quiet(c)
<1> USE DEF Attaching
<1>1. \/ Ends(c)
      \/ \E pc \in Ruling : Keeps(c, pc)
      \/ \E k \in Keys : Begins(c, k, "spend", "ACTIVE")
  <2>1. ASSUME NEW k \in Keys, NEW l \in Limits \cup {0}, StartLimits(c, k, l)
        PROVE  Begins(c, k, "spend", "ACTIVE")
    BY <2>1, RequestBegins
  <2>2. Die(c) => Ends(c)
    BY LeaveEnds DEF Die, CallInv
  <2>3. UpdateCardLimit(c) => Ends(c) \/ Keeps(c, "drop")
    BY LeaveEnds, GotoKeeps DEF UpdateCardLimit
  <2>4. DeleteRules(c) \/ DeleteFails(c) => Keeps(c, "forget")
    BY GotoKeeps DEF DeleteRules, DeleteFails
  <2>5. DeleteRows(c) => Keeps(c, "row") \/ Keeps(c, "attach")
    BY GotoKeeps DEF DeleteRows
  <2>6. (CreateRule(c) => Keeps(c, "promote")) /\ (PromoteRule(c) => Keeps(c, "record"))
    BY GotoKeeps DEF CreateRule, PromoteRule
  <2>7. RecordRule(c) \/ AttachFails(c) => Ends(c) \/ Keeps(c, "row")
    BY LeaveEnds, GotoKeeps DEF RecordRule, AttachFails, AfterRules
  <2>8. UpdateLimits(c) => Ends(c)
    BY LeaveEnds DEF UpdateLimits
  <2> QED
    BY <2>1, <2>2, <2>3, <2>4, <2>5, <2>6, <2>7, <2>8 DEF Ruling
<1>2. UNCHANGED <<state, status, charged, late, news, overtaken, muddled, safe, thawed, crowded>>
  BY DEF StartLimits, Die, UpdateCardLimit, DeleteRules, DeleteFails, DeleteRows, CreateRule,
         PromoteRule, RecordRule, AttachFails, UpdateLimits, money, ruling, history, freezes, doubts, counters
<1>3. Others(c) /\ call'[c].pc \notin Changing \cup Creating
  BY <1>1 DEF Keeps, Ends, Begins, Ruling, Changing, Creating
<1> QED
  BY <1>2, <1>3 DEF Quiet

\* The steps of Next, the quiet ones under one name.
LEMMA Steps ==
  ASSUME CallInv, [Next]_vars
  PROVE  \/ \E c \in Calls : \/ Quiet(c) \/ ChargeIssuance(c) \/ IssueCard(c) \/ IssueFails(c)
                             \/ SaveCard(c) \/ PatchCard(c) \/ PatchTimesOut(c) \/ WriteStatus(c)
         \/ \E c \in Calls, k \in Keys : \E l \in KeyLimits[k] : CountCards(c, k, l)
         \/ \E c \in Calls, k \in Keys, t \in Statuses : StartChange(c, k, t)
         \/ CarriedOutLate
         \/ \E k \in Keys : (\E i \in DOMAIN news[k] : SyncCardState(k, i)) \/ WebhookLost(k)
         \/ UNCHANGED vars
  BY QuietSteps DEF Next, SetStatus, FreezeCard, Statuses

\* What was once paid, issued or saved stays so.
Grows ==
  \A k \in Keys :
    /\ charged'[k] <= 1 /\ (charged[k] = 1 => charged'[k] = 1)
    /\ state[k] # "none" => state'[k] # "none"
    /\ status[k] # "none" => status'[k] # "none"
    /\ state'[k] # "none" => charged'[k] = 1
    /\ status'[k] # "none" => state'[k] # "none"

LEMMA PaidGrows ==
  ASSUME CallInv, DataInv, PaidInv, Grows, NEW c \in Calls, Others(c),
         call'[c].pc = "issue" => charged'[call'[c].key] = 1,
         call'[c].pc = "save" => state'[call'[c].key] # "none",
         call'[c].pc \in Changing => status'[call'[c].key] # "none",
         \A p \in late' \ late : p[1] \in Keys /\ status[p[1]] # "none"
  PROVE  PaidInv'
<1>1. \A d \in Calls : call[d].pc # "idle" => call[d].key \in Keys
  BY DEF CallInv
<1>2. \A p \in late : p[1] \in Keys
  BY DEF DataInv
<1> QED
  BY <1>1, <1>2 DEF PaidInv, Grows, Others, Changing

LEMMA PaidStep ==
  ASSUME CallInv, DataInv, PaidInv, [Next]_vars
  PROVE  PaidInv'
<1>0. PaidInv!1
  BY DEF PaidInv
<1>1. ASSUME NEW c \in Calls, Quiet(c) PROVE PaidInv'
  BY <1>1 DEF Quiet, Creating, Changing, PaidInv, Others
<1>2. ASSUME NEW c \in Calls, ChargeIssuance(c) PROVE PaidInv'
  <2>1. Others(c) /\ call[c].key \in Keys /\ call[c].pc = "charge"
        /\ call'[c].pc \in {"issue", "idle"}
    BY <1>2, CreateMoves DEF Keeps, Ends, ChargeIssuance
  <2>2. UNCHANGED <<state, status, late>>
    BY <1>2 DEF ChargeIssuance
  <2>3. /\ \A k \in Keys : charged'[k] = charged[k] \/ (charged[k] = 0 /\ charged'[k] = 1)
        /\ call'[c].pc = "issue" => call'[c].key = call[c].key /\ charged'[call[c].key] = 1
    <3>1. CASE PaidBefore(call[c].key) /\ Goto(c, "issue") /\ UNCHANGED charged
      <4>1. Keeps(c, "issue")
        BY <3>1, <2>1, GotoKeeps
      <4> QED
        BY <3>1, <4>1, <2>1, <1>0 DEF Keeps, PaidBefore, DataInv
    <3>2. CASE ~PaidBefore(call[c].key) /\ Goto(c, "issue")
               /\ charged' = [charged EXCEPT ![call[c].key] = @ + 1]
      <4>1. Keeps(c, "issue")
        BY <3>2, <2>1, GotoKeeps
      <4> QED
        BY <3>2, <4>1, <2>1, <1>0 DEF Keeps, PaidBefore, DataInv
    <3>3. CASE Leave(c) /\ UNCHANGED charged
      <4>1. Ends(c)
        BY <3>3, <2>1, LeaveEnds
      <4> QED
        BY <3>3, <4>1 DEF Ends
    <3> QED
      BY <1>2, <3>1, <3>2, <3>3 DEF ChargeIssuance
  <2>4. Grows
    BY <2>2, <2>3, <1>0 DEF Grows, DataInv
  <2> QED
    BY <2>1, <2>2, <2>3, <2>4, PaidGrows DEF Changing
<1>3. ASSUME NEW c \in Calls, IssueCard(c) \/ IssueFails(c) PROVE PaidInv'
  <2>1. Keeps(c, "save") \/ Ends(c)
    BY <1>3, CreateMoves
  <2>2. call[c].pc = "issue" /\ UNCHANGED <<status, charged, late>>
        /\ (IssueCard(c) => state' = [state EXCEPT ![call[c].key] = IF @ = "none" THEN "OPEN" ELSE @])
        /\ (IssueFails(c) => state' \in {state, [state EXCEPT ![call[c].key] = IF @ = "none" THEN "OPEN" ELSE @]})
    BY <1>3 DEF IssueCard, IssueFails, money
  <2>3. charged[call[c].key] = 1 /\ call[c].key \in Keys
    BY <2>1, <2>2 DEF PaidInv, Keeps, Ends
  <2>4. \A k \in Keys : state'[k] = state[k] \/ (k = call[c].key /\ state'[k] = "OPEN")
    BY <1>3, <2>2, <2>3 DEF DataInv
  <2>5. Grows
    BY <2>2, <2>3, <2>4, <1>0 DEF Grows
  <2>6. Others(c) /\ (call'[c].pc = "save" => state'[call'[c].key] # "none")
        /\ call'[c].pc \in {"save", "idle"}
    <3>1. CASE IssueCard(c)
      BY <3>1, <2>2, <2>3, CreateMoves DEF Keeps, DataInv
    <3>2. CASE IssueFails(c)
      BY <3>2, CreateMoves DEF Ends
    <3> QED
      BY <1>3, <3>1, <3>2
  <2> QED
    BY <2>2, <2>5, <2>6, PaidGrows DEF Changing
<1>5. ASSUME NEW c \in Calls, SaveCard(c) PROVE PaidInv'
  <2>1. (Keeps(c, "attach") \/ Ends(c)) /\ call[c].pc = "save"
    BY <1>5, CreateMoves DEF SaveCard
  <2>2. UNCHANGED <<state, charged, late>>
        /\ status' = [status EXCEPT ![call[c].key] = IF @ = "none" THEN "ACTIVE" ELSE @]
    BY <1>5 DEF SaveCard, money
  <2>3. call[c].key \in Keys /\ state[call[c].key] # "none" /\ Others(c)
        /\ call'[c].pc \in {"attach", "idle"}
    BY <2>1 DEF PaidInv, Keeps, Ends
  <2>4. \A k \in Keys : status'[k] = status[k] \/ (k = call[c].key /\ status'[k] = "ACTIVE")
    BY <2>2, <2>3 DEF DataInv
  <2>5. Grows
    BY <2>2, <2>3, <2>4, <1>0 DEF Grows
  <2> QED
    BY <2>2, <2>3, <2>5, PaidGrows DEF Changing
<1>6. ASSUME NEW c \in Calls, PatchCard(c) PROVE PaidInv'
  <2>1. (Keeps(c, "write") \/ Ends(c)) /\ call[c].pc = "patch"
    BY <1>6, ChangeMoves DEF PatchCard
  <2>2. UNCHANGED <<status, charged, late>> /\ CarryOut(call[c].key, ToLithicState[call[c].target])
    BY <1>6 DEF PatchCard, money
  <2>3. call[c].key \in Keys /\ status[call[c].key] # "none" /\ Others(c)
        /\ (call'[c].pc = "write" => call'[c].key = call[c].key) /\ call'[c].pc \in {"write", "idle"}
    BY <2>1 DEF PaidInv, Keeps, Ends, Changing
  <2>4. ToLithicState[call[c].target] # "none"
    BY <2>1 DEF Keeps, Ends, ToLithicState, Statuses
  <2>5. \A k \in Keys : state'[k] = state[k] \/ (k = call[c].key /\ state'[k] # "none")
    BY <2>2, <2>3, <2>4 DEF DataInv, CarryOut
  <2>6. Grows
    BY <2>2, <2>3, <2>5, <1>0 DEF Grows
  <2> QED
    BY <2>2, <2>3, <2>6, PaidGrows DEF Changing
<1>7. ASSUME NEW c \in Calls, PatchTimesOut(c) PROVE PaidInv'
  <2>1. Keeps(c, "patch") /\ call[c].pc = "patch"
    BY <1>7, ChangeMoves DEF PatchTimesOut
  <2>2. UNCHANGED <<state, status, charged>>
        /\ late' = late \cup {<<call[c].key, ToLithicState[call[c].target]>>}
    BY <1>7 DEF PatchTimesOut, money
  <2>3. call[c].key \in Keys /\ status[call[c].key] # "none" /\ Others(c)
        /\ call'[c].key = call[c].key /\ call'[c].pc = "patch"
    BY <2>1 DEF PaidInv, Keeps, Changing
  <2>4. Grows
    BY <2>2, <1>0 DEF Grows
  <2> QED
    BY <2>2, <2>3, <2>4, PaidGrows
<1>8. ASSUME NEW c \in Calls, WriteStatus(c) PROVE PaidInv'
  <2>1. Ends(c) /\ call[c].pc = "write"
    BY <1>8, ChangeMoves DEF WriteStatus
  <2>2. UNCHANGED <<state, charged, late>> /\ status' = [status EXCEPT ![call[c].key] = call[c].target]
    BY <1>8 DEF WriteStatus, money
  <2>3. status[call[c].key] # "none" /\ call[c].key \in Keys /\ call[c].target # "none"
    BY <2>1 DEF PaidInv, Changing, Ends, Statuses
  <2>4. \A k \in Keys : status'[k] = status[k] \/ (k = call[c].key /\ status'[k] # "none")
    BY <2>2, <2>3 DEF DataInv
  <2>5. Grows
    BY <2>2, <2>3, <2>4, <1>0 DEF Grows
  <2> QED
    BY <2>1, <2>2, <2>5, PaidGrows DEF Ends, Changing
<1>9. ASSUME NEW c \in Calls, NEW k \in Keys, NEW l \in KeyLimits[k], CountCards(c, k, l) PROVE PaidInv'
  <2>1. Begins(c, k, "charge", "ACTIVE")
    BY <1>9, RequestBegins
  <2> QED
    BY <1>9, <2>1 DEF CountCards, Begins, PaidInv, Changing, Others, money
<1>10. ASSUME NEW c \in Calls, NEW k \in Keys, NEW t \in Statuses, StartChange(c, k, t) PROVE PaidInv'
  <2>1. Begins(c, k, "patch", t)
    BY <1>10, RequestBegins
  <2> QED
    BY <1>10, <2>1 DEF StartChange, Begins, PaidInv, Changing, Others, money
<1>11. CASE CarriedOutLate
  <2>1. PICK p \in late : late' = late \ {p} /\ CarryOut(p[1], p[2])
    BY <1>11 DEF CarriedOutLate
  <2>2. p[1] \in Keys /\ p[2] # "none" /\ status[p[1]] # "none"
    BY <2>1 DEF DataInv, States, PaidInv
  <2>3. UNCHANGED <<status, charged, call>>
    BY <1>11 DEF CarriedOutLate, money
  <2>4. \A k \in Keys : state'[k] = state[k] \/ (k = p[1] /\ state'[k] # "none")
    BY <2>1, <2>2 DEF DataInv, CarryOut
  <2>5. \A d \in Calls : call[d].pc # "idle" => call[d].key \in Keys
    BY DEF CallInv
  <2> QED
    BY <2>1, <2>2, <2>3, <2>4, <2>5 DEF PaidInv, Changing
<1>12. ASSUME NEW k \in Keys, NEW i \in DOMAIN news[k], SyncCardState(k, i) PROVE PaidInv'
  <2>1. UNCHANGED <<state, charged, call, late>>
        /\ \A j \in Keys : status'[j] = "none" <=> status[j] = "none"
    <3>1. StatusOf(news[k][i]) # {} => (CHOOSE t \in StatusOf(news[k][i]) : TRUE) # "none"
      BY DEF StatusOf, Statuses
    <3> QED
      BY <1>12, <3>1 DEF SyncCardState, DataInv, money
  <2>2. \A d \in Calls : call[d].pc # "idle" => call[d].key \in Keys
    BY DEF CallInv
  <2> QED
    BY <2>1, <2>2 DEF DataInv, PaidInv, Changing
<1>13. ASSUME NEW k \in Keys, WebhookLost(k) PROVE PaidInv'
  BY <1>13 DEF WebhookLost, PaidInv, money
<1>14. CASE UNCHANGED vars
  BY <1>14 DEF vars, PaidInv, money
<1> QED
  BY Steps, <1>1, <1>2, <1>3, <1>5, <1>6, <1>7, <1>8, <1>9, <1>10, <1>11, <1>12, <1>13, <1>14

\* Steps that leave the states and their changes alone.
Aside(c) ==
  /\ UNCHANGED <<state, status, late, news, overtaken, muddled, safe, thawed>>
  /\ Others(c)
  /\ call'[c].pc \notin Changing

LEMMA AsideSteps ==
  ASSUME CallInv, NEW c \in Calls
  PROVE  /\ Quiet(c) => Aside(c)
         /\ ChargeIssuance(c) => Aside(c)
         /\ \A k \in Keys : \A l \in KeyLimits[k] : CountCards(c, k, l) => Aside(c)
<1>1. Quiet(c) => Aside(c)
  BY DEF Quiet, Aside
<1>2. ChargeIssuance(c) => Aside(c)
  BY CreateMoves DEF ChargeIssuance, Aside, Keeps, Ends, Changing, history, freezes, money
<1>3. ASSUME NEW k \in Keys, NEW l \in KeyLimits[k], CountCards(c, k, l) PROVE Aside(c)
  <2>1. Begins(c, k, "charge", "ACTIVE")
    BY <1>3, RequestBegins
  <2> QED
    BY <1>3, <2>1 DEF CountCards, Aside, Begins, Changing, freezes
<1> QED
  BY <1>1, <1>2, <1>3

LEMMA IssueEffect ==
  ASSUME CallInv, DataInv, NEW c \in Calls, IssueCard(c) \/ IssueFails(c)
  PROVE  /\ UNCHANGED <<status, late, news, overtaken, muddled, safe, thawed, crowded>>
         /\ Others(c) /\ call'[c].pc \notin Changing
         /\ \A k \in Keys : state'[k] = state[k] \/ (state[k] = "none" /\ state'[k] = "OPEN")
<1>1. Keeps(c, "save") \/ Ends(c)
  BY CreateMoves
<1>2. UNCHANGED <<status, late, news, overtaken, muddled, safe, thawed, crowded>>
  BY DEF IssueCard, IssueFails, history, freezes
<1>3. /\ IssueCard(c) => state' = [state EXCEPT ![call[c].key] = IF @ = "none" THEN "OPEN" ELSE @]
      /\ IssueFails(c) => state' \in {state, [state EXCEPT ![call[c].key] = IF @ = "none" THEN "OPEN" ELSE @]}
  BY DEF IssueCard, IssueFails
<1>4. \A k \in Keys : state'[k] = state[k] \/ (state[k] = "none" /\ state'[k] = "OPEN")
  BY <1>3 DEF DataInv
<1> QED
  BY <1>1, <1>2, <1>4 DEF Keeps, Ends, Changing

LEMMA SaveEffect ==
  ASSUME CallInv, DataInv, NEW c \in Calls, SaveCard(c)
  PROVE  /\ UNCHANGED <<state, late, news, overtaken, muddled, safe, thawed, crowded>>
         /\ Others(c) /\ call'[c].pc \notin Changing
         /\ call[c].pc = "save" /\ call[c].key \in Keys
         /\ status' = [status EXCEPT ![call[c].key] = IF @ = "none" THEN "ACTIVE" ELSE @]
<1>1. Keeps(c, "attach") \/ Ends(c)
  BY CreateMoves
<1> QED
  BY <1>1 DEF SaveCard, Keeps, Ends, Changing, freezes

LEMMA PatchEffect ==
  ASSUME CallInv, DataInv, NEW c \in Calls, PatchCard(c)
  PROVE  LET k == call[c].key
             s == ToLithicState[call[c].target]
         IN /\ UNCHANGED <<status, late, overtaken, muddled, safe, thawed, crowded>>
            /\ call[c].pc = "patch" /\ k \in Keys /\ s \in States /\ call[c].target \in Statuses
            /\ CarryOut(k, s)
            /\ \A j \in Keys \ {k} : state'[j] = state[j] /\ news'[j] = news[j]
            /\ \/ Ends(c) /\ state'[k] = state[k]
               \/ Keeps(c, "write") /\ state'[k] = s
<1> DEFINE k == call[c].key
           s == ToLithicState[call[c].target]
<1>1. IF Refused(k, s) THEN Ends(c) ELSE Keeps(c, "write")
  BY ChangeMoves
<1>2. k \in Keys /\ s \in States /\ call[c].target \in Statuses
  BY <1>1 DEF Keeps, Ends, Statuses, States, ToLithicState
<1>3. CarryOut(k, s) /\ call[c].pc = "patch" /\ UNCHANGED <<status, late, overtaken, muddled, safe, thawed, crowded>>
  BY DEF PatchCard, history, freezes
<1> HIDE DEF k, s
<1>4. \A j \in Keys \ {k} : state'[j] = state[j] /\ news'[j] = news[j]
  BY <1>2, <1>3 DEF CarryOut, DataInv
<1>5. CASE Refused(k, s)
  BY <1>1, <1>2, <1>3, <1>4, <1>5 DEF Refused, CarryOut, k, s
<1>6. CASE ~Refused(k, s)
  <2>1. state'[k] = s
    BY <1>2, <1>3, <1>6 DEF Refused, CarryOut, DataInv
  <2> QED
    BY <1>1, <1>2, <1>3, <1>4, <1>6, <2>1 DEF k, s
<1> QED
  BY <1>5, <1>6

LEMMA SafeStep ==
  ASSUME CallInv, DataInv, PaidInv, SafeInv, [Next]_vars
  PROVE  SafeInv'
<1>0. \A d \in Calls : call[d].pc # "idle" => call[d].key \in Keys
  BY DEF CallInv
<1>1. ASSUME NEW c \in Calls, Aside(c) PROVE SafeInv'
  BY <1>1 DEF Aside, SafeInv, Changes, Others, Changing
<1>3. ASSUME NEW c \in Calls, IssueCard(c) \/ IssueFails(c) PROVE SafeInv'
  <2>1. UNCHANGED <<status, late, overtaken, safe, thawed>> /\ Others(c) /\ call'[c].pc \notin Changing
    BY <1>3, IssueEffect
  <2>2. \A k \in Keys : status[k] # "none" => state'[k] = state[k]
    BY <1>3, IssueEffect DEF PaidInv
  <2>3. safe \subseteq Keys
        /\ \A d \in Calls : call[d].pc \in Changing => call[d].key \in Keys /\ status[call[d].key] # "none"
    BY <1>0 DEF PaidInv, DataInv, Changing
  <2> QED
    BY <2>1, <2>2, <2>3 DEF SafeInv, Changes, Others, Changing
<1>5. ASSUME NEW c \in Calls, SaveCard(c) PROVE SafeInv'
  <2>1. UNCHANGED <<state, late, overtaken, safe, thawed>> /\ Others(c) /\ call'[c].pc \notin Changing
    BY <1>5, SaveEffect
  <2>2. safe \subseteq Keys /\ \A k \in Keys : status[k] # "none" => status'[k] # "none"
    BY <1>5, SaveEffect DEF DataInv
  <2> QED
    BY <2>1, <2>2 DEF SafeInv, Changes, Others, Changing
<1>6. ASSUME NEW c \in Calls, PatchCard(c) PROVE SafeInv'
  <2> DEFINE k == call[c].key
             s == ToLithicState[call[c].target]
  <2>1. /\ UNCHANGED <<status, late, overtaken, muddled, safe, thawed, crowded>>
        /\ call[c].pc = "patch" /\ k \in Keys /\ call[c].target \in Statuses
        /\ \A j \in Keys \ {k} : state'[j] = state[j]
        /\ \/ Ends(c) /\ state'[k] = state[k]
           \/ Keeps(c, "write") /\ state'[k] = s
    BY <1>6, PatchEffect
  <2>2. s = "OPEN" => call[c].target = "ACTIVE"
    BY <2>1 DEF Statuses, ToLithicState
  <2>3. Others(c) /\ call'[c].pc \in {"idle", "write"}
        /\ (call'[c].pc = "write" => call'[c].key = k /\ call'[c].target = call[c].target /\ state'[k] = s)
    BY <2>1 DEF Keeps, Ends
  <2>4. state'[k] \in {state[k], s}
    BY <2>1
  <2> HIDE DEF s
  <2>5. \A j \in safe : state'[j] = "OPEN" => j \in thawed
    BY <2>1, <2>2, <2>4 DEF SafeInv, Changes, Changing, DataInv
  <2>6. \A d \in Calls \ overtaken : (d # c /\ call[d].pc = "write") => call[d].key # k
    BY <2>1 DEF SafeInv, Changes, Changing
  <2> QED
    BY <1>0, <2>1, <2>2, <2>3, <2>5, <2>6 DEF SafeInv, Changes, Others, Changing
<1>7. ASSUME NEW c \in Calls, PatchTimesOut(c) PROVE SafeInv'
  <2>1. Keeps(c, "patch") /\ call[c].pc = "patch" /\ UNCHANGED <<state, status, overtaken, safe, thawed>>
        /\ late' = late \cup {<<call[c].key, ToLithicState[call[c].target]>>}
    BY <1>7, ChangeMoves DEF PatchTimesOut, history, freezes
  <2>2. ToLithicState[call[c].target] = "OPEN" => call[c].target = "ACTIVE"
    BY <2>1 DEF Keeps, Statuses, ToLithicState
  <2> QED
    BY <2>1, <2>2 DEF Keeps, SafeInv, Changes, Others, Changing
<1>8. ASSUME NEW c \in Calls, WriteStatus(c) PROVE SafeInv'
  <2>1. Ends(c) /\ call[c].pc = "write" /\ UNCHANGED <<state, late, overtaken>>
        /\ status' = [status EXCEPT ![call[c].key] = call[c].target]
        /\ IF call[c].target # "ACTIVE" /\ c \notin overtaken
           THEN safe' = safe \cup {call[c].key} /\ thawed' = thawed \ {call[c].key}
           ELSE UNCHANGED <<safe, thawed>>
    BY <1>8, ChangeMoves DEF WriteStatus, freezes
  <2>2. \A k \in Keys : status[k] # "none" => status'[k] # "none"
    BY <2>1 DEF Ends, Statuses, DataInv
  <2>3. status[call[c].key] # "none" /\ call[c].key \in Keys
    BY <2>1 DEF PaidInv, Changing, Ends
  <2>4. safe \subseteq Keys
    BY DEF DataInv
  <2> QED
    BY <2>1, <2>2, <2>3, <2>4 DEF SafeInv, Changes, Others, Changing, Ends
<1>10. ASSUME NEW c \in Calls, NEW k \in Keys, NEW t \in Statuses, StartChange(c, k, t) PROVE SafeInv'
  <2>1. Begins(c, k, "patch", t) /\ Overtake(k, {c}) /\ UNCHANGED <<state, status, late, thawed>>
        /\ safe' = IF t = "ACTIVE" THEN safe \ {k} ELSE safe
    BY <1>10, RequestBegins DEF StartChange
  <2>2. \/ (\A d \in Calls : ~Changes(d, k)) /\ overtaken' = overtaken \ {c}
        \/ overtaken' = overtaken \cup {d \in Calls : Changes(d, k)} \cup {c}
    BY <2>1 DEF Overtake, On, Changes
  <2> QED
    BY <2>1, <2>2 DEF SafeInv, Changes, Others, Changing, Begins
<1>11. CASE CarriedOutLate
  <2>1. PICK p \in late :
          /\ late' = late \ {p} /\ CarryOut(p[1], p[2]) /\ Overtake(p[1], {})
          /\ thawed' = IF p[2] = "OPEN" /\ state[p[1]] = "PAUSED" THEN thawed \cup {p[1]} ELSE thawed
    BY <1>11 DEF CarriedOutLate
  <2>2. UNCHANGED <<status, call, safe>>
    BY <1>11 DEF CarriedOutLate
  <2>3. p[1] \in Keys /\ p = <<p[1], p[2]>>
    BY DEF DataInv
  <2>4. \A j \in Keys :
          state'[j] = state[j] \/ (j = p[1] /\ state'[j] = p[2] /\ state[j] # "CLOSED" /\ state[j] # p[2])
    BY <2>1, <2>3 DEF CarryOut, DataInv
  <2>5. \/ (\A d \in Calls : ~Changes(d, p[1])) /\ overtaken' = overtaken
        \/ overtaken' = overtaken \cup {d \in Calls : Changes(d, p[1])}
    BY <2>1 DEF Overtake, On, Changes
  <2>6. \A j \in safe : state'[j] = "OPEN" => j \in thawed'
    <3>1. safe \subseteq Keys /\ \A j \in Keys : state[j] \in {"none", "OPEN", "PAUSED", "CLOSED"}
      BY DEF DataInv, States
    <3>2. \A j \in safe : state[j] # "none" /\ (state[j] = "OPEN" => j \in thawed)
      BY <3>1 DEF SafeInv, PaidInv
    <3> QED
      BY <2>1, <2>4, <3>1, <3>2
  <2>7. \A d \in Calls \ overtaken' : call[d].pc = "write" =>
          d \notin overtaken /\ call[d].key \in Keys /\ call[d].key # p[1]
    BY <1>0, <2>5 DEF Changes, Changing
  <2>8. overtaken \subseteq overtaken'
    BY <2>5
  <2> QED
    BY <2>2, <2>4, <2>6, <2>7, <2>8 DEF SafeInv, Changes
<1>12. ASSUME NEW k \in Keys, NEW i \in DOMAIN news[k], SyncCardState(k, i) PROVE SafeInv'
  <2>1. UNCHANGED <<state, call, late, overtaken, safe, thawed>>
        /\ \A j \in Keys : status'[j] = "none" <=> status[j] = "none"
    <3>1. StatusOf(news[k][i]) # {} => (CHOOSE t \in StatusOf(news[k][i]) : TRUE) # "none"
      BY DEF StatusOf, Statuses
    <3> QED
      BY <1>12, <3>1 DEF SyncCardState, DataInv, freezes
  <2> QED
    BY <2>1 DEF DataInv, SafeInv, Changes
<1>13. ASSUME NEW k \in Keys, WebhookLost(k) PROVE SafeInv'
  BY <1>13 DEF WebhookLost, SafeInv, Changes, freezes
<1>14. CASE UNCHANGED vars
  BY <1>14 DEF vars, SafeInv, Changes, history, freezes
<1> QED
  BY Steps, AsideSteps, <1>1, <1>3, <1>5, <1>6, <1>7, <1>8, <1>10, <1>11, <1>12, <1>13, <1>14

LEMMA CarryOutNews ==
  ASSUME DataInv, NEW k \in Keys, NEW s \in States, CarryOut(k, s)
  PROVE  /\ \A j \in Keys \ {k} : state'[j] = state[j] /\ news'[j] = news[j]
         /\ \/ state'[k] = state[k] /\ news'[k] = news[k]
            \/ state'[k] = s /\ news'[k] # <<>> /\ news'[k][Len(news'[k])] = s
<1>1. CASE state[k] \in {"CLOSED", s}
  BY <1>1 DEF CarryOut
<1>2. CASE state[k] \notin {"CLOSED", s}
  <2>1. state' = [state EXCEPT ![k] = s] /\ news' = [news EXCEPT ![k] = Append(news[k], s)]
    BY <1>2 DEF CarryOut
  <2>2. news[k] \in Seq(States)
    BY DEF DataInv
  <2>3. LET q == Append(news[k], s) IN q # <<>> /\ q[Len(q)] = s
    BY <2>2
  <2> QED
    BY <2>1, <2>3 DEF DataInv
<1> QED
  BY <1>1, <1>2

LEMMA RemoveAtKeepsLast ==
  ASSUME NEW S, NEW q \in Seq(S), q # <<>>
  PROVE  /\ RemoveAt(q, 1) = Tail(q)
         /\ Tail(q) = <<>> => q[1] = q[Len(q)]
         /\ Tail(q) # <<>> => Tail(q)[Len(Tail(q))] = q[Len(q)]
<1>1. Len(q) \in Nat /\ Len(q) >= 1 /\ \A j \in 1..Len(q) : q[j] \in S
  BY EmptySeq
<1>2. SubSeq(q, 1, 0) = <<>>
  BY SubSeqEmpty
<1>3. SubSeq(q, 2, Len(q)) = Tail(q)
  BY <1>1
<1>4. Tail(q) \in Seq(S) /\ Len(Tail(q)) = Len(q) - 1 /\ \A j \in 1..(Len(q) - 1) : Tail(q)[j] = q[j + 1]
  BY HeadTailProperties
<1>5. RemoveAt(q, 1) = Tail(q)
  <2>1. RemoveAt(q, 1) = SubSeq(q, 1, 1 - 1) \o SubSeq(q, 1 + 1, Len(q))
    BY DEF RemoveAt
  <2>2. <<>> \o Tail(q) = Tail(q)
    BY <1>4, ConcatEmptySeq
  <2> QED
    BY <1>2, <1>3, <2>1, <2>2
<1>6. Tail(q) = <<>> => Len(q) = 1
  BY <1>1, <1>4
<1>7. Tail(q) # <<>> => Len(q) - 1 >= 1
  BY <1>1, <1>4, EmptySeq
<1> QED
  BY <1>1, <1>4, <1>5, <1>6, <1>7

LEMMA RowStep ==
  ASSUME CallInv, DataInv, PaidInv, RowInv, [Next]_vars
  PROVE  RowInv'
<1>0. /\ \A d \in Calls : call[d].pc \in Changing => call[d].key \in Keys /\ status[call[d].key] # "none"
      /\ \A k \in Keys : status[k] # "none" => state[k] # "none"
  BY DEF CallInv, PaidInv, Changing
<1>1. ASSUME NEW c \in Calls, Aside(c) PROVE RowInv'
  BY <1>1 DEF Aside, RowInv, Changes, Others
<1>3. ASSUME NEW c \in Calls, IssueCard(c) \/ IssueFails(c) PROVE RowInv'
  <2>1. UNCHANGED <<status, news, muddled>> /\ Others(c) /\ call'[c].pc \notin Changing
    BY <1>3, IssueEffect
  <2>2. \A k \in Keys : state'[k] = state[k] \/ (state[k] = "none" /\ state'[k] = "OPEN")
    BY <1>3, IssueEffect
  <2> QED
    BY <1>0, <2>1, <2>2 DEF RowInv, Changes, Others
<1>5. ASSUME NEW c \in Calls, SaveCard(c) PROVE RowInv'
  <2>1. UNCHANGED <<state, news, muddled>> /\ Others(c) /\ call'[c].pc \notin Changing
    BY <1>5, SaveEffect
  <2>2. \A k \in Keys : status'[k] = status[k] \/ (status[k] = "none" /\ status'[k] = "ACTIVE" /\ state[k] = "OPEN")
    <3>1. /\ call[c].key \in Keys /\ state[call[c].key] # "none"
          /\ status' = [status EXCEPT ![call[c].key] = IF status[call[c].key] = "none" THEN "ACTIVE"
                                                         ELSE status[call[c].key]]
      BY <1>5, SaveEffect DEF PaidInv
    <3>2. status[call[c].key] = "none" => state[call[c].key] = "OPEN"
      BY <3>1 DEF RowInv
    <3> QED
      BY <3>1, <3>2 DEF DataInv
  <2> QED
    BY <2>1, <2>2 DEF RowInv, Changes, Others, ToLithicState
<1>6. ASSUME NEW c \in Calls, PatchCard(c) PROVE RowInv'
  <2>0. PICK k \in Keys, s \in States : k = call[c].key /\ s = ToLithicState[call[c].target]
    BY <1>6, PatchEffect
  <2>1. /\ UNCHANGED <<status, muddled>>
        /\ call[c].pc = "patch" /\ k \in Keys /\ s \in States /\ CarryOut(k, s)
        /\ \/ Ends(c) /\ state'[k] = state[k]
           \/ Keeps(c, "write") /\ state'[k] = s
    BY <1>6, <2>0, PatchEffect
  <2>2. Others(c) /\ call'[c].pc \in {"idle", "write"}
        /\ (call'[c].pc = "write" => call'[c].key = k /\ call'[c].target = call[c].target /\ state'[k] = s)
    BY <2>0, <2>1 DEF Keeps, Ends
  <2>3. /\ \A j \in Keys \ {k} : state'[j] = state[j] /\ news'[j] = news[j]
        /\ \/ state'[k] = state[k] /\ news'[k] = news[k]
           \/ news'[k] # <<>> /\ news'[k][Len(news'[k])] = state'[k]
    BY <2>1, CarryOutNews
  <2>4. status[k] # "none"
    BY <2>0, <2>1, <1>0 DEF Changing
  <2>5. Changes(c, k)
    BY <2>0, <2>1 DEF Changes, Changing
  <2>6. s = ToLithicState[call[c].target]
    BY <2>0
  <2>7. RowInv!1'
    BY <2>1, <2>3, <2>4 DEF RowInv
  <2>8. ASSUME NEW j \in Keys \ muddled PROVE RowInv!2!(j)'
    <3>1. CASE j # k
      BY <2>1, <2>2, <2>3, <2>8, <3>1 DEF RowInv, Changes, Others, Changing
    <3>2. CASE j = k
      <4>1. \A d \in Calls : Changes(d, k)' => d = c
        BY <2>2, <2>5, <2>8, <3>2 DEF RowInv, Changes, Others
      <4>2. Changes(c, k)' => state'[k] = ToLithicState[call'[c].target]
        BY <2>2, <2>6 DEF Changes, Changing
      <4> QED
        BY <2>1, <2>3, <2>8, <3>2, <4>1, <4>2 DEF RowInv
    <3> QED
      BY <3>1, <3>2
  <2> QED
    BY <2>1, <2>7, <2>8 DEF RowInv
<1>7. ASSUME NEW c \in Calls, PatchTimesOut(c) PROVE RowInv'
  <2>1. Keeps(c, "patch") /\ call[c].pc = "patch" /\ UNCHANGED <<state, status, news, muddled>>
    BY <1>7, ChangeMoves DEF PatchTimesOut, history, freezes
  <2> QED
    BY <2>1 DEF Keeps, RowInv, Changes, Others
<1>8. ASSUME NEW c \in Calls, WriteStatus(c) PROVE RowInv'
  <2>1. Ends(c) /\ call[c].pc = "write" /\ UNCHANGED <<state, news, muddled>>
        /\ status' = [status EXCEPT ![call[c].key] = call[c].target]
    BY <1>8, ChangeMoves DEF WriteStatus
  <2>2. call[c].key \in Keys /\ call[c].target # "none" /\ Changes(c, call[c].key)
        /\ status[call[c].key] # "none"
    BY <1>0, <2>1 DEF Ends, Statuses, Changes, Changing
  <2>3. \A k \in Keys : status'[k] = IF k = call[c].key THEN call[c].target ELSE status[k]
    BY <2>1 DEF DataInv
  <2>4. call'[c].pc \notin Changing /\ Others(c)
    BY <2>1 DEF Ends, Changing
  <2> QED
    BY <2>1, <2>2, <2>3, <2>4 DEF RowInv, Changes, Others
<1>10. ASSUME NEW c \in Calls, NEW k \in Keys, NEW t \in Statuses, StartChange(c, k, t) PROVE RowInv'
  <2>1. Begins(c, k, "patch", t) /\ Overtake(k, {c}) /\ UNCHANGED <<state, status, news>>
    BY <1>10, RequestBegins DEF StartChange
  <2>2. \/ (\A d \in Calls : ~Changes(d, k)) /\ muddled' = muddled
        \/ muddled' = muddled \cup {k}
    BY <2>1 DEF Overtake, On, Changes
  <2> QED
    BY <2>1, <2>2 DEF RowInv, Changes, Others, Changing, Begins
<1>11. CASE CarriedOutLate
  <2>1. PICK p \in late : CarryOut(p[1], p[2]) /\ Overtake(p[1], {})
    BY <1>11 DEF CarriedOutLate
  <2>2. UNCHANGED <<status, call>>
    BY <1>11 DEF CarriedOutLate
  <2>3. p[1] \in Keys /\ p[2] \in States /\ status[p[1]] # "none"
    BY DEF DataInv, PaidInv
  <2>4. /\ \A j \in Keys \ {p[1]} : state'[j] = state[j] /\ news'[j] = news[j]
        /\ \/ state'[p[1]] = state[p[1]] /\ news'[p[1]] = news[p[1]]
           \/ news'[p[1]] # <<>> /\ news'[p[1]][Len(news'[p[1]])] = state'[p[1]]
    BY <2>1, <2>3, CarryOutNews
  <2>5. \/ (\A d \in Calls : ~Changes(d, p[1])) /\ muddled' = muddled
        \/ muddled' = muddled \cup {p[1]}
    BY <2>1 DEF Overtake, On, Changes
  <2> QED
    BY <2>2, <2>3, <2>4, <2>5 DEF RowInv, Changes
<1>12. ASSUME NEW k \in Keys, NEW i \in DOMAIN news[k], SyncCardState(k, i) PROVE RowInv'
  <2>1. /\ UNCHANGED <<state, call>> /\ news' = [news EXCEPT ![k] = RemoveAt(news[k], i)]
        /\ i = 1 => muddled' = muddled
        /\ i # 1 => muddled' = muddled \cup {k}
    BY <1>12 DEF SyncCardState
  <2>2. news[k] \in Seq(States) /\ news[k] # <<>> /\ news[k][i] \in States
    BY DEF DataInv
  <2>3. status[k] # "none"
    BY <2>2 DEF RowInv
  <2>4. PICK t \in Statuses : status' = [status EXCEPT ![k] = t] /\ ToLithicState[t] = news[k][i]
    <3>1. StatusOf(news[k][i]) # {}
      BY <2>2 DEF StatusOf, States, Statuses, ToLithicState
    <3> DEFINE u == CHOOSE t \in StatusOf(news[k][i]) : TRUE
    <3>2. u \in StatusOf(news[k][i])
      BY <3>1
    <3>3. status' = [status EXCEPT ![k] = u]
      <4>1. status' = IF status[k] = "none" \/ StatusOf(news[k][i]) = {} THEN status ELSE [status EXCEPT ![k] = u]
        BY <1>12, Zenon DEF SyncCardState
      <4> HIDE DEF u
      <4> QED
        BY <2>3, <3>1, <4>1
    <3> HIDE DEF u
    <3> QED
      BY <3>2, <3>3 DEF StatusOf
  <2>5. \A j \in Keys \ {k} : status'[j] = status[j] /\ news'[j] = news[j]
    BY <2>1, <2>4 DEF DataInv
  <2>6. status'[k] # "none" /\ status'[k] = t
    BY <2>4 DEF DataInv, Statuses
  <2>7. CASE i # 1
    <3>1. muddled' = muddled \cup {k}
      BY <2>1, <2>7
    <3>2. \A j \in Keys \ muddled' : j \in Keys \ {k} /\ j \notin muddled
      BY <3>1
    <3>3. UNCHANGED <<state, call>>
      BY <2>1
    <3> HIDE DEF StatusOf
    <3>4. RowInv!1'
      BY <2>5, <2>6, <3>3 DEF RowInv
    <3> QED
      BY <2>5, <3>2, <3>3, <3>4 DEF RowInv, Changes
  <2>8. CASE i = 1
    <3>1. news'[k] = Tail(news[k])
      BY <2>1, <2>2, <2>8, RemoveAtKeepsLast DEF DataInv
    <3>2. k \notin muddled => state[k] = news[k][Len(news[k])]
      BY <2>2 DEF RowInv
    <3>3. /\ (k \notin muddled /\ news'[k] = <<>>) => state[k] = ToLithicState[status'[k]]
          /\ (k \notin muddled /\ news'[k] # <<>>) => news'[k][Len(news'[k])] = state[k]
      BY <2>2, <2>4, <2>6, <2>8, <3>1, <3>2, RemoveAtKeepsLast
    <3>4. UNCHANGED <<state, call, muddled>>
      BY <2>1, <2>8
    <3>5. RowInv!1'
      BY <2>5, <2>6, <3>4 DEF RowInv
    <3> QED
      BY <2>5, <3>3, <3>4, <3>5 DEF RowInv, Changes
  <2> QED
    BY <2>7, <2>8
<1>13. ASSUME NEW k \in Keys, WebhookLost(k) PROVE RowInv'
  <2>1. UNCHANGED <<state, status, call>> /\ muddled' = muddled \cup {k} /\ news[k] # <<>>
        /\ \A j \in Keys \ {k} : news'[j] = news[j]
    BY <1>13 DEF WebhookLost, DataInv
  <2> QED
    BY <2>1 DEF RowInv, Changes
<1>14. CASE UNCHANGED vars
  BY <1>14 DEF vars, RowInv, Changes, history, freezes
<1> QED
  BY Steps, AsideSteps, <1>1, <1>3, <1>5, <1>6, <1>7, <1>8, <1>10, <1>11, <1>12, <1>13, <1>14

-----------------------------------------------------------------------------
\* Where creations do not overlap there is room for the one that was let in.
RoomInv ==
  /\ IsFiniteSet(OpenCards)
  /\ ~crowded => \A c, d \in Calls : (call[c].pc \in Creating /\ call[d].pc \in Creating) => c = d
  /\ (MaxCards > 0 /\ ~crowded) =>
       /\ Cardinality(OpenCards) <= MaxCards
       /\ (\E c \in Calls : call[c].pc \in Creating) => Cardinality(OpenCards) < MaxCards

LEMMA NoMoreOpen ==
  ASSUME RoomInv, NEW k, OpenCards' \subseteq OpenCards \cup {k},
         crowded => crowded', ~crowded' => OpenCards' \subseteq OpenCards,
         \A d \in Calls : call'[d].pc \in Creating => call[d].pc \in Creating
  PROVE  RoomInv'
<1>1. IsFiniteSet(OpenCards) /\ IsFiniteSet(OpenCards \cup {k})
  BY FS_AddElement DEF RoomInv
<1>2. IsFiniteSet(OpenCards')
  BY <1>1, FS_Subset
<1>3. ~crowded' => Cardinality(OpenCards') \in Nat /\ Cardinality(OpenCards) \in Nat
                   /\ Cardinality(OpenCards') <= Cardinality(OpenCards)
  BY <1>1, <1>2, FS_Subset, FS_CardinalityType
<1> HIDE DEF OpenCards
<1>4. MaxCards \in Nat
  BY CardsAssumption
<1> QED
  BY <1>1, <1>2, <1>3, <1>4 DEF RoomInv

LEMMA RoomStep ==
  ASSUME CallInv, DataInv, PaidInv, RoomInv, [Next]_vars
  PROVE  RoomInv'
<1>1. ASSUME NEW c \in Calls, Quiet(c) \/ ChargeIssuance(c) \/ IssueCard(c) \/ IssueFails(c)
                              \/ PatchCard(c) \/ PatchTimesOut(c)
      PROVE  RoomInv'
  <2>1. UNCHANGED <<status, crowded>>
    BY <1>1 DEF Quiet, ChargeIssuance, IssueCard, IssueFails, PatchCard, PatchTimesOut, history, freezes
  <2>2. Others(c) /\ (call'[c].pc \in Creating => call[c].pc \in Creating)
    BY <1>1, CreateMoves, ChangeMoves
       DEF Quiet, Keeps, Ends, Creating, Changing, ChargeIssuance, IssueCard, IssueFails
  <2>3. OpenCards' = OpenCards
    BY <2>1 DEF OpenCards
  <2> QED
    BY <2>1, <2>2, <2>3, NoMoreOpen DEF Others
<1>2. ASSUME NEW c \in Calls, NEW k \in Keys, NEW l \in KeyLimits[k], CountCards(c, k, l) PROVE RoomInv'
  <2>1. /\ UNCHANGED status /\ (MaxCards = 0 \/ Cardinality(OpenCards) < MaxCards)
        /\ crowded' = (crowded \/ \E d \in Calls : call[d].pc \in Creating)
        /\ Begins(c, k, "charge", "ACTIVE")
    BY <1>2, RequestBegins DEF CountCards
  <2>2. OpenCards' = OpenCards
    BY <2>1 DEF OpenCards
  <2>3. ~crowded' => \A d \in Calls : call'[d].pc \in Creating => d = c
    BY <2>1 DEF Begins, Others
  <2> HIDE DEF OpenCards
  <2>4. MaxCards \in Nat
    BY CardsAssumption
  <2>5. IsFiniteSet(OpenCards) /\ Cardinality(OpenCards) \in Nat
    BY FS_CardinalityType DEF RoomInv
  <2> QED
    BY <2>1, <2>2, <2>3, <2>4, <2>5 DEF RoomInv
<1>3. ASSUME NEW c \in Calls, SaveCard(c) PROVE RoomInv'
  <2>1. PICK k \in Keys : k = call[c].key
    BY <1>3, SaveEffect
  <2>2. /\ UNCHANGED crowded /\ Others(c) /\ call[c].pc = "save" /\ call'[c].pc \notin Creating
    <3>1. Keeps(c, "attach") \/ Ends(c)
      BY <1>3, CreateMoves
    <3> QED
      BY <1>3, <3>1, SaveEffect DEF Keeps, Ends, Creating
  <2>3. OpenCards' \subseteq OpenCards \cup {k}
    BY <1>3, <2>1, SaveEffect DEF OpenCards, DataInv
  <2>4. IsFiniteSet(OpenCards) /\ IsFiniteSet(OpenCards \cup {k})
        /\ Cardinality(OpenCards) \in Nat
        /\ Cardinality(OpenCards \cup {k}) <= Cardinality(OpenCards) + 1
    <3>1. IsFiniteSet(OpenCards)
      BY DEF RoomInv
    <3> HIDE DEF OpenCards
    <3>2. Cardinality(OpenCards) \in Nat
      BY <3>1, FS_CardinalityType
    <3>3. IsFiniteSet(OpenCards \cup {k}) /\ (\/ Cardinality(OpenCards \cup {k}) = Cardinality(OpenCards)
                                            \/ Cardinality(OpenCards \cup {k}) = Cardinality(OpenCards) + 1)
      BY <3>1, FS_AddElement
    <3> QED
      BY <3>1, <3>2, <3>3
  <2>5. IsFiniteSet(OpenCards') /\ Cardinality(OpenCards') \in Nat
        /\ Cardinality(OpenCards') <= Cardinality(OpenCards \cup {k})
    BY <2>3, <2>4, FS_Subset, FS_CardinalityType
  <2>6. ~crowded => \A d \in Calls : call'[d].pc \notin Creating
    BY <2>2 DEF RoomInv, Others, Creating
  <2>7. (MaxCards > 0 /\ ~crowded) => Cardinality(OpenCards) < MaxCards
    BY <2>2 DEF RoomInv, Creating
  <2> HIDE DEF OpenCards
  <2>8. MaxCards \in Nat /\ Cardinality(OpenCards \cup {k}) \in Nat
    BY <2>4, CardsAssumption, FS_CardinalityType
  <2>9. (MaxCards > 0 /\ ~crowded') => Cardinality(OpenCards') <= MaxCards
    BY <2>2, <2>4, <2>5, <2>7, <2>8
  <2> QED
    BY <2>2, <2>5, <2>6, <2>9 DEF RoomInv
<1>4. ASSUME NEW c \in Calls, WriteStatus(c) PROVE RoomInv'
  <2>1. PICK k \in Keys, t \in Statuses : k = call[c].key /\ t = call[c].target
    BY <1>4, ChangeMoves DEF Ends
  <2>2. Ends(c) /\ call[c].pc = "write" /\ status' = [status EXCEPT ![k] = t]
        /\ crowded' = (crowded \/ (status[k] = "CLOSED" /\ t # "CLOSED"))
    BY <1>4, <2>1, ChangeMoves DEF WriteStatus
  <2>3. status[k] # "none"
    BY <2>1, <2>2 DEF PaidInv, Changing
  <2>4. OpenCards' \subseteq OpenCards \cup {k}
    BY <2>2 DEF OpenCards, DataInv
  <2>5. ~crowded' => OpenCards' \subseteq OpenCards
    BY <2>2, <2>3 DEF OpenCards, DataInv, Statuses
  <2>6. \A d \in Calls : call'[d].pc \in Creating => call[d].pc \in Creating
    BY <2>2 DEF Ends, Others, Creating
  <2> QED
    BY <2>2, <2>4, <2>5, <2>6, NoMoreOpen
<1>5. ASSUME NEW c \in Calls, NEW k \in Keys, NEW t \in Statuses, StartChange(c, k, t) PROVE RoomInv'
  <2>1. Begins(c, k, "patch", t) /\ UNCHANGED <<status, crowded>>
    BY <1>5, RequestBegins DEF StartChange
  <2>2. OpenCards' = OpenCards
    BY <2>1 DEF OpenCards
  <2>3. \A d \in Calls : call'[d].pc \in Creating => call[d].pc \in Creating
    BY <2>1 DEF Begins, Others, Creating
  <2> QED
    BY <2>1, <2>2, <2>3, NoMoreOpen
<1>6. CASE CarriedOutLate \/ UNCHANGED vars \/ \E k \in Keys : WebhookLost(k)
  <2>1. UNCHANGED <<status, crowded, call>>
    BY <1>6 DEF CarriedOutLate, WebhookLost, vars, history, freezes
  <2>2. OpenCards' = OpenCards
    BY <2>1 DEF OpenCards
  <2> QED
    BY <2>1, <2>2, NoMoreOpen
<1>7. ASSUME NEW k \in Keys, NEW i \in DOMAIN news[k], SyncCardState(k, i) PROVE RoomInv'
  <2> DEFINE u == CHOOSE t \in StatusOf(news[k][i]) : TRUE
  <2>1. /\ UNCHANGED call /\ crowded' = (crowded \/ (status[k] = "CLOSED" /\ news[k][i] # "CLOSED"))
        /\ status' = IF status[k] = "none" \/ StatusOf(news[k][i]) = {} THEN status ELSE [status EXCEPT ![k] = u]
    BY <1>7, Zenon DEF SyncCardState
  <2>2. StatusOf(news[k][i]) # {} => u \in StatusOf(news[k][i])
    OBVIOUS
  <2>3. StatusOf(news[k][i]) # {} => u \in Statuses /\ (news[k][i] = "CLOSED" => u = "CLOSED")
    BY <2>2 DEF StatusOf, Statuses, ToLithicState
  <2> HIDE DEF u
  <2>4. \/ status' = status
        \/ status[k] # "none" /\ u \in Statuses /\ status' = [status EXCEPT ![k] = u]
           /\ (news[k][i] = "CLOSED" => u = "CLOSED")
    BY <2>1, <2>3
  <2>5. OpenCards' \subseteq OpenCards \cup {k}
    BY <2>4 DEF OpenCards, DataInv
  <2>6. ~crowded' => OpenCards' \subseteq OpenCards
    <3>1. CASE status' = status
      BY <3>1 DEF OpenCards
    <3>2. CASE status' = [status EXCEPT ![k] = u]
      BY <2>1, <2>4, <3>2, ZenonT(30) DEF OpenCards, DataInv, Statuses
    <3> QED
      BY <2>4, <3>1, <3>2
  <2> QED
    BY <2>1, <2>5, <2>6, NoMoreOpen
<1> QED
  BY Steps, <1>1, <1>2, <1>3, <1>4, <1>5, <1>6, <1>7

-----------------------------------------------------------------------------
(* The rule in force is the limit of the row.                              *)

\* No rule was ever made; only that for l may be other than unmade or deleted.
Bare(k) == ruleRows[k] = {} /\ \A l \in Limits : rules[k][l] = "none"
OnlyRule(k, l, ss) ==
  \A m \in Limits : rules[k][m] \in IF m = l THEN ss ELSE {"none", "DELETED"}

InForce(k) == OnlyRule(k, limit[k], {"ACTIVE"}) /\ ruleRows[k] = {limit[k]} \ {0}

\* Cards whose rules LimitInForce says nothing of.
Doubted == unruled \cup reused \cup twinned

\* What a request that sees to the rules of k has left of them, step by step.
Between(c, k) ==
  LET pc == call[c].pc
      l == call[c].amount IN
  /\ pc \in {"spend", "drop"} => InForce(k) /\ call[c].old = ruleRows[k]
  /\ pc = "forget" => OnlyRule(k, 0, {})
  /\ pc = "attach" => IF call[c].creating THEN (Bare(k) \/ InForce(k)) /\ limit[k] = l
                      ELSE OnlyRule(k, 0, {}) /\ ruleRows[k] = {}
  /\ pc \in {"promote", "record"} =>
       /\ OnlyRule(k, l, IF pc = "promote" THEN {"SHADOWING", "ACTIVE"} ELSE {"ACTIVE"})
       /\ ruleRows[k] \subseteq {l}
       /\ call[c].creating => limit[k] = l
  /\ pc = "row" => OnlyRule(k, l, {"ACTIVE"}) /\ ruleRows[k] = {l} \ {0}

\* Where nothing failed, met or was asked for twice, one request at most sees to the
\* rules, and without one they are in force.
RuleOk(k) ==
  /\ status[k] = "none" => Bare(k) /\ On(k, Ruling) = {}
  /\ status[k] # "none" /\ k \notin Doubted =>
       /\ \A c, d \in On(k, Ruling) : c = d
       /\ On(k, Ruling) = {} => InForce(k)
       /\ \A c \in On(k, Ruling) : Between(c, k)

\* The steps of a creation are a creation's, and a change is not a creation.
OwnSteps(c) ==
  /\ call[c].pc \in Creating \/ (call[c].pc \in Attaching /\ call[c].creating)
       => call[c].creating
  /\ call[c].pc \in Ruling \ Attaching => ~call[c].creating

RuleInv == (\A c \in Calls : OwnSteps(c)) /\ (\A k \in Keys : RuleOk(k))

\* The steps that have to do with no rule.
Apart ==
  /\ UNCHANGED <<ruling, doubts>>
  /\ \A k \in Keys : status'[k] = "none" <=> status[k] = "none"
  /\ \A c \in Calls :
       \/ call'[c] = call[c]
       \/ call[c].pc \notin Ruling /\ call'[c].pc \notin Ruling /\ OwnSteps(c)'

\* A card whose rules and requests stay keeps what is known of them.
LEMMA RuleStays ==
  ASSUME NEW k \in Keys, RuleOk(k),
         limit'[k] = limit[k], ruleRows'[k] = ruleRows[k], rules'[k] = rules[k],
         status'[k] = "none" <=> status[k] = "none",
         k \in unruled => k \in unruled', k \in reused => k \in reused', k \in twinned => k \in twinned',
         \A c \in Calls : call'[c] = call[c] \/ (c \notin On(k, Ruling) /\ c \notin On(k, Ruling)')
  PROVE  RuleOk(k)'
<1>1. On(k, Ruling)' = On(k, Ruling) /\ \A c \in On(k, Ruling) : call'[c] = call[c]
  BY DEF On
<1>2. (Bare(k) => Bare(k)') /\ (InForce(k) => InForce(k)')
  BY DEF Bare, InForce, OnlyRule
<1>3. \A c \in On(k, Ruling) : Between(c, k) => Between(c, k)'
  BY <1>1, <1>2 DEF Between, OnlyRule, Bare
<1> HIDE DEF Bare, InForce, Between, On
<1> QED
  BY <1>1, <1>2, <1>3 DEF RuleOk, Doubted

LEMMA ApartKeeps ==
  ASSUME RuleInv, Apart
  PROVE  RuleInv'
<1>1. \A c \in Calls : OwnSteps(c)'
  BY DEF Apart, RuleInv, OwnSteps
<1>2. ASSUME NEW k \in Keys
      PROVE  RuleOk(k)'
  <2>1. RuleOk(k)
    BY DEF RuleInv
  <2>2. /\ limit'[k] = limit[k] /\ ruleRows'[k] = ruleRows[k] /\ rules'[k] = rules[k]
        /\ status'[k] = "none" <=> status[k] = "none"
        /\ UNCHANGED <<unruled, reused, twinned>>
        /\ \A c \in Calls : call'[c] = call[c] \/ (c \notin On(k, Ruling) /\ c \notin On(k, Ruling)')
    BY DEF Apart, ruling, doubts, On
  <2> QED
    BY <2>1, <2>2, RuleStays
<1> QED
  BY <1>1, <1>2 DEF RuleInv

\* Going on changes the step only.
LEMMA GotoFields ==
  ASSUME CallInv, NEW c \in Calls, NEW pc, call[c].pc # "idle", Goto(c, pc)
  PROVE  /\ call'[c].pc = pc /\ Others(c) /\ call[c].key \in Keys
         /\ call'[c].key = call[c].key /\ call'[c].amount = call[c].amount
         /\ call'[c].old = call[c].old /\ call'[c].creating = call[c].creating
<1> DEFINE r == [call[c] EXCEPT !.pc = pc]
<1>1. call' = [call EXCEPT ![c] = r]
  BY Zenon DEF Goto
<1>2. /\ r.pc = pc /\ r.key = call[c].key /\ r.amount = call[c].amount
      /\ r.old = call[c].old /\ r.creating = call[c].creating
  BY DEF CallInv, CallType
<1>3. call[c].key \in Keys
  BY DEF CallInv
<1> HIDE DEF r
<1> QED
  BY <1>1, <1>2, <1>3 DEF CallInv, Others

LEMMA LeaveFields ==
  ASSUME CallInv, NEW c \in Calls, Leave(c)
  PROVE  call'[c].pc = "idle" /\ call'[c].creating = FALSE /\ Others(c)
BY DEF CallInv, Leave, NoCall, Others

LEMMA IdleAsks ==
  ASSUME NEW c \in Calls, call'[c].pc \in {"idle"} \cup Changing
  PROVE  OwnSteps(c)' /\ call'[c].pc \notin Ruling
BY DEF OwnSteps, Creating, Changing, Ruling, Attaching

LEMMA CreationAsks ==
  ASSUME NEW c \in Calls, call'[c].pc \in Creating \cup Attaching, call'[c].creating
  PROVE  OwnSteps(c)'
BY DEF OwnSteps, Creating, Changing, Ruling, Attaching

LEMMA ApartSteps ==
  ASSUME CallInv, DataInv, PaidInv, RuleInv, NEW c \in Calls,
         \/ ChargeIssuance(c) \/ IssueCard(c) \/ IssueFails(c)
         \/ PatchCard(c) \/ PatchTimesOut(c) \/ WriteStatus(c)
         \/ Die(c) /\ call[c].pc \notin Ruling
         \/ \E k \in Keys : (\E l \in KeyLimits[k] : CountCards(c, k, l)) \/ (\E t \in Statuses : StartChange(c, k, t))
  PROVE  Apart
<1>0. OwnSteps(c)
  BY DEF RuleInv
<1>1. CASE ChargeIssuance(c) \/ IssueCard(c) \/ IssueFails(c)
  <2>1. /\ UNCHANGED <<status, ruling, doubts>>
        /\ call[c].pc \in {"charge", "issue"}
        /\ Leave(c) \/ (\E pc \in {"issue", "save"} : Goto(c, pc))
    BY <1>1 DEF ChargeIssuance, IssueCard, IssueFails, history, freezes, doubts
  <2>2. call[c].pc \in Creating /\ call[c].pc \notin Ruling
    BY <2>1 DEF Creating, Ruling, Attaching
  <2>3. CASE Leave(c)
    BY <2>1, <2>2, <2>3, LeaveFields, IdleAsks DEF Apart, Others
  <2>4. ASSUME NEW pc \in {"issue", "save"}, Goto(c, pc)
        PROVE  Apart
    <3>1. /\ call'[c].pc = pc /\ Others(c) /\ call'[c].key = call[c].key
          /\ call'[c].amount = call[c].amount /\ call'[c].creating = call[c].creating
      BY <2>1, <2>4, GotoFields
    <3>2. OwnSteps(c)' /\ call'[c].pc \notin Ruling
      BY <1>0, <2>2, <3>1 DEF OwnSteps, Creating, Ruling, Attaching
    <3> QED
      BY <2>1, <2>2, <3>1, <3>2 DEF Apart, Others
  <2> QED
    BY <2>1, <2>3, <2>4
<1>2. CASE PatchCard(c) \/ PatchTimesOut(c) \/ WriteStatus(c)
  <2>1. /\ UNCHANGED <<ruling, doubts>> /\ call[c].pc \in Changing
        /\ Leave(c) \/ (\E pc \in Changing : Goto(c, pc))
    BY <1>2 DEF PatchCard, PatchTimesOut, WriteStatus, AfterTimeout, Changing, history, freezes, doubts
  <2>2. call[c].pc \notin Ruling /\ call[c].pc # "idle"
    BY <2>1 DEF Changing, Ruling, Attaching
  <2>3. call'[c].pc \in {"idle"} \cup Changing /\ Others(c)
    BY <2>1, <2>2, LeaveFields, GotoFields
  <2>4. \A k \in Keys : status'[k] = "none" <=> status[k] = "none"
    <3>1. CASE UNCHANGED status
      BY <3>1
    <3>2. CASE status' = [status EXCEPT ![call[c].key] = call[c].target]
      <4>1. call[c].target \in Statuses /\ status[call[c].key] # "none"
        BY <2>1 DEF CallInv, CallType, PaidInv
      <4> QED
        BY <3>2, <4>1 DEF DataInv, Statuses
    <3> QED
      BY <1>2, <3>1, <3>2 DEF PatchCard, PatchTimesOut, WriteStatus
  <2> QED
    BY <2>1, <2>2, <2>3, <2>4, IdleAsks DEF Apart, Others
<1>3. CASE Die(c) /\ call[c].pc \notin Ruling
  <2>1. UNCHANGED <<status, ruling, doubts>> /\ Leave(c)
    BY <1>3 DEF Die, doubts
  <2> QED
    BY <1>3, <2>1, LeaveFields, IdleAsks DEF Apart, Others
<1>4. ASSUME NEW k \in Keys, NEW l \in KeyLimits[k], CountCards(c, k, l)
      PROVE  Apart
  <2> DEFINE r == [NoCall EXCEPT !.pc = "charge", !.key = k, !.amount = l, !.creating = TRUE]
  <2>1. r.pc = "charge" /\ r.key = k /\ r.creating = TRUE
    BY DEF NoCall
  <2>2. call' = [call EXCEPT ![c] = r] /\ call[c].pc = "idle" /\ UNCHANGED <<status, ruling, doubts>>
    BY <1>4, Zenon DEF CountCards, Request, CallInv
  <2> HIDE DEF r
  <2>3. call'[c] = r /\ \A d \in Calls \ {c} : call'[d] = call[d]
    BY <2>2 DEF CallInv
  <2>4. OwnSteps(c)' /\ call[c].pc \notin Ruling /\ call'[c].pc \notin Ruling
    BY <2>1, <2>2, <2>3 DEF OwnSteps, Creating, Ruling, Attaching
  <2> QED
    BY <2>2, <2>3, <2>4 DEF Apart
<1>5. ASSUME NEW k \in Keys, NEW t \in Statuses, StartChange(c, k, t)
      PROVE  Apart
  <2>1. /\ call[c].pc = "idle" /\ call'[c].pc = "patch" /\ Others(c)
    BY <1>5, RequestBegins DEF Begins
  <2>2. UNCHANGED <<status, ruling, doubts>>
    BY <1>5 DEF StartChange
  <2>3. call[c].pc \notin Ruling /\ call'[c].pc \in Changing
    BY <2>1 DEF Changing, Ruling, Attaching
  <2> QED
    BY <2>1, <2>2, <2>3, IdleAsks DEF Apart, Others
<1> QED
  BY <1>1, <1>2, <1>3, <1>4, <1>5

\* So do the issuer, its webhooks and the steps that change nothing.
LEMMA OutsideSteps ==
  ASSUME CallInv, DataInv,
         \/ CarriedOutLate \/ UNCHANGED vars
         \/ \E k \in Keys : (\E i \in DOMAIN news[k] : SyncCardState(k, i)) \/ WebhookLost(k)
  PROVE  Apart
<1>1. UNCHANGED <<call, ruling, doubts>>
  BY DEF CarriedOutLate, Overtake, SyncCardState, WebhookLost, vars, history, freezes, doubts
<1>2. \A j \in Keys : status'[j] = "none" <=> status[j] = "none"
  <2>1. ASSUME NEW k \in Keys, NEW i \in DOMAIN news[k], SyncCardState(k, i)
        PROVE  \A j \in Keys : status'[j] = "none" <=> status[j] = "none"
    <3>1. CASE UNCHANGED status
      BY <3>1
    <3>2. CASE ~UNCHANGED status
      <4> DEFINE t == CHOOSE x \in StatusOf(news[k][i]) : TRUE
      <4>1. StatusOf(news[k][i]) # {} /\ status[k] # "none" /\ status' = [status EXCEPT ![k] = t]
        BY <2>1, <3>2 DEF SyncCardState
      <4>2. t \in Statuses
        BY <4>1 DEF StatusOf
      <4> HIDE DEF t
      <4> QED
        BY <4>1, <4>2 DEF DataInv, Statuses
    <3> QED
      BY <3>1, <3>2
  <2>2. CASE UNCHANGED status
    BY <2>2
  <2> QED
    BY <2>1, <2>2 DEF CarriedOutLate, WebhookLost, vars
<1> QED
  BY <1>1, <1>2 DEF Apart

-----------------------------------------------------------------------------
\* Request c works on the rules of its card: the others are left alone.
Works(c) ==
  /\ call[c].key \in Keys /\ call[c].pc \in Ruling
  /\ UNCHANGED status
  /\ \A k \in Keys \ {call[c].key} :
       limit'[k] = limit[k] /\ ruleRows'[k] = ruleRows[k] /\ rules'[k] = rules[k]
  /\ unruled' \in {unruled, unruled \cup {call[c].key}}
  /\ reused' \in {reused, reused \cup {call[c].key}}
  /\ twinned' = twinned
  /\ Others(c)
  /\ \/ call'[c].pc = "idle"
     \/ /\ call'[c].pc \in Ruling
        /\ call'[c].key = call[c].key /\ call'[c].amount = call[c].amount
        /\ call'[c].creating = call[c].creating
        /\ call[c].creating => call[c].pc \in Attaching /\ call'[c].pc \in Attaching

LEMMA WorksKeeps ==
  ASSUME CallInv, RuleInv, NEW c \in Calls, Works(c), NEW k, k = call[c].key,
         (k \notin Doubted' /\ Between(c, k)) =>
            IF call'[c].pc \in Ruling THEN Between(c, k)' ELSE InForce(k)'
  PROVE  RuleInv'
<1>1. ASSUME NEW d \in Calls
      PROVE  OwnSteps(d)'
  <2>1. OwnSteps(d) /\ OwnSteps(c)
    BY DEF RuleInv
  <2> QED
    BY <2>1 DEF OwnSteps, Works, Others, Creating, Ruling, Attaching
<1>2. ASSUME NEW j \in Keys \ {k}
      PROVE  RuleOk(j)'
  <2>1. RuleOk(j)
    BY DEF RuleInv
  <2>2. \A d \in Calls : call'[d] = call[d] \/ (d \notin On(j, Ruling) /\ d \notin On(j, Ruling)')
    BY DEF Works, Others, On, Ruling, Attaching
  <2>3. /\ limit'[j] = limit[j] /\ ruleRows'[j] = ruleRows[j] /\ rules'[j] = rules[j]
        /\ status'[j] = "none" <=> status[j] = "none"
        /\ j \in unruled => j \in unruled'
        /\ j \in reused => j \in reused'
        /\ j \in twinned => j \in twinned'
    BY DEF Works
  <2> QED
    BY <2>1, <2>2, <2>3, RuleStays
<1>3. RuleOk(k)'
  <2>1. k \in Keys /\ RuleOk(k) /\ c \in On(k, Ruling)
    BY DEF Works, RuleInv, On
  <2>2. status[k] # "none" /\ status'[k] # "none"
    BY <2>1 DEF RuleOk, Works
  <2>3. CASE k \in Doubted'
    BY <2>2, <2>3 DEF RuleOk
  <2>4. CASE k \notin Doubted'
    <3>1. k \notin Doubted
      BY <2>4 DEF Works, Doubted
    <3>2. On(k, Ruling) = {c} /\ Between(c, k)
      BY <2>1, <2>2, <3>1 DEF RuleOk, On
    <3>3. IF call'[c].pc \in Ruling THEN Between(c, k)' ELSE InForce(k)'
      BY <2>4, <3>2
    <3>4. On(k, Ruling)' = IF call'[c].pc \in Ruling THEN {c} ELSE {}
      BY <3>2 DEF On, Works, Others, Ruling, Attaching
    <3> QED
      BY <2>1, <2>2, <3>3, <3>4 DEF RuleOk
  <2> QED
    BY <2>3, <2>4
<1> QED
  BY <1>1, <1>2, <1>3 DEF RuleInv

\* The request that meets no other and has seen to no rule yet.
LEMMA EntersKeeps ==
  ASSUME CallInv, RuleInv, NEW c \in Calls, NEW k \in Keys,
         call[c].pc \notin Ruling, Others(c), OwnSteps(c)',
         call'[c].pc \in Ruling => call'[c].key = k,
         status'[k] # "none", unruled' = Meets(c, k), UNCHANGED reused,
         twinned' \in {twinned, twinned \cup {k}},
         \A j \in Keys \ {k} : /\ limit'[j] = limit[j] /\ ruleRows'[j] = ruleRows[j]
                                /\ rules'[j] = rules[j] /\ status'[j] = status[j],
         (k \notin Doubted' /\ On(k, Ruling) = {}) =>
            IF call'[c].pc \in Ruling THEN Between(c, k)' ELSE InForce(k)'
  PROVE  RuleInv'
<1>1. \A d \in Calls : OwnSteps(d)'
  BY DEF RuleInv, OwnSteps, Others
<1>2. ASSUME NEW j \in Keys \ {k}
      PROVE  RuleOk(j)'
  <2>1. RuleOk(j)
    BY DEF RuleInv
  <2>2. \A d \in Calls : call'[d] = call[d] \/ (d \notin On(j, Ruling) /\ d \notin On(j, Ruling)')
    BY DEF Others, On
  <2>3. j \in unruled => j \in unruled'
    BY DEF Meets
  <2> QED
    BY <2>1, <2>2, <2>3, RuleStays
<1>3. RuleOk(k)'
  <2>1. CASE k \in Doubted'
    BY <2>1 DEF RuleOk
  <2>2. CASE k \notin Doubted'
    <3>1. k \notin Doubted /\ On(k, Ruling) = {}
      BY <2>2 DEF Meets, On, Doubted
    <3>2. On(k, Ruling)' = IF call'[c].pc \in Ruling THEN {c} ELSE {}
      BY <3>1 DEF On, Others
    <3>3. IF call'[c].pc \in Ruling THEN Between(c, k)' ELSE InForce(k)'
      BY <2>2, <3>1
    <3> QED
      BY <3>2, <3>3 DEF RuleOk
  <2> QED
    BY <2>1, <2>2
<1> QED
  BY <1>1, <1>2, <1>3 DEF RuleInv

LEMMA SaveRules ==
  ASSUME CallInv, DataInv, RuleInv, NEW c \in Calls, SaveCard(c)
  PROVE  RuleInv'
<1>0. PICK k \in Keys : k = call[c].key
  BY DEF SaveCard, CallInv
<1>1. /\ call[c].pc = "save"
      /\ status' = [status EXCEPT ![k] = IF @ = "none" THEN "ACTIVE" ELSE @]
      /\ limit' = [limit EXCEPT ![k] = IF status[k] = "none" THEN call[c].amount ELSE @]
      /\ twinned' = IF status[k] # "none" /\ call[c].amount \notin {0, limit[k]}
                    THEN twinned \cup {k} ELSE twinned
      /\ IF call[c].amount = 0 THEN Leave(c) ELSE Goto(c, "attach")
      /\ unruled' = Meets(c, k)
      /\ UNCHANGED <<ruleRows, rules, reused>>
  BY <1>0 DEF SaveCard
<1>2. call[c].pc \notin Ruling
  BY <1>1 DEF Ruling, Attaching
<1>3. call[c].creating /\ call[c].amount \in Limits \cup {0}
  BY <1>0, <1>1 DEF RuleInv, OwnSteps, Creating, CallInv, CallType
<1>4. /\ Others(c)
      /\ call[c].amount = 0 => call'[c].pc = "idle"
      /\ call[c].amount # 0 => /\ call'[c].pc = "attach" /\ call'[c].key = k
                               /\ call'[c].amount = call[c].amount /\ call'[c].creating
  BY <1>0, <1>1, <1>3, GotoFields, LeaveFields
<1>5. OwnSteps(c)'
  BY <1>3, <1>4, IdleAsks, CreationAsks DEF Attaching
<1>6. /\ status'[k] # "none" /\ limit'[k] = (IF status[k] = "none" THEN call[c].amount ELSE limit[k])
      /\ \A j \in Keys \ {k} : status'[j] = status[j] /\ limit'[j] = limit[j]
  BY <1>1, <1>2 DEF DataInv, Statuses
<1>7. ASSUME k \notin Doubted', On(k, Ruling) = {}
      PROVE  IF call'[c].pc \in Ruling THEN Between(c, k)' ELSE InForce(k)'
  <2>1. RuleOk(k)
    BY <1>2 DEF RuleInv
  <2>2. CASE status[k] = "none"
    <3>1. Bare(k) /\ Bare(k)' /\ limit'[k] = call[c].amount
      BY <1>1, <1>3, <1>6, <2>1, <2>2 DEF RuleOk, Bare
    <3>2. CASE call[c].amount = 0
      <4>1. InForce(k)'
        BY <1>3, <3>1, <3>2, CardsAssumption DEF Bare, InForce, OnlyRule
      <4> QED
        BY <1>4, <3>2, <4>1 DEF Ruling, Attaching
    <3>3. CASE call[c].amount # 0
      <4>1. Between(c, k)'
        BY <1>4, <3>1, <3>3 DEF Between
      <4> QED
        BY <1>4, <3>3, <4>1 DEF Ruling, Attaching
    <3> QED
      BY <3>2, <3>3
  <2>3. CASE status[k] # "none"
    <3>1. k \notin Doubted /\ call[c].amount \in {0, limit[k]}
      BY <1>1, <1>7, <2>3 DEF Doubted, Meets
    <3>2. InForce(k)
      BY <1>7, <2>1, <2>3, <3>1 DEF RuleOk
    <3>3. InForce(k)' /\ limit'[k] = limit[k]
      BY <1>1, <1>6, <2>3, <3>2 DEF InForce, OnlyRule
    <3>4. CASE call[c].amount = 0
      BY <1>4, <3>3, <3>4 DEF Ruling, Attaching
    <3>5. CASE call[c].amount # 0
      BY <1>4, <3>1, <3>3, <3>5 DEF Between
    <3> QED
      BY <3>4, <3>5
  <2> QED
    BY <2>2, <2>3
<1> QED
  BY <1>1, <1>2, <1>4, <1>5, <1>6, <1>7, EntersKeeps DEF Ruling, Attaching

LEMMA StartRules ==
  ASSUME CallInv, DataInv, RuleInv, NEW c \in Calls, NEW k \in Keys,
         NEW l \in Limits \cup {0}, StartLimits(c, k, l)
  PROVE  RuleInv'
<1> DEFINE r == [NoCall EXCEPT !.pc = "spend", !.key = k, !.amount = l, !.old = ruleRows[k]]
<1>1. r.pc = "spend" /\ r.key = k /\ r.amount = l /\ r.old = ruleRows[k] /\ r.creating = FALSE
  BY DEF NoCall
<1>2. /\ call' = [call EXCEPT ![c] = r] /\ call[c].pc = "idle"
      /\ unruled' = Meets(c, k) /\ status[k] # "none"
      /\ UNCHANGED <<status, limit, ruleRows, rules, reused, twinned>>
  BY Zenon DEF StartLimits, Request, CallInv, ruling
<1> HIDE DEF r
<1>3. call'[c] = r /\ Others(c)
  BY <1>2 DEF CallInv, Others
<1>4. /\ call[c].pc \notin Ruling /\ call'[c].pc \in Ruling /\ OwnSteps(c)'
  BY <1>1, <1>2, <1>3 DEF OwnSteps, Creating, Ruling, Attaching
<1>5. ASSUME k \notin Doubted', On(k, Ruling) = {}
      PROVE  Between(c, k)'
  <2>1. InForce(k)
    BY <1>2, <1>5 DEF RuleInv, RuleOk, Doubted, Meets
  <2>2. InForce(k)'
    BY <1>2, <2>1 DEF InForce, OnlyRule
  <2> QED
    BY <1>1, <1>2, <1>3, <2>2 DEF Between
<1> QED
  BY <1>1, <1>2, <1>3, <1>4, <1>5, EntersKeeps DEF doubts

\* The steps of a request at the rules of its card.
LEMMA WorkSteps ==
  ASSUME CallInv, DataInv, RuleInv, NEW c \in Calls,
         \/ Die(c) /\ call[c].pc \in Ruling
         \/ UpdateCardLimit(c) \/ DeleteRules(c) \/ DeleteFails(c) \/ DeleteRows(c)
         \/ CreateRule(c) \/ PromoteRule(c) \/ RecordRule(c) \/ AttachFails(c) \/ UpdateLimits(c)
  PROVE  RuleInv'
<1>1. call[c].pc \in Ruling
  BY DEF UpdateCardLimit, DeleteRules, DeleteFails, DeleteRows, CreateRule, PromoteRule,
         RecordRule, AttachFails, UpdateLimits, Ruling, Attaching
<1>2. PICK k \in Keys : k = call[c].key
  BY <1>1 DEF CallInv, Ruling, Attaching
<1>3. PICK l \in Limits \cup {0} : l = call[c].amount
  BY DEF CallInv, CallType
<1>4. call[c].pc # "idle" /\ (call[c].pc \in Attaching => l \in Limits)
  BY <1>1, <1>3 DEF CallInv, Ruling, Attaching
<1>5. /\ call[c].creating => call[c].pc \in Attaching
      /\ call[c].creating \in BOOLEAN
  BY <1>1, <1>2, <1>3 DEF RuleInv, OwnSteps, CallInv, CallType
<1>6. 0 \notin Limits
  BY CardsAssumption
<1>7. limit \in [Keys -> Limits \cup {0}] /\ ruleRows \in [Keys -> SUBSET Limits]
      /\ rules \in [Keys -> [Limits -> RuleStates]]
  BY DEF DataInv
\* What is left to show of a step that ends the request or takes it to pc.
<1> DEFINE Kept == \A j \in Keys \ {k} :
                     limit'[j] = limit[j] /\ ruleRows'[j] = ruleRows[j] /\ rules'[j] = rules[j]
           Noted == /\ unruled' \in {unruled, unruled \cup {k}}
                    /\ reused' \in {reused, reused \cup {k}}
                    /\ twinned' = twinned
<1>8. ASSUME Leave(c), UNCHANGED status, Kept, Noted,
             (k \notin Doubted' /\ Between(c, k)) => InForce(k)'
      PROVE  RuleInv'
  <2>1. call'[c].pc = "idle" /\ Others(c)
    BY <1>8, LeaveFields
  <2>2. call'[c].pc \notin Ruling
    BY <2>1 DEF Ruling, Attaching
  <2>3. Works(c)
    BY <1>1, <1>2, <1>8, <2>1 DEF Works
  <2> HIDE DEF Kept, Noted
  <2> QED
    BY <1>2, <1>8, <2>2, <2>3, WorksKeeps
<1>9. ASSUME NEW pc \in Ruling, Goto(c, pc), call[c].creating => pc \in Attaching,
             UNCHANGED status, Kept, Noted,
             (k \notin Doubted' /\ Between(c, k)
                /\ call'[c].pc = pc /\ call'[c].amount = l /\ call'[c].old = call[c].old
                /\ call'[c].creating = call[c].creating) => Between(c, k)'
      PROVE  RuleInv'
  <2>1. /\ call'[c].pc = pc /\ Others(c)
        /\ call'[c].key = k /\ call'[c].amount = l
        /\ call'[c].old = call[c].old /\ call'[c].creating = call[c].creating
    BY <1>2, <1>3, <1>4, <1>9, GotoFields
  <2>2. Works(c)
    BY <1>1, <1>2, <1>3, <1>5, <1>9, <2>1 DEF Works
  <2> HIDE DEF Kept, Noted
  <2> QED
    BY <1>2, <1>9, <2>1, <2>2, WorksKeeps
<1>10. CASE Die(c)
  <2>1. Leave(c) /\ UNCHANGED <<status, ruling, reused, twinned>> /\ unruled' = unruled \cup {k}
    BY <1>1, <1>2, <1>10 DEF Die
  <2>2. Kept /\ Noted /\ k \in Doubted'
    BY <2>1 DEF ruling, Doubted
  <2> HIDE DEF Kept, Noted
  <2> QED
    BY <2>1, <2>2, <1>8
<1>11. CASE UpdateCardLimit(c)
  <2>1. /\ call[c].pc = "spend" /\ UNCHANGED <<status, limit, ruleRows, rules, unruled, reused, twinned>>
        /\ Leave(c) \/ Goto(c, "drop")
    BY <1>11 DEF UpdateCardLimit, ruling, history, freezes, doubts
  <2>2. Kept /\ Noted
    BY <2>1
  <2>3. InForce(k) => InForce(k)'
    BY <2>1 DEF InForce, OnlyRule
  <2>4. Between(c, k) => InForce(k) /\ call[c].old = ruleRows[k]
    BY <2>1 DEF Between
  <2> HIDE DEF Kept, Noted
  <2>5. CASE Leave(c)
    BY <2>1, <2>2, <2>3, <2>4, <2>5, <1>8
  <2>6. CASE Goto(c, "drop")
    <3>1. (Between(c, k) /\ call'[c].pc = "drop" /\ call'[c].old = call[c].old) => Between(c, k)'
      BY <2>1, <2>3, <2>4 DEF Between
    <3>2. "drop" \in Ruling /\ ~call[c].creating
      BY <1>5, <2>1 DEF Ruling, Attaching
    <3> QED
      BY <2>1, <2>2, <2>6, <3>1, <3>2, <1>9
  <2> QED
    BY <2>1, <2>5, <2>6
<1>12. CASE DeleteRules(c)
  <2>1. /\ call[c].pc = "drop" /\ Goto(c, "forget")
        /\ rules' = [rules EXCEPT ![k] = [m \in Limits |-> IF m \in call[c].old THEN "DELETED" ELSE @[m]]]
        /\ UNCHANGED <<status, limit, ruleRows, unruled, reused, twinned>>
    BY <1>2, <1>12 DEF DeleteRules, history, freezes, doubts
  <2>2. /\ \A m \in Limits : rules'[k][m] = IF m \in call[c].old THEN "DELETED" ELSE rules[k][m]
        /\ \A j \in Keys \ {k} : rules'[j] = rules[j]
    BY <1>7, <2>1
  <2>3. Kept /\ Noted
    BY <2>1, <2>2
  <2>4. (Between(c, k) /\ call'[c].pc = "forget") => Between(c, k)'
    <3>1. SUFFICES ASSUME Between(c, k), call'[c].pc = "forget" PROVE Between(c, k)'
      OBVIOUS
    <3>2. InForce(k) /\ call[c].old = {limit[k]} \ {0}
      BY <2>1, <3>1 DEF Between, InForce
    <3>3. OnlyRule(k, 0, {})'
      BY <1>6, <2>2, <3>2 DEF InForce, OnlyRule
    <3> QED
      BY <3>1, <3>3 DEF Between
  <2> HIDE DEF Kept, Noted
  <2>5. "forget" \in Ruling /\ ~call[c].creating
    BY <1>5, <2>1 DEF Ruling, Attaching
  <2> QED
    BY <2>1, <2>3, <2>4, <2>5, <1>9
<1>13. CASE DeleteFails(c)
  <2>1. /\ call[c].pc = "drop" /\ Goto(c, "forget") /\ unruled' = unruled \cup {k}
        /\ \E v : rules' = [rules EXCEPT ![k] = v]
        /\ UNCHANGED <<status, limit, ruleRows, reused, twinned>>
    BY <1>2, <1>13 DEF DeleteFails
  <2>2. \A j \in Keys \ {k} : rules'[j] = rules[j]
    BY <1>7, <2>1
  <2>3. Kept /\ Noted /\ k \in Doubted'
    BY <2>1, <2>2 DEF Doubted
  <2> HIDE DEF Kept, Noted
  <2>4. "forget" \in Ruling /\ ~call[c].creating
    BY <1>5, <2>1 DEF Ruling, Attaching
  <2> QED
    BY <2>1, <2>3, <2>4, <1>9
<1>14. CASE DeleteRows(c)
  <2>1. /\ call[c].pc = "forget" /\ Goto(c, IF l = 0 THEN "row" ELSE "attach")
        /\ ruleRows' = [ruleRows EXCEPT ![k] = {}]
        /\ UNCHANGED <<status, limit, rules, unruled, reused, twinned>>
    BY <1>2, <1>3, <1>14 DEF DeleteRows, history, freezes, doubts
  <2>2. ruleRows'[k] = {} /\ \A j \in Keys \ {k} : ruleRows'[j] = ruleRows[j]
    BY <1>7, <2>1
  <2>3. Kept /\ Noted
    BY <2>1, <2>2
  <2>4. ~call[c].creating
    BY <1>5, <2>1 DEF Attaching
  <2>5. Between(c, k) => (OnlyRule(k, 0, {}))'
    BY <2>1 DEF Between, OnlyRule
  <2> HIDE DEF Kept, Noted
  <2>6. CASE l = 0
    <3>1. (OnlyRule(k, 0, {}))' => (OnlyRule(k, l, {"ACTIVE"}))'
      BY <1>6, <2>6 DEF OnlyRule
    <3>2. (Between(c, k) /\ call'[c].pc = "row" /\ call'[c].amount = l) => Between(c, k)'
      BY <2>2, <2>5, <2>6, <3>1 DEF Between
    <3> QED
      BY <2>1, <2>3, <2>4, <2>6, <3>2, <1>9 DEF Ruling
  <2>7. CASE l # 0
    <3>1. (Between(c, k) /\ call'[c].pc = "attach" /\ call'[c].creating = call[c].creating) => Between(c, k)'
      BY <2>2, <2>4, <2>5 DEF Between
    <3> QED
      BY <2>1, <2>3, <2>4, <2>7, <3>1, <1>9 DEF Ruling, Attaching
  <2> QED
    BY <2>6, <2>7
<1>15. CASE CreateRule(c)
  <2>1. /\ call[c].pc = "attach" /\ Goto(c, "promote")
        /\ rules' = [rules EXCEPT ![k][l] = IF @ = "none" THEN "SHADOWING" ELSE @]
        /\ reused' = IF rules[k][l] = "DELETED" THEN reused \cup {k} ELSE reused
        /\ UNCHANGED <<status, limit, ruleRows, unruled, twinned>>
    BY <1>2, <1>3, <1>15 DEF CreateRule
  <2>2. l \in Limits
    BY <1>4, <2>1 DEF Attaching
  <2>3. /\ \A m \in Limits : rules'[k][m] = IF m = l /\ rules[k][m] = "none" THEN "SHADOWING" ELSE rules[k][m]
        /\ \A j \in Keys \ {k} : rules'[j] = rules[j]
    BY <1>7, <2>1
  <2>4. Kept /\ Noted
    BY <2>1, <2>3
  <2>5. ASSUME k \notin Doubted', Between(c, k),
               call'[c].pc = "promote", call'[c].amount = l, call'[c].creating = call[c].creating
        PROVE  Between(c, k)'
    <3>1. rules[k][l] # "DELETED"
      BY <2>1, <2>5 DEF Doubted
    <3>3. /\ \A m \in Limits \ {l} : rules[k][m] \in {"none", "DELETED"}
          /\ rules[k][l] \in {"none", "ACTIVE"}
          /\ ruleRows[k] \subseteq {l}
          /\ call[c].creating => limit[k] = l
      <4>1. CASE call[c].creating /\ Bare(k) /\ limit[k] = l
        BY <2>2, <4>1 DEF Bare
      <4>2. CASE call[c].creating /\ InForce(k) /\ limit[k] = l
        BY <2>2, <4>2 DEF InForce, OnlyRule
      <4>3. CASE ~call[c].creating
        <5>1. OnlyRule(k, 0, {}) /\ ruleRows[k] = {}
          BY <2>1, <2>5, <4>3 DEF Between
        <5> QED
          BY <1>6, <2>2, <3>1, <4>3, <5>1 DEF OnlyRule
      <4> QED
        BY <1>3, <2>1, <2>5, <4>1, <4>2, <4>3 DEF Between
    <3>4. OnlyRule(k, l, {"SHADOWING", "ACTIVE"})'
      BY <2>2, <2>3, <3>3 DEF OnlyRule
    <3> HIDE DEF Kept, Noted
    <3> QED
      BY <2>1, <2>5, <3>3, <3>4 DEF Between
  <2> HIDE DEF Kept, Noted
  <2>6. "promote" \in Ruling /\ "promote" \in Attaching
    BY DEF Ruling, Attaching
  <2> QED
    BY <2>1, <2>4, <2>5, <2>6, <1>9
<1>16. CASE PromoteRule(c)
  <2>1. /\ call[c].pc = "promote" /\ Goto(c, "record")
        /\ rules' = [rules EXCEPT ![k][l] = IF @ = "SHADOWING" THEN "ACTIVE" ELSE @]
        /\ UNCHANGED <<status, limit, ruleRows, unruled, reused, twinned>>
    BY <1>2, <1>3, <1>16 DEF PromoteRule, Promoted, history, freezes, doubts
  <2>2. l \in Limits
    BY <1>4, <2>1 DEF Attaching
  <2>3. /\ \A m \in Limits : rules'[k][m] = IF m = l /\ rules[k][m] = "SHADOWING" THEN "ACTIVE" ELSE rules[k][m]
        /\ \A j \in Keys \ {k} : rules'[j] = rules[j]
    BY <1>7, <2>1
  <2>4. Kept /\ Noted
    BY <2>1, <2>3
  <2>5. ASSUME Between(c, k), call'[c].pc = "record", call'[c].amount = l,
               call'[c].creating = call[c].creating
        PROVE  Between(c, k)'
    <3>1. /\ OnlyRule(k, l, {"SHADOWING", "ACTIVE"}) /\ ruleRows[k] \subseteq {l}
          /\ call[c].creating => limit[k] = l
      BY <1>3, <2>1, <2>5 DEF Between
    <3>2. OnlyRule(k, l, {"ACTIVE"})'
      BY <2>3, <3>1 DEF OnlyRule
    <3> HIDE DEF Kept, Noted
    <3> QED
      BY <2>1, <2>5, <3>1, <3>2 DEF Between
  <2> HIDE DEF Kept, Noted
  <2>6. "record" \in Ruling /\ "record" \in Attaching
    BY DEF Ruling, Attaching
  <2> QED
    BY <2>1, <2>4, <2>5, <2>6, <1>9
<1>17. CASE RecordRule(c)
  <2>1. /\ call[c].pc = "record" /\ AfterRules(c)
        /\ ruleRows' = [ruleRows EXCEPT ![k] = @ \cup {l}]
        /\ UNCHANGED <<status, limit, rules, unruled, reused, twinned>>
    BY <1>2, <1>3, <1>17 DEF RecordRule, history, freezes, doubts
  <2>2. l \in Limits
    BY <1>4, <2>1 DEF Attaching
  <2>3. ruleRows'[k] = ruleRows[k] \cup {l} /\ \A j \in Keys \ {k} : ruleRows'[j] = ruleRows[j]
    BY <1>7, <2>1
  <2>4. Kept /\ Noted
    BY <2>1, <2>3
  <2>5. Between(c, k) => /\ OnlyRule(k, l, {"ACTIVE"})' /\ ruleRows'[k] = {l} \ {0}
                         /\ call[c].creating => limit'[k] = l
    <3>1. Between(c, k) => /\ OnlyRule(k, l, {"ACTIVE"}) /\ ruleRows[k] \subseteq {l}
                           /\ call[c].creating => limit[k] = l
      BY <1>3, <2>1 DEF Between
    <3> QED
      BY <1>6, <2>1, <2>2, <2>3, <3>1 DEF OnlyRule
  <2> HIDE DEF Kept, Noted
  <2>6. CASE call[c].creating
    <3>1. Between(c, k) => InForce(k)'
      BY <2>5, <2>6 DEF InForce
    <3> QED
      BY <2>1, <2>4, <2>6, <3>1, <1>8 DEF AfterRules
  <2>7. CASE ~call[c].creating
    <3>1. (Between(c, k) /\ call'[c].pc = "row" /\ call'[c].amount = l) => Between(c, k)'
      BY <2>5 DEF Between
    <3> QED
      BY <2>1, <2>4, <2>7, <3>1, <1>9 DEF AfterRules, Ruling
  <2> QED
    BY <2>6, <2>7
<1>18. CASE AttachFails(c)
  <2>1. /\ AfterRules(c) /\ unruled' = unruled \cup {k}
        /\ UNCHANGED <<status, limit, ruleRows, rules, reused, twinned>>
    BY <1>2, <1>18 DEF AttachFails, ruling
  <2>2. Kept /\ Noted /\ k \in Doubted'
    BY <2>1 DEF Doubted
  <2> HIDE DEF Kept, Noted
  <2>3. CASE call[c].creating
    BY <2>1, <2>2, <2>3, <1>8 DEF AfterRules
  <2>4. CASE ~call[c].creating
    BY <2>1, <2>2, <2>4, <1>9 DEF AfterRules, Ruling
  <2> QED
    BY <2>3, <2>4
<1>19. CASE UpdateLimits(c)
  <2>1. /\ call[c].pc = "row" /\ Leave(c)
        /\ limit' = [limit EXCEPT ![k] = l]
        /\ UNCHANGED <<status, ruleRows, rules, unruled, reused, twinned>>
    BY <1>2, <1>3, <1>19 DEF UpdateLimits, history, freezes, doubts
  <2>2. limit'[k] = l /\ \A j \in Keys \ {k} : limit'[j] = limit[j]
    BY <1>7, <2>1
  <2>3. Kept /\ Noted
    BY <2>1, <2>2
  <2>4. Between(c, k) => InForce(k)'
    <3>1. Between(c, k) => OnlyRule(k, l, {"ACTIVE"}) /\ ruleRows[k] = {l} \ {0}
      BY <1>3, <2>1 DEF Between
    <3> QED
      BY <2>1, <2>2, <3>1 DEF InForce, OnlyRule
  <2> HIDE DEF Kept, Noted
  <2> QED
    BY <2>1, <2>3, <2>4, <1>8
<1> QED
  BY <1>10, <1>11, <1>12, <1>13, <1>14, <1>15, <1>16, <1>17, <1>18, <1>19

LEMMA RuleStep ==
  ASSUME CallInv, DataInv, PaidInv, RuleInv, [Next]_vars
  PROVE  RuleInv'
<1>1. \A c \in Calls, k \in Keys, l \in Limits \cup {0} : StartLimits(c, k, l) => RuleInv'
  BY StartRules
<1>2. \A c \in Calls : SaveCard(c) => RuleInv'
  BY SaveRules
<1>3. \A c \in Calls :
        \/ ChargeIssuance(c) \/ IssueCard(c) \/ IssueFails(c)
        \/ PatchCard(c) \/ PatchTimesOut(c) \/ WriteStatus(c)
        \/ Die(c) /\ call[c].pc \notin Ruling
        \/ \E k \in Keys : (\E l \in KeyLimits[k] : CountCards(c, k, l)) \/ (\E t \in Statuses : StartChange(c, k, t))
        => RuleInv'
  BY ApartSteps, ApartKeeps
<1>4. \A c \in Calls :
        \/ Die(c) /\ call[c].pc \in Ruling
        \/ UpdateCardLimit(c) \/ DeleteRules(c) \/ DeleteFails(c) \/ DeleteRows(c)
        \/ CreateRule(c) \/ PromoteRule(c) \/ RecordRule(c) \/ AttachFails(c) \/ UpdateLimits(c)
        => RuleInv'
  BY WorkSteps
<1>5. \/ CarriedOutLate \/ UNCHANGED vars
      \/ \E k \in Keys : (\E i \in DOMAIN news[k] : SyncCardState(k, i)) \/ WebhookLost(k)
      => RuleInv'
  BY OutsideSteps, ApartKeeps
<1>6. "FROZEN" \in Statuses
  BY DEF Statuses
<1> QED
  BY <1>1, <1>2, <1>3, <1>4, <1>5, <1>6 DEF Next, SetStatus, FreezeCard

LEMMA InitRules == Init => RuleInv
BY DEF Init, RuleInv, RuleOk, OwnSteps, Bare, On, NoCall, Creating, Ruling, Attaching

-----------------------------------------------------------------------------
IInv == CallInv /\ DataInv /\ PaidInv /\ SafeInv /\ RowInv /\ RoomInv /\ RuleInv

LEMMA Initially == Init => IInv
<1> SUFFICES ASSUME Init PROVE IInv
  OBVIOUS
<1>1. CallInv /\ DataInv
  BY InitInv
<1>2. PaidInv /\ SafeInv /\ RowInv
  BY DEF Init, PaidInv, SafeInv, RowInv, Changes, Changing, NoCall
<1>3. OpenCards = {}
  BY DEF Init, OpenCards
<1>4. RoomInv
  BY <1>3, FS_EmptySet, CardsAssumption DEF RoomInv, Init, NoCall, Creating
<1>5. RuleInv
  BY InitRules
<1> QED
  BY <1>1, <1>2, <1>4, <1>5 DEF IInv

LEMMA Inductive == IInv /\ [Next]_vars => IInv'
<1> SUFFICES ASSUME IInv, [Next]_vars PROVE IInv'
  OBVIOUS
<1>1. CallInv /\ DataInv /\ PaidInv /\ SafeInv /\ RowInv /\ RoomInv /\ RuleInv
  BY DEF IInv
<1>2. CallInv'
  BY <1>1, CallStep
<1>3. DataInv'
  BY <1>1, DataStep
<1>4. PaidInv'
  BY <1>1, PaidStep
<1>5. SafeInv'
  BY <1>1, SafeStep
<1>6. RowInv'
  BY <1>1, RowStep
<1>7. RoomInv'
  BY <1>1, RoomStep
<1>8. RuleInv'
  BY <1>1, RuleStep
<1> QED
  BY <1>2, <1>3, <1>4, <1>5, <1>6, <1>7, <1>8 DEF IInv

\* IInv holds throughout: the invariant the theorems below are read off.
LEMMA Throughout == Spec => []IInv
  BY Initially, Inductive, PTL DEF Spec

\* Requests, rows and the issuer's cards keep their types through every interleaving of requests,
\* timeouts, late answers, webhooks and deaths.
THEOREM TypeCorrect == Spec => []TypeOK
<1>1. IInv => TypeOK
  BY TypeParts DEF IInv
<1> QED
  BY <1>1, Throughout, PTL

\* One issuance fee a card, whatever fails between the fee and the row, and no card unpaid for.
THEOREM OneFeeOneCardCorrect == Spec => []OneFeeOneCard
<1>1. IInv => OneFeeOneCard
  BY DEF IInv, PaidInv, OneFeeOneCard
<1> QED
  BY <1>1, Throughout, PTL

\* The plan's ceiling holds where creations do not overlap, for a request that adds its card long
\* after the cards were counted.
THEOREM CeilingHeldCorrect == Spec => []CeilingHeld
<1>1. IInv => CeilingHeld
  BY DEF IInv, RoomInv, CeilingHeld
<1> QED
  BY <1>1, Throughout, PTL

\* A card that is safe cannot be spent from until somebody asks to unfreeze it, or the issuer
\* carries out an unfreeze that had timed out before.
THEOREM FrozenStaysFrozenCorrect == Spec => []FrozenStaysFrozen
<1>1. IInv => FrozenStaysFrozen
  BY DEF IInv, SafeInv, FrozenStaysFrozen
<1> QED
  BY <1>1, Throughout, PTL

\* The row shows what the issuer does once no webhook is on its way.
THEOREM RowFollowsIssuerCorrect == Spec => []RowFollowsIssuer
<1>1. IInv => RowFollowsIssuer
  BY DEF IInv, RowInv, RowFollowsIssuer
<1> QED
  BY <1>1, Throughout, PTL

\* Between requests the issuer enforces the limit the row shows and no other, and card_rules
\* knows that rule, unless a step at the rules failed, two requests met there, an amount was asked
\* for again, or a creation with another limit came back to the card.
THEOREM LimitInForceCorrect == Spec => []LimitInForce
<1>1. IInv => LimitInForce
  <2> SUFFICES ASSUME IInv, NEW k \in Keys \ Doubted,
                      status[k] # "none", On(k, Ruling) = {}
               PROVE  /\ {l \in Limits : rules[k][l] = "ACTIVE"} = {limit[k]} \ {0}
                      /\ ruleRows[k] = {limit[k]} \ {0}
    BY DEF LimitInForce, Doubted
  <2>1. InForce(k)
    BY DEF IInv, RuleInv, RuleOk
  <2>2. limit[k] \in Limits \cup {0} /\ 0 \notin Limits
    BY CardsAssumption DEF IInv, DataInv
  <2> QED
    BY <2>1, <2>2 DEF InForce, OnlyRule
<1> QED
  BY <1>1, Throughout, PTL
=============================================================================
