-------------------------------- MODULE Cards ---------------------------------
(***************************************************************************)
(* Issuing and controlling the cards of one customer: CardsService, the    *)
(* console's freeze, the card webhooks and, through LithicClient, the      *)
(* issuer.  The idempotency key of create stands for its card: it is made  *)
(* of the first thirty bytes of name and limits, so inputs with different  *)
(* limits may have one key.  Requests yield at every await, a request to   *)
(* the issuer that timed out may still be carried out, and webhooks come   *)
(* in any order.                                                           *)
(***************************************************************************)
EXTENDS Sequences, SequencesExt, FiniteSets, Naturals

CONSTANTS Keys,        \* the idempotency keys of what the customer asks a card for
          NoKey,
          KeyLimits,   \* KeyLimits[k]: the daily limits, 0 for none, of the inputs with key k
          Limits,      \* what the daily limit may be set to
          Calls,       \* requests the API is serving at one time
          MaxCards,    \* open cards of the plan, 0 for no limit
          Funds,       \* issuance fees the balance covers
          MaxRequests, \* requests in all (bound)
          MaxFaults    \* timeouts, deaths of a request and lost webhooks (bound)

ASSUME CardsAssumption ==
  /\ NoKey \notin Keys
  /\ Limits \subseteq Nat \ {0} /\ KeyLimits \in [Keys -> SUBSET (Limits \cup {0})]
  /\ MaxCards \in Nat /\ Funds \in Nat /\ MaxRequests \in Nat /\ MaxFaults \in Nat

VARIABLES
  state,    \* state[k]: the card at the issuer
  status,   \* status[k]: its row
  charged,  \* charged[k]: issuance fees taken under the key
  funds,    \* issuance fees the balance still covers
  limit,    \* limit[k]: the daily limit in the row, 0 for none
  ruleRows, \* ruleRows[k]: the amounts of the rules in card_rules
  rules,    \* rules[k][l]: the issuer's rule for that amount, by its idempotency key
  call,     \* call[c]: the request in slot c
  late,     \* changes the issuer may carry out after the client gave up on them
  news,     \* news[k]: card webhooks on their way, oldest first
  requests, faults,
  \* History:
  crowded,  \* creations overlapped, or a closed row was opened again
  overtaken,\* requests during which another changed the same card, or may have
  muddled,  \* cards whose requests or webhooks overtook each other
  unruled,  \* cards whose rules were left alone by a failure or changed by two requests
  reused,   \* cards for which a rule was asked for under a key used before
  twinned,  \* cards got again by a creation with a limit other than the row's
  safe,     \* cards frozen or closed for good, as far as customer and staff know
  thawed    \* of these, the cards a late unfreeze opened again

money == <<charged, funds>>
ruling == <<limit, ruleRows, rules>>
counters == <<requests, faults>>
doubts == <<unruled, reused, twinned>>
freezes == <<safe, thawed>>
history == <<crowded, overtaken, muddled, freezes, doubts>>
vars == <<state, status, money, ruling, call, late, news, counters, history>>

Statuses == {"ACTIVE", "FROZEN", "CLOSED"}
States == {"OPEN", "PAUSED", "CLOSED"}
ToLithicState == [ACTIVE |-> "OPEN", FROZEN |-> "PAUSED", CLOSED |-> "CLOSED"]
RuleStates == {"none", "SHADOWING", "ACTIVE", "DELETED"}
NoCall == [pc |-> "idle", key |-> NoKey, target |-> "ACTIVE",
           amount |-> 0, old |-> {}, creating |-> FALSE]
Creating == {"charge", "issue", "save"}
Attaching == {"attach", "promote", "record"}
Ruling == Attaching \cup {"spend", "drop", "forget", "row"}
Changing == {"patch", "write"}

On(k, pcs) == {c \in Calls : call[c].key = k /\ call[c].pc \in pcs}
Goto(c, pc) == call' = [call EXCEPT ![c].pc = pc]
Leave(c) == call' = [call EXCEPT ![c] = NoCall]
Request(c) == call[c] = NoCall /\ requests < MaxRequests /\ requests' = requests + 1
Fault == faults < MaxFaults /\ faults' = faults + 1

-----------------------------------------------------------------------------
(* create                                                                  *)

ActiveOnly == {k \in Keys : status[k] = "ACTIVE"}             \* mutant

OpenCards == {k \in Keys : status[k] \in {"ACTIVE", "FROZEN"}}

\* The open cards are counted when the request comes; its own becomes one of them much later.
CountCards(c, k, l) ==
  /\ Request(c)
  /\ MaxCards = 0 \/ Cardinality(OpenCards) < MaxCards
  /\ call' = [call EXCEPT ![c] = [NoCall EXCEPT !.pc = "charge", !.key = k,
                                       !.amount = l, !.creating = TRUE]]
  /\ crowded' = (crowded \/ \E d \in Calls : call[d].pc \in Creating)
  /\ UNCHANGED <<state, status, money, ruling, late, news, faults, overtaken, muddled, freezes, doubts>>

PaidNever(k) == FALSE                                           \* mutant

\* The fee's idempotency key is made of the same bytes.
PaidBefore(k) == charged[k] > 0

ChargeIssuance(c) ==
  LET k == call[c].key IN
  /\ call[c].pc = "charge"
  /\ \/ PaidBefore(k) /\ Goto(c, "issue") /\ UNCHANGED <<charged, funds>>
     \/ /\ ~PaidBefore(k) /\ funds > 0
        /\ funds' = funds - 1
        /\ charged' = [charged EXCEPT ![k] = @ + 1]
        /\ Goto(c, "issue")
     \/ ~PaidBefore(k) /\ funds = 0 /\ Leave(c) /\ UNCHANGED <<charged, funds>>
  /\ UNCHANGED <<state, status, ruling, late, news, counters, history>>

\* The issuer answers a repeated key with the first card, whatever is asked for.
IssueCard(c) ==
  LET k == call[c].key IN
  /\ call[c].pc = "issue"
  /\ state' = [state EXCEPT ![k] = IF @ = "none" THEN "OPEN" ELSE @]
  /\ Goto(c, "save")
  /\ UNCHANGED <<status, money, ruling, late, news, counters, history>>

\* The answer is lost for good, with or without a card; the customer may ask again.
IssueFails(c) ==
  LET k == call[c].key IN
  /\ call[c].pc = "issue"
  /\ Fault
  /\ state' \in {state, [state EXCEPT ![k] = IF @ = "none" THEN "OPEN" ELSE @]}
  /\ Leave(c)
  /\ UNCHANGED <<status, money, ruling, late, news, requests, history>>

\* Two requests that see to the rules of one card do not know of each other.
Meets(c, k) == IF On(k, Ruling) \ {c} = {} THEN unruled ELSE unruled \cup {k}

\* The upsert does not touch a row that is there, and create() goes on to attach its own limit.
SaveCard(c) ==
  LET k == call[c].key IN
  /\ call[c].pc = "save"
  /\ status' = [status EXCEPT ![k] = IF @ = "none" THEN "ACTIVE" ELSE @]
  /\ limit' = [limit EXCEPT ![k] = IF status[k] = "none" THEN call[c].amount ELSE @]
  /\ IF call[c].amount = 0 THEN Leave(c) ELSE Goto(c, "attach")
  /\ unruled' = Meets(c, k)
  /\ twinned' = IF status[k] # "none" /\ call[c].amount \notin {0, limit[k]}
                THEN twinned \cup {k} ELSE twinned
  /\ UNCHANGED <<state, money, ruleRows, rules, late, news, counters,
                 crowded, overtaken, muddled, freezes, reused>>

-----------------------------------------------------------------------------
(* updateLimits, and attachVelocityRule, which create calls too.  One      *)
(* period stands for both.                                                 *)

StartLimits(c, k, l) ==
  /\ Request(c)
  /\ status[k] \notin {"none", "CLOSED"}
  /\ call' = [call EXCEPT ![c] = [NoCall EXCEPT !.pc = "spend", !.key = k, !.amount = l,
                                                !.old = ruleRows[k]]]
  /\ unruled' = Meets(c, k)
  /\ UNCHANGED <<state, status, money, ruling, late, news, faults,
                 crowded, overtaken, muddled, freezes, reused, twinned>>

\* The issuer refuses to change a closed card.
UpdateCardLimit(c) ==
  /\ call[c].pc = "spend"
  /\ IF state[call[c].key] = "CLOSED" THEN Leave(c) ELSE Goto(c, "drop")
  /\ UNCHANGED <<state, status, money, ruling, late, news, counters, history>>

DeleteRules(c) ==
  LET k == call[c].key IN
  /\ call[c].pc = "drop"
  /\ rules' = [rules EXCEPT ![k] = [l \in Limits |-> IF l \in call[c].old THEN "DELETED" ELSE @[l]]]
  /\ Goto(c, "forget")
  /\ UNCHANGED <<state, status, money, limit, ruleRows, late, news, counters, history>>

\* A rule that could not be deleted is forgotten like the others.
DeleteFails(c) ==
  LET k == call[c].key IN
  /\ call[c].pc = "drop" /\ call[c].old # {}
  /\ Fault
  /\ \E gone \in SUBSET call[c].old \ {call[c].old} :
       rules' = [rules EXCEPT ![k] = [l \in Limits |-> IF l \in gone THEN "DELETED" ELSE @[l]]]
  /\ Goto(c, "forget")
  /\ unruled' = unruled \cup {k}
  /\ UNCHANGED <<state, status, money, limit, ruleRows, late, news, requests,
                 crowded, overtaken, muddled, freezes, reused, twinned>>

AfterRules(c) == IF call[c].creating THEN Leave(c) ELSE Goto(c, "row")

DeleteRows(c) ==
  /\ call[c].pc = "forget"
  /\ ruleRows' = [ruleRows EXCEPT ![call[c].key] = {}]
  /\ Goto(c, IF call[c].amount = 0 THEN "row" ELSE "attach")
  /\ UNCHANGED <<state, status, money, limit, rules, late, news, counters, history>>

\* The key is the card and the amount: a second request is answered with the first rule,
\* which may have been deleted.
CreateRule(c) ==
  LET k == call[c].key
      l == call[c].amount IN
  /\ call[c].pc = "attach"
  /\ rules' = [rules EXCEPT ![k][l] = IF @ = "none" THEN "SHADOWING" ELSE @]
  /\ reused' = IF rules[k][l] = "DELETED" THEN reused \cup {k} ELSE reused
  /\ Goto(c, "promote")
  /\ UNCHANGED <<state, status, money, limit, ruleRows, late, news, counters,
                 crowded, overtaken, muddled, freezes, unruled, twinned>>

Unpromoted == "SHADOWING"                                       \* mutant

Promoted == "ACTIVE"

PromoteRule(c) ==
  /\ call[c].pc = "promote"
  /\ rules' = [rules EXCEPT ![call[c].key][call[c].amount] = IF @ = "SHADOWING" THEN Promoted ELSE @]
  /\ Goto(c, "record")
  /\ UNCHANGED <<state, status, money, limit, ruleRows, late, news, counters, history>>

RecordRule(c) ==
  /\ call[c].pc = "record"
  /\ ruleRows' = [ruleRows EXCEPT ![call[c].key] = @ \cup {call[c].amount}]
  /\ AfterRules(c)
  /\ UNCHANGED <<state, status, money, limit, rules, late, news, counters, history>>

\* A failed rule does not fail the request.
AttachFails(c) ==
  /\ call[c].pc \in Attaching
  /\ Fault
  /\ AfterRules(c)
  /\ unruled' = unruled \cup {call[c].key}
  /\ UNCHANGED <<state, status, money, ruling, late, news, requests,
                 crowded, overtaken, muddled, freezes, reused, twinned>>

UpdateLimits(c) ==
  /\ call[c].pc = "row"
  /\ limit' = [limit EXCEPT ![call[c].key] = call[c].amount]
  /\ Leave(c)
  /\ UNCHANGED <<state, status, money, ruleRows, rules, late, news, counters, history>>

-----------------------------------------------------------------------------
(* setStatus and freezeCard.  The issuer is asked first, the row follows.  *)

Allowed(k, target) ==
  CASE target = "ACTIVE" -> status[k] = "FROZEN"
    [] target = "FROZEN" -> status[k] = "ACTIVE"
    [] target = "CLOSED" -> status[k] # "CLOSED"

\* The requests that are changing k, and those that start or are carried out meanwhile.
Overtake(k, new) ==
  IF On(k, Changing) = {} THEN overtaken' = overtaken \ new /\ UNCHANGED muddled
  ELSE overtaken' = overtaken \cup On(k, Changing) \cup new /\ muddled' = muddled \cup {k}

StartChange(c, k, target) ==
  /\ Request(c)
  /\ status[k] # "none"
  /\ call' = [call EXCEPT ![c] = [NoCall EXCEPT !.pc = "patch", !.key = k, !.target = target]]
  /\ Overtake(k, {c})
  /\ safe' = IF target = "ACTIVE" THEN safe \ {k} ELSE safe
  /\ UNCHANGED <<state, status, money, ruling, late, news, faults, crowded, thawed, doubts>>

SetStatus(c, k, target) == Allowed(k, target) /\ StartChange(c, k, target)

\* Staff are asked no questions.
FreezeCard(c, k) == StartChange(c, k, "FROZEN")

\* A closed card stays closed, and every change is announced.
CarryOut(k, s) ==
  IF state[k] \in {"CLOSED", s} THEN UNCHANGED <<state, news>>
  ELSE state' = [state EXCEPT ![k] = s] /\ news' = [news EXCEPT ![k] = Append(@, s)]

Refused(k, s) == state[k] = "CLOSED" /\ s # "CLOSED"

PatchCard(c) ==
  LET k == call[c].key
      s == ToLithicState[call[c].target] IN
  /\ call[c].pc = "patch"
  /\ IF Refused(k, s) THEN Leave(c) ELSE Goto(c, "write")
  /\ CarryOut(k, s)
  /\ UNCHANGED <<status, money, ruling, late, counters, history>>

AssumeDone == "write"                                           \* mutant

AfterTimeout == "patch"

\* The client waits fifteen seconds and sends the change again.
PatchTimesOut(c) ==
  LET k == call[c].key IN
  /\ call[c].pc = "patch"
  /\ Fault
  /\ late' = late \cup {<<k, ToLithicState[call[c].target]>>}
  /\ Goto(c, AfterTimeout)
  /\ UNCHANGED <<state, status, money, ruling, news, requests, history>>

CarriedOutLate ==
  \E p \in late :
    /\ late' = late \ {p}
    /\ CarryOut(p[1], p[2])
    /\ Overtake(p[1], {})
    /\ thawed' = IF p[2] = "OPEN" /\ state[p[1]] = "PAUSED" THEN thawed \cup {p[1]} ELSE thawed
    /\ UNCHANGED <<status, money, ruling, call, counters, crowded, safe, doubts>>

WriteStatus(c) ==
  LET k == call[c].key
      t == call[c].target IN
  /\ call[c].pc = "write"
  /\ status' = [status EXCEPT ![k] = t]
  /\ Leave(c)
  /\ IF t # "ACTIVE" /\ c \notin overtaken
     THEN safe' = safe \cup {k} /\ thawed' = thawed \ {k}
     ELSE UNCHANGED freezes
  /\ crowded' = (crowded \/ (status[k] = "CLOSED" /\ t # "CLOSED"))
  /\ UNCHANGED <<state, money, ruling, late, news, counters, overtaken, muddled, doubts>>

-----------------------------------------------------------------------------
\* syncCardState: the row is set to what the webhook says.
FrozenUnknown(s) == IF s = "OPEN" THEN {"ACTIVE"} ELSE IF s = "CLOSED" THEN {"CLOSED"} ELSE {}  \* mutant

StatusOf(s) == {t \in Statuses : ToLithicState[t] = s}

SyncCardState(k, i) ==
  /\ i \in DOMAIN news[k]
  /\ news' = [news EXCEPT ![k] = RemoveAt(@, i)]
  /\ status' = IF status[k] = "none" \/ StatusOf(news[k][i]) = {} THEN status
               ELSE [status EXCEPT ![k] = CHOOSE t \in StatusOf(news[k][i]) : TRUE]
  /\ crowded' = (crowded \/ (status[k] = "CLOSED" /\ news[k][i] # "CLOSED"))
  /\ muddled' = IF i = 1 THEN muddled ELSE muddled \cup {k}
  /\ UNCHANGED <<state, money, ruling, call, late, counters, overtaken, freezes, doubts>>

WebhookLost(k) ==
  /\ news[k] # <<>>
  /\ Fault
  /\ news' = [news EXCEPT ![k] = Tail(@)]
  /\ muddled' = muddled \cup {k}
  /\ UNCHANGED <<state, status, money, ruling, call, late, requests, crowded, overtaken, freezes, doubts>>

\* A request dies, with the process or because the database failed it.
Die(c) ==
  /\ call[c] # NoCall
  /\ Fault
  /\ Leave(c)
  /\ unruled' = IF call[c].pc \in Ruling THEN unruled \cup {call[c].key} ELSE unruled
  /\ UNCHANGED <<state, status, money, ruling, late, news, requests,
                 crowded, overtaken, muddled, freezes, reused, twinned>>

-----------------------------------------------------------------------------
Init ==
  /\ state = [k \in Keys |-> "none"] /\ status = [k \in Keys |-> "none"]
  /\ charged = [k \in Keys |-> 0] /\ funds = Funds
  /\ call = [c \in Calls |-> NoCall]
  /\ limit = [k \in Keys |-> 0] /\ ruleRows = [k \in Keys |-> {}]
  /\ rules = [k \in Keys |-> [l \in Limits |-> "none"]]
  /\ late = {} /\ news = [k \in Keys |-> <<>>]
  /\ requests = 0 /\ faults = 0
  /\ crowded = FALSE /\ overtaken = {} /\ muddled = {} /\ safe = {}
  /\ unruled = {} /\ reused = {} /\ twinned = {} /\ thawed = {}

Next ==
  \/ \E c \in Calls, k \in Keys :
       \/ \E l \in KeyLimits[k] : CountCards(c, k, l)
       \/ FreezeCard(c, k)
       \/ \E target \in Statuses : SetStatus(c, k, target)
       \/ \E l \in Limits \cup {0} : StartLimits(c, k, l)
  \/ \E c \in Calls :
       \/ ChargeIssuance(c) \/ IssueCard(c) \/ IssueFails(c) \/ SaveCard(c)
       \/ PatchCard(c) \/ PatchTimesOut(c) \/ WriteStatus(c) \/ Die(c)
  \/ \E c \in Calls :
       \/ UpdateCardLimit(c) \/ DeleteRules(c) \/ DeleteFails(c) \/ DeleteRows(c)
       \/ CreateRule(c) \/ PromoteRule(c) \/ RecordRule(c) \/ AttachFails(c) \/ UpdateLimits(c)
  \/ CarriedOutLate
  \/ \E k \in Keys :
       \/ \E i \in DOMAIN news[k] : SyncCardState(k, i)
       \/ WebhookLost(k)

Spec == Init /\ [][Next]_vars

-----------------------------------------------------------------------------
TypeOK ==
  /\ state \in [Keys -> States \cup {"none"}]
  /\ status \in [Keys -> Statuses \cup {"none"}]
  /\ charged \in [Keys -> Nat] /\ funds \in 0..Funds
  /\ limit \in [Keys -> Limits \cup {0}] /\ ruleRows \in [Keys -> SUBSET Limits]
  /\ rules \in [Keys -> [Limits -> RuleStates]]
  /\ call \in [Calls -> [pc : {"idle"} \cup Creating \cup Changing \cup Ruling,
                         key : Keys \cup {NoKey}, target : Statuses,
                         amount : Limits \cup {0}, old : SUBSET Limits, creating : BOOLEAN]]
  /\ \A c \in Calls : call[c].pc = "idle" <=> call[c] = NoCall
  /\ late \subseteq Keys \X States
  /\ news \in [Keys -> Seq(States)]
  /\ requests \in 0..MaxRequests /\ faults \in 0..MaxFaults
  /\ crowded \in BOOLEAN /\ overtaken \subseteq Calls
  /\ muddled \subseteq Keys /\ safe \subseteq Keys
  /\ unruled \subseteq Keys /\ reused \subseteq Keys
  /\ twinned \subseteq Keys /\ thawed \subseteq Keys

\* Whatever fails after the fee was taken, a request repeated under its key pays nothing for the
\* card it then gets, and no card is issued that was not paid for ("charge before issuing").
OneFeeOneCard ==
  \A k \in Keys : charged[k] <= 1 /\ (state[k] # "none" => charged[k] = 1)

\* The plan's ceiling holds although a card is counted long after it was let in, unless
\* creations overlapped or a late change opened a closed row again.
CeilingHeld == (MaxCards > 0 /\ ~crowded) => Cardinality(OpenCards) <= MaxCards

\* A card that was frozen or closed, with no other change under way, cannot be spent from until
\* somebody asks to unfreeze it: a stale webhook may open the row, but the issuer still declines,
\* whatever was sent again after a timeout.  What was sent before may undo it: an unfreeze that
\* timed out and that the issuer carries out after the freeze (thawed) is the only thing that does.
FrozenStaysFrozen == \A k \in safe \ thawed : state[k] # "OPEN"

\* When no webhook is on its way the row shows what the issuer does, in the midst of a request and
\* also after one that died between the issuer and the row, unless something was overtaken or lost.
RowFollowsIssuer ==
  \A k \in Keys \ muddled :
    (status[k] # "none" /\ news[k] = <<>>) => state[k] = ToLithicState[status[k]]

\* Between requests the rule in force at the issuer is the limit the row shows and none other,
\* and card_rules knows it, although every change deletes the old rule and creates, promotes and
\* records the new one, unless one of these steps failed, two changes met, the amount was set
\* before, so that the issuer answered with the rule it deleted then, or a creation with another
\* limit came back to the card and attached its rule to it.
LimitInForce ==
  \A k \in Keys \ (unruled \cup reused \cup twinned) :
    (status[k] # "none" /\ On(k, Ruling) = {}) =>
      /\ {l \in Limits : rules[k][l] = "ACTIVE"} = {limit[k]} \ {0}
      /\ ruleRows[k] = {limit[k]} \ {0}
=============================================================================
