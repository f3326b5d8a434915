--------------------------- MODULE SessionsProofs ---------------------------
(***************************************************************************)
(* Theorems about module Sessions, for any browsers, tokens, requests and  *)
(* bounds.                                                                 *)
(***************************************************************************)
EXTENDS Sessions, TLAPS

-----------------------------------------------------------------------------
(* Type correctness.                                                       *)

\* A request in progress has a browser; a refresh has a token, and nobody else issues
\* with one in hand; a new token is a second one; what it will inherit is known when
\* it may issue.
CallInv ==
  \A c \in Calls :
    \/ call[c] = NoCall
    \/ /\ call[c].dev \in Devices
       /\ call[c].pc # "idle"
       /\ call[c].tok # NoToken => call[c].op \in {"refresh", "logout"}
       /\ call[c].op = "refresh" => call[c].tok # NoToken
       /\ call[c].pc = "issue" => call[c].op \in {"register", "login", "refresh"}
       /\ call[c].pc = "revokeOld" => call[c].op = "refresh" /\ call[c].tok # NoToken
       /\ call[c].new # NoToken => /\ call[c].new # call[c].tok
                                   /\ call[c].pc \in {"revokeOld", "answer"}
       /\ call[c].old \/ call[c].late => call[c].pc \in {"issue", "revokeOld", "answer"}

Typed == TypeOK /\ CallInv

LEMMA NoCallFields ==
  /\ NoCall \in CallType
  /\ NoCall.op = "none" /\ NoCall.pc = "idle" /\ NoCall.dev = "none"
  /\ NoCall.tok = NoToken /\ NoCall.new = NoToken
  /\ NoCall.old = FALSE /\ NoCall.late = FALSE
BY DEF NoCall, CallType, Steps

\* A request is a record: replacing a field gives a request again.
LEMMA CallFields ==
  ASSUME NEW x \in CallType
  PROVE  /\ \A p \in Steps : [x EXCEPT !.pc = p] \in CallType
         /\ \A p \in Steps, a \in BOOLEAN, b \in BOOLEAN :
              [x EXCEPT !.pc = p, !.old = a, !.late = b] \in CallType
         /\ \A p \in Steps, t \in Tokens : [x EXCEPT !.new = t, !.pc = p] \in CallType
         /\ [x EXCEPT !.late = TRUE] \in CallType
         /\ [x EXCEPT !.old = TRUE] \in CallType
BY DEF CallType

\* A new request.
Served(d, op, step, tok) ==
  [NoCall EXCEPT !.op = op, !.pc = step, !.dev = d, !.tok = tok]

LEMMA ServedFields ==
  ASSUME NEW d \in Devices, NEW op \in Ops, NEW step \in Steps,
         NEW tok \in Tokens \cup {NoToken}
  PROVE  /\ Served(d, op, step, tok) \in CallType
         /\ Served(d, op, step, tok).op = op
         /\ Served(d, op, step, tok).pc = step
         /\ Served(d, op, step, tok).dev = d
         /\ Served(d, op, step, tok).tok = tok
         /\ Served(d, op, step, tok).new = NoToken
         /\ Served(d, op, step, tok).old = FALSE
         /\ Served(d, op, step, tok).late = FALSE
BY DEF Served, NoCall, CallType

\* What an arrival does: one idle slot serves a request of browser d.
Arrival(c, d, op, step, tok) ==
  /\ op \in Ops /\ step \in Steps \ {"idle", "revokeOld", "answer"}
  /\ tok \in {NoToken, jar[d]}
  /\ step = "read" => tok = jar[d]
  /\ tok # NoToken => op \in {"refresh", "logout"}
  /\ op = "refresh" => tok # NoToken
  /\ step = "issue" => op = "login" /\ status \notin {"none", "FROZEN"}
  /\ op = "reset" => step = "write"
  /\ Serve(c, d, op, step, tok)

LEMMA Arrivals ==
  ASSUME NEW c \in Calls, NEW d \in Devices, Arrives(c, d)
  PROVE  \E op \in Ops, step \in Steps, tok \in {NoToken, jar[d]} :
            Arrival(c, d, op, step, tok)
<1> USE DEF Ops, Steps
<1>1. CASE Register(c, d)
  <2>1. Arrival(c, d, "register", "write", NoToken)
    BY <1>1 DEF Register, Arrival
  <2> QED
    BY <2>1
<1>2. CASE Login(c, d)
  <2>1. Arrival(c, d, "login", "issue", NoToken)
    BY <1>2 DEF Login, MayLogIn, Arrival
  <2> QED
    BY <2>1
<1>3. CASE Refresh(c, d)
  <2>1. Arrival(c, d, "refresh", "read", jar[d])
    BY <1>3 DEF Refresh, Arrival
  <2> QED
    BY <2>1
<1>4. CASE Logout(c, d)
  <2>1. Arrival(c, d, "logout", "read", jar[d])
    BY <1>4 DEF Logout, Arrival
  <2> QED
    BY <2>1
<1>5. CASE LogoutAll(c, d)
  <2>1. Arrival(c, d, "logoutAll", "revokeAll", NoToken)
    BY <1>5 DEF LogoutAll, Arrival
  <2> QED
    BY <2>1
<1>6. CASE ResetPassword(c, d)
  <2>1. Arrival(c, d, "reset", "write", NoToken)
    BY <1>6 DEF ResetPassword, Arrival
  <2> QED
    BY <2>1
<1>7. CASE VerifyEmail(c, d)
  <2>1. Arrival(c, d, "verify", "write", NoToken)
    BY <1>7 DEF VerifyEmail, Arrival
  <2> QED
    BY <2>1
<1> QED
  BY <1>1, <1>2, <1>3, <1>4, <1>5, <1>6, <1>7 DEF Arrives

-----------------------------------------------------------------------------
(* What a step does to the requests, one by one.                           *)

\* Request c moves on: everybody else stays, and c keeps its browser and token.
Moves(c, step) ==
  /\ \A k \in Calls \ {c} : call'[k] = call[k]
  /\ call'[c] \in CallType
  /\ call'[c].pc = step
  /\ call'[c].op = call[c].op /\ call'[c].dev = call[c].dev /\ call'[c].tok = call[c].tok

LEMMA GoMoves ==
  ASSUME TypeOK, NEW c \in Calls, NEW step \in Steps, Go(c, step)
  PROVE  /\ call' \in [Calls -> CallType]
         /\ Moves(c, step)
         /\ call'[c].new = call[c].new
         /\ call'[c].old = call[c].old /\ call'[c].late = call[c].late
<1>1. call[c] \in CallType
  BY DEF TypeOK
<1>2. [call[c] EXCEPT !.pc = step] \in CallType
  BY <1>1, CallFields
<1>3. call' = [call EXCEPT ![c] = [call[c] EXCEPT !.pc = step]]
  BY Zenon DEF Go
<1>4. call'[c] = [call[c] EXCEPT !.pc = step]
  BY <1>3 DEF TypeOK
<1> QED
  BY <1>1, <1>2, <1>3, <1>4 DEF TypeOK, Moves, CallType

LEMMA EndMoves ==
  ASSUME TypeOK, NEW c \in Calls, End(c)
  PROVE  /\ call' \in [Calls -> CallType]
         /\ call'[c] = NoCall
         /\ \A k \in Calls \ {c} : call'[k] = call[k]
BY NoCallFields DEF End, TypeOK

LEMMA ArrivalMoves ==
  ASSUME TypeOK, NEW c \in Calls, NEW d \in Devices, NEW op, NEW step, NEW tok,
         Arrival(c, d, op, step, tok)
  PROVE  /\ call' \in [Calls -> CallType]
         /\ call'[c] = Served(d, op, step, tok)
         /\ \A k \in Calls \ {c} : call'[k] = call[k]
<1>1. op \in Ops /\ step \in Steps /\ tok \in Tokens \cup {NoToken}
  BY DEF Arrival, TypeOK
<1>2. Served(d, op, step, tok) \in CallType
  BY <1>1, ServedFields
<1>3. call' = [call EXCEPT ![c] = Served(d, op, step, tok)]
  BY DEF Arrival, Serve, Served
<1> QED
  BY <1>2, <1>3 DEF TypeOK

LEMMA RefreshReadMoves ==
  ASSUME TypeOK, NEW c \in Calls, RefreshRead(c)
  PROVE  /\ call' \in [Calls -> CallType]
         /\ Moves(c, "issue")
         /\ call'[c].new = call[c].new
         /\ call'[c].old = (call[c].tok \in oldPassword)
         /\ call'[c].late = (call[c].tok \in escaped)
<1> DEFINE a == call[c].tok \in oldPassword
           b == call[c].tok \in escaped
           r == [call[c] EXCEPT !.pc = "issue", !.old = a, !.late = b]
<1>1. call[c] \in CallType
  BY DEF TypeOK
<1>2. a \in BOOLEAN /\ b \in BOOLEAN
  OBVIOUS
<1>3. r \in CallType
  BY <1>1, <1>2, CallFields DEF Steps
<1>4. call' = [call EXCEPT ![c] = r]
  BY Zenon DEF RefreshRead
<1>5. call'[c] = r
  BY <1>4 DEF TypeOK
<1>6. r.new = call[c].new /\ r.old = a /\ r.late = b /\ r.pc = "issue"
      /\ r.op = call[c].op /\ r.dev = call[c].dev /\ r.tok = call[c].tok
  BY <1>1 DEF CallType
<1> QED
  BY <1>3, <1>4, <1>5, <1>6 DEF TypeOK, Moves

\* Overtaking changes nothing but late, and makes those about to issue late.
LEMMA OvertakenFields ==
  ASSUME NEW cs \in [Calls -> CallType], NEW k \in Calls
  PROVE  /\ Overtaken(cs) \in [Calls -> CallType]
         /\ Overtaken(cs)[k].op = cs[k].op /\ Overtaken(cs)[k].pc = cs[k].pc
         /\ Overtaken(cs)[k].dev = cs[k].dev /\ Overtaken(cs)[k].tok = cs[k].tok
         /\ Overtaken(cs)[k].new = cs[k].new /\ Overtaken(cs)[k].old = cs[k].old
         /\ cs[k].pc = "issue" => Overtaken(cs)[k].late
         /\ cs[k].pc # "issue" => Overtaken(cs)[k] = cs[k]
<1>1. \A j \in Calls : cs[j] \in CallType
  OBVIOUS
<1>2. \A j \in Calls : [cs[j] EXCEPT !.late = TRUE] \in CallType
  BY <1>1, CallFields
<1> QED
  BY <1>1, <1>2 DEF Overtaken, CallType

LEMMA IssueMoves ==
  ASSUME TypeOK, NEW c \in Calls, NEW new \in Tokens,
         call' = [call EXCEPT ![c] = [@ EXCEPT !.new = new,
                     !.pc = IF call[c].tok = NoToken THEN "answer" ELSE "revokeOld"]]
  PROVE  /\ call' \in [Calls -> CallType]
         /\ Moves(c, IF call[c].tok = NoToken THEN "answer" ELSE "revokeOld")
         /\ call'[c].new = new
<1> DEFINE p == IF call[c].tok = NoToken THEN "answer" ELSE "revokeOld"
           r == [call[c] EXCEPT !.new = new, !.pc = p]
<1>1. call[c] \in CallType
  BY DEF TypeOK
<1>2. p \in Steps
  BY DEF Steps
<1>3. r \in CallType
  BY <1>1, <1>2, CallFields
<1>4. call' = [call EXCEPT ![c] = r]
  BY Zenon
<1>5. call'[c] = r
  BY <1>4 DEF TypeOK
<1>6. r.new = new /\ r.pc = p /\ r.op = call[c].op /\ r.dev = call[c].dev /\ r.tok = call[c].tok
  BY <1>1 DEF CallType
<1> HIDE DEF r, p
<1>7. \A k \in Calls \ {c} : call'[k] = call[k]
  BY <1>4 DEF TypeOK
<1> QED
  BY <1>1, <1>3, <1>4, <1>5, <1>6, <1>7 DEF TypeOK, Moves, p

\* Writing the password moves c on and marks as old those about to issue.
LEMMA ResetMoves ==
  ASSUME TypeOK, NEW c \in Calls, ResetWrite(c)
  PROVE  /\ call' \in [Calls -> CallType]
         /\ call'[c].pc = "revokeAll" /\ call'[c].old = call[c].old
         /\ \A k \in Calls :
              /\ call'[k].op = call[k].op /\ call'[k].dev = call[k].dev
              /\ call'[k].tok = call[k].tok /\ call'[k].new = call[k].new
              /\ call'[k].late = call[k].late
              /\ k # c => call'[k].pc = call[k].pc
              /\ k # c /\ call[k].pc # "issue" => call'[k] = call[k]
<1> DEFINE after(k) == IF k = c THEN [call[k] EXCEPT !.pc = "revokeAll"]
                       ELSE IF call[k].pc = "issue" THEN [call[k] EXCEPT !.old = TRUE]
                       ELSE call[k]
<1>1. call' = [k \in Calls |-> after(k)]
  BY DEF ResetWrite, AfterReset
<1>2. ASSUME NEW k \in Calls
      PROVE  /\ after(k) \in CallType
             /\ after(k).op = call[k].op /\ after(k).dev = call[k].dev
             /\ after(k).tok = call[k].tok /\ after(k).new = call[k].new
             /\ after(k).late = call[k].late
             /\ k = c => after(k).pc = "revokeAll" /\ after(k).old = call[k].old
             /\ k # c => after(k).pc = call[k].pc
             /\ k # c /\ call[k].pc # "issue" => after(k) = call[k]
  <2>1. call[k] \in CallType
    BY DEF TypeOK
  <2>2. [call[k] EXCEPT !.pc = "revokeAll"] \in CallType
    BY <2>1, CallFields DEF Steps
  <2>3. [call[k] EXCEPT !.old = TRUE] \in CallType
    BY <2>1, CallFields
  <2>4. CASE k = c
    <3>1. after(k) = [call[k] EXCEPT !.pc = "revokeAll"]
      BY <2>4
    <3> HIDE DEF after
    <3> QED
      BY <2>1, <2>2, <2>4, <3>1 DEF CallType
  <2>5. CASE k # c /\ call[k].pc = "issue"
    <3>1. after(k) = [call[k] EXCEPT !.old = TRUE]
      BY <2>5
    <3> HIDE DEF after
    <3> QED
      BY <2>1, <2>3, <2>5, <3>1 DEF CallType
  <2>6. CASE k # c /\ call[k].pc # "issue"
    <3>1. after(k) = call[k]
      BY <2>6
    <3> HIDE DEF after
    <3> QED
      BY <2>1, <2>6, <3>1
  <2> QED
    BY <2>4, <2>5, <2>6
<1> HIDE DEF after
<1> QED
  BY <1>1, <1>2

\* What the sweep of the live sessions does to a request.
LEMMA SweepMoves ==
  ASSUME TypeOK, NEW c \in Calls, RevokeEverySession(c)
  PROVE  /\ call' \in [Calls -> CallType]
         /\ call'[c] = NoCall
         /\ \A k \in Calls \ {c} :
              /\ call'[k].op = call[k].op /\ call'[k].pc = call[k].pc
              /\ call'[k].dev = call[k].dev /\ call'[k].tok = call[k].tok
              /\ call'[k].new = call[k].new
              /\ call[k].pc = "issue" => call'[k].late
              /\ call[k].pc # "issue" => call'[k] = call[k]
<1> DEFINE cs == [call EXCEPT ![c] = NoCall]
<1>1. cs \in [Calls -> CallType]
  BY NoCallFields DEF TypeOK
<1>2. call' = Overtaken(cs)
  BY DEF RevokeEverySession
<1>3. cs[c] = NoCall /\ \A k \in Calls \ {c} : cs[k] = call[k]
  BY DEF TypeOK
<1> HIDE DEF cs
<1> QED
  BY <1>1, <1>2, <1>3, OvertakenFields, NoCallFields

-----------------------------------------------------------------------------
(* The step of each kind, for the types.                                   *)

LEMMA InitTyped == Init => Typed
<1> SUFFICES ASSUME Init PROVE Typed
  OBVIOUS
<1>1. 0 \in 0..MaxRequests /\ 0 \in 0..MaxFaults
  BY SessionsAssumption
<1>2. TypeOK
  BY <1>1, NoCallFields DEF Init, TypeOK, Statuses, RowStates
<1>3. CallInv
  BY DEF Init, CallInv
<1> QED
  BY <1>2, <1>3 DEF Typed

\* The requests that only move on.
LEMMA TypedArrival ==
  ASSUME Typed, NEW c \in Calls, NEW d \in Devices, NEW op, NEW step, NEW tok,
         Arrival(c, d, op, step, tok)
  PROVE  Typed'
<1> USE SessionsAssumption
<1>1. op \in Ops /\ step \in Steps /\ tok \in Tokens \cup {NoToken}
  BY DEF Arrival, Typed, TypeOK
<1>2. /\ call' \in [Calls -> CallType]
      /\ call'[c] = Served(d, op, step, tok)
      /\ \A k \in Calls \ {c} : call'[k] = call[k]
  BY ArrivalMoves DEF Typed
<1>3. CallInv'
  <2> DEFINE r == Served(d, op, step, tok)
  <2>3. r.dev = d /\ r.pc = step /\ r.op = op /\ r.tok = tok /\ r.new = NoToken
        /\ r.old = FALSE /\ r.late = FALSE
    BY DEF Served, NoCall
  <2>1. /\ call'[c].dev = d /\ call'[c].pc = step /\ call'[c].op = op
        /\ call'[c].tok = tok /\ call'[c].new = NoToken
        /\ call'[c].old = FALSE /\ call'[c].late = FALSE
    BY <1>2, <2>3, Zenon
  <2>2. /\ step # "idle" /\ step # "revokeOld"
        /\ tok # NoToken => op \in {"refresh", "logout"}
        /\ op = "refresh" => tok # NoToken
        /\ step = "issue" => op = "login"
    BY DEF Arrival
  <2> QED
    BY <1>2, <2>1, <2>2 DEF CallInv, Typed
<1>4. TypeOK'
  BY <1>2 DEF Arrival, Serve, Sent, Counted, Typed, TypeOK, user, lines, ends, Live
<1> QED
  BY <1>3, <1>4 DEF Typed

\* A row that is rewritten and the live sessions among the rows that stay.
LEMMA RowTyped ==
  ASSUME TypeOK, NEW t \in Tokens, NEW s \in RowStates, row' = [row EXCEPT ![t] = s]
  PROVE  /\ row' \in [Tokens -> RowStates]
         /\ s # "live" => Live' = Live \ {t}
         /\ s = "live" => Live' = Live \cup {t}
BY DEF TypeOK, Live

LEMMA SweepTyped ==
  ASSUME TypeOK, RevokeAll
  PROVE  /\ row' \in [Tokens -> RowStates]
         /\ Live' = {} /\ oldPassword' = {} /\ escaped' = {}
         /\ swept' \in SUBSET Tokens
<1>1. Live \subseteq Unrevoked
  BY DEF Live, Unrevoked
<1> QED
  BY <1>1 DEF TypeOK, RevokeAll, Unrevoked, Live, RowStates

LEMMA TypedStep ==
  ASSUME Typed, [Next]_vars
  PROVE  Typed'
<1> USE SessionsAssumption DEF Typed
<1>1. ASSUME NEW c \in Calls, NEW d \in Devices, Arrives(c, d)
      PROVE  Typed'
  BY <1>1, Arrivals, TypedArrival
<1>2. ASSUME NEW c \in Calls, RegisterFails(c) \/ RefreshRefused(c)
      PROVE  Typed'
  <2>1. End(c) /\ Reads
    BY <1>2 DEF RegisterFails, RefreshRefused
  <2> QED
    BY <2>1, EndMoves DEF Reads, TypeOK, CallInv, user, lines, ends, Live
<1>3. ASSUME NEW c \in Calls, Fail(c)
      PROVE  Typed'
  <2>1. End(c)
    BY <1>3 DEF Fail
  <2> QED
    BY <1>3, <2>1, EndMoves DEF Fail, TypeOK, CallInv, user, lines, ends, Live, At
<1>4. ASSUME NEW c \in Calls, RegisterCreate(c)
      PROVE  Typed'
  <2>1. Go(c, "issue") /\ call[c].op = "register" /\ call[c].pc = "write"
    BY <1>4 DEF RegisterCreate, At
  <2> QED
    BY <1>4, <2>1, GoMoves, NoCallFields
    DEF RegisterCreate, TypeOK, CallInv, user, lines, ends, Live, Moves, Statuses, Steps
<1>5. ASSUME NEW c \in Calls, RefreshRead(c)
      PROVE  Typed'
  <2>1. call[c].op = "refresh" /\ call[c].pc = "read" /\ Reads
    BY <1>5 DEF RefreshRead, At
  <2>2. /\ call' \in [Calls -> CallType] /\ Moves(c, "issue")
        /\ call'[c].new = call[c].new
    BY <1>5, RefreshReadMoves
  <2>3. TypeOK'
    BY <2>1, <2>2 DEF Reads, TypeOK, user, lines, ends, Live
  <2>4. CallInv'
    BY <2>1, <2>2, NoCallFields DEF CallInv, Moves
  <2> QED
    BY <2>3, <2>4
<1>6. ASSUME NEW c \in Calls, Issue(c)
      PROVE  Typed'
  <2>1. PICK new \in Tokens :
           /\ call[c].pc = "issue" /\ Fresh(new)
           /\ row' = [row EXCEPT ![new] = "live"]
           /\ oldPassword' = Inherit(oldPassword, new, call[c].old)
           /\ escaped' = Inherit(escaped, new, call[c].late)
           /\ spent' = spent \ {new}
           /\ swept' = swept \ {new}
           /\ call' = [call EXCEPT ![c] = [@ EXCEPT !.new = new,
                 !.pc = IF call[c].tok = NoToken THEN "answer" ELSE "revokeOld"]]
           /\ UNCHANGED <<user, jar, staff, sent, faults, hasty, torn>>
    BY <1>6 DEF Issue
  <2>2. /\ call' \in [Calls -> CallType]
        /\ Moves(c, IF call[c].tok = NoToken THEN "answer" ELSE "revokeOld")
        /\ call'[c].new = new
    BY <2>1, IssueMoves
  <2>3. row' \in [Tokens -> RowStates] /\ Live' = Live \cup {new}
    BY <2>1, RowTyped DEF RowStates
  <2>4. call[c].tok \in Tokens \cup {NoToken} /\ call[c].tok # new
    BY <2>1 DEF TypeOK, CallType, Fresh
  <2>5. TypeOK'
    BY <2>1, <2>2, <2>3, <2>4 DEF TypeOK, Inherit, user
  <2>6. CallInv'
    BY <2>1, <2>2, <2>4, NoCallFields DEF CallInv, Moves
  <2> QED
    BY <2>5, <2>6
<1>7. ASSUME NEW c \in Calls, RevokeOld(c)
      PROVE  Typed'
  <2>1. /\ call[c].pc = "revokeOld" /\ call[c].op = "refresh"
        /\ call[c].tok \in Tokens /\ call[c].dev \in Devices
    BY <1>7, NoCallFields DEF RevokeOld, At, CallInv, TypeOK, CallType
  <2>2. CASE row[call[c].tok] = "deleted"
    BY <1>7, <2>1, <2>2, EndMoves
    DEF RevokeOld, Rotated, TypeOK, CallInv, user, lines, ends, Live
  <2>3. CASE row[call[c].tok] # "deleted"
    <3>1. /\ Go(c, "answer")
          /\ row' = [row EXCEPT ![call[c].tok] = "revoked"]
          /\ oldPassword' = oldPassword \ {call[c].tok}
          /\ escaped' = escaped \ {call[c].tok}
          /\ UNCHANGED <<sent, user, jar, staff, faults, ends, hasty, torn>>
      BY <1>7, <2>3 DEF RevokeOld, Rotated
    <3>2. row' \in [Tokens -> RowStates] /\ Live' = Live \ {call[c].tok}
      BY <2>1, <3>1, RowTyped DEF RowStates
    <3>3. TypeOK'
      BY <3>1, <3>2, GoMoves DEF TypeOK, user, ends, Steps
    <3>4. CallInv'
      BY <2>1, <3>1, GoMoves, NoCallFields DEF CallInv, Moves, Steps
    <3> QED
      BY <3>3, <3>4
  <2> QED
    BY <2>2, <2>3
<1>8. ASSUME NEW c \in Calls, Answer(c)
      PROVE  Typed'
  <2>1. call[c].new \in Tokens \cup {NoToken}
    BY DEF TypeOK, CallType
  <2>2. /\ jar' = [jar EXCEPT ![call[c].dev] = call[c].new]
        /\ End(c)
        /\ spent' = IF call[c].op = "refresh" THEN spent \cup {call[c].tok} ELSE spent
        /\ UNCHANGED <<user, row, staff, sent, faults, lines, swept, hasty, torn>>
    BY <1>8 DEF Answer, Cookie
  <2>3. call' \in [Calls -> CallType] /\ call'[c] = NoCall /\ \A k \in Calls \ {c} : call'[k] = call[k]
    BY <2>2, EndMoves
  <2>a. spent' \in SUBSET Tokens
    <3>1. call[c].op = "refresh" => call[c].tok \in Tokens
      BY NoCallFields DEF CallInv, TypeOK, CallType
    <3> QED
      BY <2>2, <3>1 DEF TypeOK
  <2>4. TypeOK'
    BY <2>1, <2>2, <2>3, <2>a DEF TypeOK, user, lines, Live
  <2>5. CallInv'
    BY <2>2, <2>3, NoCallFields DEF CallInv
  <2> QED
    BY <2>4, <2>5
<1>9. ASSUME NEW c \in Calls, RefreshReuse(c)
      PROVE  Typed'
  <2>1. Go(c, "revokeAll") /\ call[c].pc = "read"
    BY <1>9 DEF RefreshReuse, At
  <2> QED
    BY <1>9, <2>1, GoMoves, NoCallFields
    DEF RefreshReuse, Reads, TypeOK, CallInv, user, lines, ends, Live, Moves, Steps
<1>10. ASSUME NEW c \in Calls, RevokeEverySession(c)
       PROVE  Typed'
  <2>1. TypeOK'
    BY <1>10, SweepMoves, SweepTyped DEF RevokeEverySession, TypeOK, user, RevokeAll
  <2>2. CallInv'
    BY <1>10, SweepMoves, NoCallFields DEF CallInv
  <2> QED
    BY <2>1, <2>2
<1>11. ASSUME NEW c \in Calls, LogoutRevokes(c)
       PROVE  Typed'
  <2>1. Go(c, "answer") /\ call[c].pc = "read" /\ UNCHANGED <<sent, user, jar, staff, ends, hasty, torn>>
    BY <1>11 DEF LogoutRevokes, At
  <2>2. CallInv'
    BY <2>1, GoMoves, NoCallFields DEF CallInv, Moves, Steps
  <2>3. call' \in [Calls -> CallType]
    BY <2>1, GoMoves DEF Steps
  <2>4. CASE /\ call[c].tok \in Unrevoked /\ row' = [row EXCEPT ![call[c].tok] = "revoked"]
             /\ oldPassword' = oldPassword \ {call[c].tok}
             /\ escaped' = escaped \ {call[c].tok}
             /\ UNCHANGED faults
    <3>1. row' \in [Tokens -> RowStates] /\ Live' = Live \ {call[c].tok}
      BY <2>4, RowTyped DEF RowStates, Unrevoked
    <3> QED
      BY <2>1, <2>2, <2>3, <2>4, <3>1 DEF TypeOK, user, ends
  <2>5. CASE UNCHANGED <<row, lines>> /\ UNCHANGED faults
    BY <2>1, <2>2, <2>3, <2>5 DEF TypeOK, user, ends, lines, Live
  <2>7. CASE UNCHANGED <<row, lines>> /\ faults < MaxFaults /\ faults' = faults + 1
    BY <2>1, <2>2, <2>3, <2>7 DEF TypeOK, user, ends, lines, Live
  <2>6. \/ /\ call[c].tok \in Unrevoked /\ row' = [row EXCEPT ![call[c].tok] = "revoked"]
           /\ oldPassword' = oldPassword \ {call[c].tok}
           /\ escaped' = escaped \ {call[c].tok}
           /\ UNCHANGED faults
        \/ UNCHANGED <<row, lines>> /\ UNCHANGED faults
        \/ UNCHANGED <<row, lines>> /\ faults < MaxFaults /\ faults' = faults + 1
    BY <1>11 DEF LogoutRevokes
  <2> QED
    BY <2>4, <2>5, <2>6, <2>7, Zenon
<1>12. ASSUME NEW c \in Calls, ResetWrite(c)
       PROVE  Typed'
  <2>1. TypeOK'
    BY <1>12, ResetMoves DEF ResetWrite, TypeOK, Live, ends
  <2>2. call[c].op = "reset" /\ call[c].pc = "write"
    BY <1>12 DEF ResetWrite, At
  <2>3. CallInv'
    BY <1>12, <2>2, ResetMoves, NoCallFields DEF CallInv
  <2> QED
    BY <2>1, <2>3
<1>13. ASSUME NEW c \in Calls, VerifyWrite(c)
       PROVE  Typed'
  BY <1>13, EndMoves, ZenonT(30)
  DEF VerifyWrite, Verified, Statuses, TypeOK, CallInv, user, lines, ends, Live
<1>14. CASE AskReset \/ Freeze \/ FreezeFails \/ Unfreeze \/ LinkExpires \/ UNCHANGED vars
  <2>1. UNCHANGED <<row, jar, call, lines, ends, hasty>>
    BY <1>14 DEF AskReset, Freeze, FreezeFails, Unfreeze, LinkExpires, vars, user
  <2>2. status' \in Statuses /\ verifying' \in BOOLEAN /\ reset' \in BOOLEAN
        /\ staff' \in {"idle", "revoke"} /\ torn' \in BOOLEAN
    BY <1>14 DEF AskReset, Freeze, FreezeFails, Unfreeze, LinkExpires, vars, user, TypeOK, Statuses
  <2>3. sent' \in 0..MaxRequests /\ faults' \in 0..MaxFaults
    BY <1>14 DEF AskReset, Freeze, FreezeFails, Unfreeze, LinkExpires, Counted, vars, TypeOK
  <2>4. TypeOK'
    BY <2>1, <2>2, <2>3 DEF TypeOK, lines, ends, Live
  <2>5. CallInv'
    BY <2>1 DEF CallInv
  <2> QED
    BY <2>4, <2>5
<1>15. CASE FreezeRevokes
  <2>1. call \in [Calls -> CallType] /\ call' = Overtaken(call)
    BY <1>15 DEF FreezeRevokes, TypeOK
  <2>2. TypeOK'
    <3>1. call' \in [Calls -> CallType]
      BY <2>1, ZenonT(30) DEF Overtaken, CallType
    <3>2. /\ row' \in [Tokens -> RowStates] /\ Live' = {} /\ oldPassword' = {} /\ escaped' = {}
          /\ swept' \in SUBSET Tokens
      BY <1>15, SweepTyped DEF FreezeRevokes
    <3> QED
      BY <1>15, <3>1, <3>2 DEF FreezeRevokes, TypeOK, user
  <2>3. CallInv'
    BY <2>1, OvertakenFields, NoCallFields DEF CallInv
  <2> QED
    BY <2>2, <2>3
<1>16. ASSUME NEW t \in Tokens, Expire(t)
       PROVE  Typed'
  <2>1. row' \in [Tokens -> RowStates] /\ Live' = Live \ {t}
    BY <1>16, RowTyped DEF Expire, RowStates
  <2> QED
    BY <1>16, <2>1 DEF Expire, TypeOK, CallInv, user, ends
<1>17. CASE PruneSessions
  <2>1. row' \in [Tokens -> RowStates] /\ Live' = Live
    BY <1>17 DEF PruneSessions, TypeOK, RowStates, Live
  <2> QED
    BY <1>17, <2>1 DEF PruneSessions, TypeOK, CallInv, user, lines, ends
<1> QED
  BY <1>1, <1>2, <1>3, <1>4, <1>5, <1>6, <1>7, <1>8, <1>9, <1>10, <1>11, <1>12, <1>13,
     <1>14, <1>15, <1>16, <1>17 DEF Next, CallStep, StaffStep, TimeStep

\* Every variable keeps its type: the account, the sessions, the cookies, the requests
\* and the history, whatever is in flight or fails.
THEOREM TypeCorrect == Spec => []TypeOK
<1>1. Spec => []Typed
  BY InitTyped, TypedStep, PTL DEF Spec
<1> QED
  BY <1>1, PTL DEF Typed

-----------------------------------------------------------------------------
(* Revocations and the requests they overtake.                             *)

\* While the account is frozen and swept, whoever is about to issue is late.
FrozenInv ==
  (status = "FROZEN" /\ staff = "idle" /\ ~torn) =>
    /\ Live \subseteq escaped
    /\ \A c \in Calls : call[c].pc = "issue" => call[c].late

\* No reset has its sweep before it.
Swept == \A c \in Calls : ~At(c, "reset", "revokeAll")

\* Then whoever is about to issue on an old password is late.
PasswordInv ==
  (~torn /\ Swept) =>
    /\ oldPassword \subseteq escaped
    /\ \A c \in Calls : call[c].pc = "issue" /\ call[c].old => call[c].late

\* The new session is live, old if its request was, and escaped if it was late.
LEMMA IssueLines ==
  ASSUME Typed, NEW c \in Calls, Issue(c)
  PROVE  \E new \in Tokens :
           /\ Live' = Live \cup {new}
           /\ (oldPassword' = oldPassword \cup {new} /\ call[c].old)
              \/ (oldPassword' = oldPassword \ {new} /\ ~call[c].old)
           /\ (escaped' = escaped \cup {new} /\ call[c].late)
              \/ (escaped' = escaped \ {new} /\ ~call[c].late)
           /\ new \notin oldPassword
           /\ call[c].pc = "issue" /\ call'[c].pc \in {"answer", "revokeOld"}
           /\ call'[c].op = call[c].op
           /\ \A k \in Calls \ {c} : call'[k] = call[k]
           /\ UNCHANGED <<status, staff, torn>>
<1>1. PICK new \in Tokens :
         /\ call[c].pc = "issue" /\ Fresh(new)
         /\ row' = [row EXCEPT ![new] = "live"]
         /\ oldPassword' = Inherit(oldPassword, new, call[c].old)
         /\ escaped' = Inherit(escaped, new, call[c].late)
         /\ call' = [call EXCEPT ![c] = [@ EXCEPT !.new = new,
               !.pc = IF call[c].tok = NoToken THEN "answer" ELSE "revokeOld"]]
         /\ UNCHANGED <<user, staff, torn>>
  BY DEF Issue
<1>2. /\ Moves(c, IF call[c].tok = NoToken THEN "answer" ELSE "revokeOld")
  BY <1>1, IssueMoves DEF Typed
<1>3. Live' = Live \cup {new}
  BY <1>1, RowTyped DEF Typed, RowStates
<1>4. new \notin oldPassword
  BY <1>1 DEF Typed, TypeOK, Fresh, Live
<1>5. /\ (oldPassword' = oldPassword \cup {new} /\ call[c].old)
         \/ (oldPassword' = oldPassword \ {new} /\ ~call[c].old)
      /\ (escaped' = escaped \cup {new} /\ call[c].late)
         \/ (escaped' = escaped \ {new} /\ ~call[c].late)
  BY <1>1 DEF Inherit
<1> QED
  BY <1>1, <1>2, <1>3, <1>4, <1>5 DEF Moves, user

\* Sessions that end leave all three sets together.
Shrinks == \E gone \in SUBSET Tokens : /\ Live' = Live \ gone
                                       /\ oldPassword' = oldPassword \ gone
                                       /\ escaped' = escaped \ gone

LEMMA LinesStay ==
  ASSUME UNCHANGED row, UNCHANGED lines
  PROVE  Shrinks
<1>1. /\ {} \in SUBSET Tokens
      /\ Live' = Live \ {} /\ oldPassword' = oldPassword \ {} /\ escaped' = escaped \ {}
  BY DEF lines, Live
<1> QED
  BY <1>1 DEF Shrinks

LEMMA OneEnds ==
  ASSUME TypeOK, NEW t \in Tokens, NEW st \in RowStates \ {"live"},
         row' = [row EXCEPT ![t] = st],
         oldPassword' = oldPassword \ {t}, escaped' = escaped \ {t}
  PROVE  Shrinks
<1>1. Live' = Live \ {t}
  BY RowTyped
<1> QED
  BY <1>1 DEF Shrinks

\* Who may issue after the step could before, or has just read the account: it was not
\* frozen, and what is read of the old session is passed on.
NewIssuersRead ==
  \A c \in Calls : call'[c].pc = "issue" =>
    \/ call'[c] = call[c]
    \/ /\ status # "FROZEN"
       /\ call'[c].old => call[c].tok \in oldPassword
       /\ call[c].tok \in escaped => call'[c].late \/ ~call'[c].old

\* The steps that neither issue, sweep, freeze nor write a password.
Calm ==
  /\ Shrinks
  /\ status' = status \/ status' # "FROZEN"
  /\ staff' = staff
  /\ torn => torn'
  /\ ~torn' /\ Swept' => Swept
  /\ NewIssuersRead

LEMMA CalmStep ==
  ASSUME Typed, [Next]_vars
  PROVE  \/ Calm
         \/ \E c \in Calls : Issue(c) \/ RevokeEverySession(c) \/ ResetWrite(c)
         \/ Freeze \/ FreezeRevokes \/ FreezeFails
<1> USE DEF Typed
<1>1. ASSUME NEW c \in Calls, NEW d \in Devices, Arrives(c, d)
      PROVE  Calm
  <2>1. PICK op \in Ops, step \in Steps, tok \in {NoToken, jar[d]} :
           Arrival(c, d, op, step, tok)
    BY <1>1, Arrivals
  <2>2. call'[c] = Served(d, op, step, tok) /\ \A k \in Calls \ {c} : call'[k] = call[k]
    BY <2>1, ArrivalMoves
  <2>3. /\ call'[c].pc = step /\ call'[c].op = op /\ call'[c].old = FALSE
    BY <2>2 DEF Served, NoCall
  <2>4. call[c] = NoCall /\ UNCHANGED <<user, row, jar, staff, faults, lines, ends, torn>>
    BY <2>1 DEF Arrival, Serve
  <2>5. NewIssuersRead
    BY <2>1, <2>2, <2>3 DEF Arrival, NewIssuersRead
  <2>6. Swept' => Swept
    BY <2>2, <2>4, NoCallFields DEF Swept, At
  <2> QED
    BY <2>4, <2>5, <2>6, LinesStay DEF Calm, user
<1>2. ASSUME NEW c \in Calls, RegisterFails(c) \/ RefreshRefused(c) \/ Answer(c) \/ VerifyWrite(c)
      PROVE  Calm
  <2>1. /\ End(c) /\ UNCHANGED <<row, staff, lines, torn>>
        /\ status' = status \/ status' # "FROZEN"
        /\ ~At(c, "reset", "revokeAll")
    BY <1>2 DEF RegisterFails, RefreshRefused, Answer, VerifyWrite, Verified, Reads, user, At
  <2>2. NewIssuersRead /\ (Swept' => Swept)
    BY <2>1, EndMoves, NoCallFields DEF NewIssuersRead, Swept, At
  <2> QED
    BY <2>1, <2>2, LinesStay DEF Calm
<1>3. ASSUME NEW c \in Calls, Fail(c)
      PROVE  Calm
  <2>1. /\ End(c) /\ UNCHANGED <<row, user, staff, lines>>
        /\ torn' = (torn \/ At(c, "reset", "revokeAll"))
    BY <1>3 DEF Fail
  <2>2. NewIssuersRead /\ (~torn' /\ Swept' => Swept)
    BY <2>1, EndMoves, NoCallFields DEF NewIssuersRead, Swept, At
  <2> QED
    BY <2>1, <2>2, LinesStay DEF Calm, user
<1>4. ASSUME NEW c \in Calls, RegisterCreate(c)
      PROVE  Calm
  <2>1. /\ Go(c, "issue") /\ UNCHANGED <<row, staff, lines, torn>>
        /\ status' # "FROZEN" /\ status = "none" /\ At(c, "register", "write")
    BY <1>4 DEF RegisterCreate
  <2>2. call[c].old = FALSE /\ call[c] \in CallType
    BY <2>1, NoCallFields DEF CallInv, At, TypeOK, CallType
  <2>3. NewIssuersRead /\ (Swept' => Swept)
    BY <2>1, <2>2, GoMoves DEF NewIssuersRead, Swept, At, Moves, Steps
  <2> QED
    BY <2>1, <2>3, LinesStay DEF Calm
<1>5. ASSUME NEW c \in Calls, RefreshRead(c)
      PROVE  Calm
  <2>1. /\ UNCHANGED <<row, user, staff, lines, torn>> /\ status # "FROZEN"
        /\ At(c, "refresh", "read")
    BY <1>5 DEF RefreshRead, Reads, MayRotate
  <2>2. NewIssuersRead /\ (Swept' => Swept)
    BY <1>5, <2>1, RefreshReadMoves DEF NewIssuersRead, Swept, At, Moves
  <2> QED
    BY <2>1, <2>2, LinesStay DEF Calm, user
<1>6. ASSUME NEW c \in Calls, RevokeOld(c)
      PROVE  Calm
  <2>1. call[c].tok \in Tokens /\ ~At(c, "reset", "revokeAll")
    BY <1>6, NoCallFields DEF RevokeOld, At, CallInv, TypeOK, CallType
  <2>2. UNCHANGED <<user, staff, torn>>
    BY <1>6 DEF RevokeOld
  <2>3. CASE row[call[c].tok] = "deleted"
    <3>1. End(c) /\ UNCHANGED <<row, lines>>
      BY <1>6, <2>3 DEF RevokeOld, Rotated
    <3>2. NewIssuersRead /\ (Swept' => Swept)
      BY <2>1, <3>1, EndMoves, NoCallFields DEF NewIssuersRead, Swept, At
    <3> QED
      BY <2>2, <3>1, <3>2, LinesStay DEF Calm, user
  <2>4. CASE row[call[c].tok] # "deleted"
    <3>1. /\ Go(c, "answer")
          /\ row' = [row EXCEPT ![call[c].tok] = "revoked"]
          /\ oldPassword' = oldPassword \ {call[c].tok}
          /\ escaped' = escaped \ {call[c].tok}
      BY <1>6, <2>4 DEF RevokeOld, Rotated
    <3>2. NewIssuersRead /\ (Swept' => Swept)
      BY <2>1, <3>1, GoMoves DEF NewIssuersRead, Swept, At, Moves, Steps
    <3>3. Shrinks
      BY <2>1, <3>1, OneEnds DEF RowStates
    <3> QED
      BY <2>2, <3>2, <3>3 DEF Calm, user
  <2> QED
    BY <2>3, <2>4
<1>7. ASSUME NEW c \in Calls, RefreshReuse(c)
      PROVE  Calm
  <2>1. /\ Go(c, "revokeAll") /\ UNCHANGED <<row, user, staff, lines, torn>>
        /\ At(c, "refresh", "read")
    BY <1>7 DEF RefreshReuse, Reads
  <2>2. NewIssuersRead /\ (Swept' => Swept)
    BY <2>1, GoMoves DEF NewIssuersRead, Swept, At, Moves, Steps
  <2> QED
    BY <2>1, <2>2, LinesStay DEF Calm, user
<1>8. ASSUME NEW c \in Calls, LogoutRevokes(c)
      PROVE  Calm
  <2>1. Go(c, "answer") /\ At(c, "logout", "read") /\ UNCHANGED <<user, staff, torn>>
    BY <1>8 DEF LogoutRevokes
  <2>2. NewIssuersRead /\ (Swept' => Swept)
    BY <2>1, GoMoves DEF NewIssuersRead, Swept, At, Moves, Steps
  <2>3. Shrinks
    <3>1. CASE UNCHANGED <<row, lines>>
      BY <3>1, LinesStay
    <3>2. CASE ~ UNCHANGED <<row, lines>>
      BY <1>8, <3>2, OneEnds DEF LogoutRevokes, RowStates, Unrevoked
    <3> QED
      BY <3>1, <3>2
  <2> QED
    BY <2>1, <2>2, <2>3 DEF Calm, user
<1>9. CASE AskReset \/ Unfreeze \/ LinkExpires \/ UNCHANGED vars
  <2>1. /\ UNCHANGED <<row, call, staff, lines, torn>>
        /\ status' = status \/ status' # "FROZEN"
    BY <1>9 DEF AskReset, Unfreeze, LinkExpires, vars, user
  <2> QED
    BY <2>1, LinesStay DEF Calm, NewIssuersRead, Swept, At
<1>10. ASSUME NEW t \in Tokens, Expire(t)
       PROVE  Calm
  <2>1. Shrinks
    BY <1>10, OneEnds DEF Expire, RowStates
  <2>2. UNCHANGED <<user, call, staff, torn>>
    BY <1>10 DEF Expire
  <2> QED
    BY <2>1, <2>2 DEF Calm, NewIssuersRead, Swept, At, user
<1>11. CASE PruneSessions
  <2>1. Live' = Live
    BY <1>11 DEF PruneSessions, TypeOK, RowStates, Live
  <2>2. UNCHANGED <<user, call, staff, lines, torn>>
    BY <1>11 DEF PruneSessions
  <2>3. Shrinks
    BY <2>1, <2>2 DEF Shrinks, lines
  <2> QED
    BY <2>2, <2>3 DEF Calm, NewIssuersRead, Swept, At, user
<1> QED
  BY <1>1, <1>2, <1>3, <1>4, <1>5, <1>6, <1>7, <1>8, <1>9, <1>10, <1>11
  DEF Next, CallStep, StaffStep, TimeStep

LEMMA FrozenStep ==
  ASSUME Typed, FrozenInv, [Next]_vars
  PROVE  FrozenInv'
<1>1. CASE Calm
  BY <1>1 DEF Calm, Shrinks, FrozenInv, NewIssuersRead
<1>2. ASSUME NEW c \in Calls, Issue(c)
      PROVE  FrozenInv'
  BY <1>2, IssueLines DEF FrozenInv
<1>3. ASSUME NEW c \in Calls, RevokeEverySession(c)
      PROVE  FrozenInv'
  BY <1>3, SweepMoves, SweepTyped, NoCallFields, ZenonT(30) DEF FrozenInv, RevokeEverySession, Typed
<1>4. ASSUME NEW c \in Calls, ResetWrite(c)
      PROVE  FrozenInv'
  <2>1. UNCHANGED <<status, row, staff, escaped, torn>>
    BY <1>4 DEF ResetWrite
  <2> QED
    BY <1>4, <2>1, ResetMoves DEF FrozenInv, Live, Typed
<1>5. CASE Freeze \/ FreezeFails
  BY <1>5 DEF Freeze, FreezeFails, FrozenInv
<1>6. CASE FreezeRevokes
  <2>1. call \in [Calls -> CallType] /\ call' = Overtaken(call) /\ RevokeAll
    BY <1>6 DEF FreezeRevokes, Typed, TypeOK
  <2> QED
    BY <2>1, OvertakenFields, SweepTyped DEF FrozenInv, Typed
<1> QED
  BY <1>1, <1>2, <1>3, <1>4, <1>5, <1>6, CalmStep

LEMMA PasswordStep ==
  ASSUME Typed, PasswordInv, [Next]_vars
  PROVE  PasswordInv'
<1>1. CASE Calm
  BY <1>1 DEF Calm, Shrinks, PasswordInv, NewIssuersRead
<1>2. ASSUME NEW c \in Calls, Issue(c)
      PROVE  PasswordInv'
  <2>1. Swept' => Swept
    BY <1>2, IssueLines DEF Swept, At
  <2> QED
    BY <1>2, <2>1, IssueLines DEF PasswordInv
<1>3. ASSUME NEW c \in Calls, RevokeEverySession(c)
      PROVE  PasswordInv'
  <2>1. RevokeAll /\ TypeOK /\ UNCHANGED torn
    BY <1>3 DEF RevokeEverySession, Typed
  <2>2. oldPassword' = {}
    BY <2>1, SweepTyped
  <2>3. \A k \in Calls : call'[k].pc = "issue" => call'[k].late
    BY <1>3, <2>1, SweepMoves, NoCallFields
  <2> QED
    BY <2>2, <2>3 DEF PasswordInv
<1>4. ASSUME NEW c \in Calls, ResetWrite(c)
      PROVE  PasswordInv'
  <2>1. call'[c].op = "reset" /\ call'[c].pc = "revokeAll"
    BY <1>4, ResetMoves DEF ResetWrite, At, Typed
  <2> QED
    BY <2>1 DEF PasswordInv, Swept, At
<1>5. CASE Freeze \/ FreezeFails
  BY <1>5 DEF Freeze, FreezeFails, PasswordInv, lines, Swept, At
<1>6. CASE FreezeRevokes
  <2>1. call \in [Calls -> CallType] /\ call' = Overtaken(call) /\ RevokeAll
    BY <1>6 DEF FreezeRevokes, Typed, TypeOK
  <2> QED
    BY <2>1, OvertakenFields, SweepTyped DEF PasswordInv, Typed
<1> QED
  BY <1>1, <1>2, <1>3, <1>4, <1>5, <1>6, CalmStep

\* Nobody who asks after a freeze gets a session: what is live while the account is
\* frozen was issued by requests that had read it before the freeze revoked.
THEOREM FrozenStaysOutCorrect == Spec => []FrozenStaysOut
<1>1. Init => Typed /\ FrozenInv
  BY InitTyped DEF Init, FrozenInv
<1>2. Typed /\ FrozenInv /\ [Next]_vars => Typed' /\ FrozenInv'
  BY TypedStep, FrozenStep
<1>3. FrozenInv => FrozenStaysOut
  BY DEF FrozenInv, FrozenStaysOut
<1> QED
  BY <1>1, <1>2, <1>3, PTL DEF Spec

\* A session that rests on a replaced password descends from one that the revocation
\* after the reset could not see yet.
THEOREM OldPasswordEndsCorrect == Spec => []OldPasswordEnds
<1>1. Init => Typed /\ PasswordInv
  BY InitTyped, NoCallFields DEF Init, PasswordInv
<1>2. Typed /\ PasswordInv /\ [Next]_vars => Typed' /\ PasswordInv'
  BY TypedStep, PasswordStep
<1>3. PasswordInv => OldPasswordEnds
  BY DEF PasswordInv, OldPasswordEnds, Swept
<1> QED
  BY <1>1, <1>2, <1>3, PTL DEF Spec

-----------------------------------------------------------------------------
(* Browsers that send one request at a time.                               *)

\* The browsers that know token t: it is their cookie, or one of their requests
\* carries it or has made it.
Knows(d, t) == jar[d] = t \/ \E c \in InFlight(d) : call[c].tok = t \/ call[c].new = t

\* No two browsers know one token.
OwnedInv == \A t \in Tokens : \A d, e \in Devices : Knows(d, t) /\ Knows(e, t) => d = e

\* The session of t was revoked by its owner, not by a revocation of all.
Ended(t) == t \in Tokens /\ row[t] = "revoked" /\ t \notin swept

\* Such a browser has one request in flight, which carries its cookie; the cookie's
\* session is ended only while the answer that replaces the cookie is on its way, and
\* the token that answer brings is not ended.
Honest(d) ==
  /\ \A c, k \in InFlight(d) : c = k
  /\ \A c \in InFlight(d) : call[c].tok \in {NoToken, jar[d]}
  /\ Ended(jar[d]) => \E c \in InFlight(d) : call[c].pc = "answer"
  /\ \A c \in InFlight(d) : ~Ended(call[c].new)

HonestInv == \A d \in Devices \ hasty : Honest(d)

\* The session of t is over for good, as long as its slot is not used again.
Gone(t) == row[t] \in {"revoked", "deleted"}

\* A rotation that was answered, or is about to be, has ended its old session.
SpentInv ==
  /\ \A t \in spent : Gone(t)
  /\ \A k \in Calls : At(k, "refresh", "answer") => Gone(call[k].tok)

\* No session but the given ones is ended by the step.
EndsOnly(ts) == \A t \in Tokens : Ended(t)' => Ended(t) \/ t \in ts

\* The request keeps what it knows, and an answer stays one.
Keeps(k) == /\ call'[k].dev = call[k].dev /\ call'[k].tok = call[k].tok
            /\ call'[k].new = call[k].new
            /\ call[k].pc = "answer" => call'[k].pc = "answer"

\* The request is over; an answer that is lost makes its browser a hasty one.
Drops(k) == /\ call'[k] = NoCall
            /\ call[k].pc = "answer" => call[k].dev \in hasty'

\* No rotation is answered, none comes about without ending the old session, and no
\* session that is over begins again.
BuysNothing ==
  /\ spent' = spent
  /\ \A t \in Tokens : Gone(t) => Gone(t)'
  /\ \A k \in Calls : At(k, "refresh", "answer")' =>
       \/ At(k, "refresh", "answer") /\ call'[k].tok = call[k].tok
       \/ Gone(call[k].tok)' /\ call'[k].tok = call[k].tok

\* The kinds of steps: those that leave cookies and ends alone, an arrival, a request
\* that ends its own session, an answer, and the issue of a token.
Settles ==
  /\ UNCHANGED jar /\ hasty \subseteq hasty'
  /\ EndsOnly({})
  /\ \A k \in Calls : Keeps(k) \/ Drops(k)
  /\ BuysNothing

ArrivesAt(c, d) ==
  /\ call[c] = NoCall
  /\ call'[c].dev = d /\ call'[c].tok \in {NoToken, jar[d]} /\ call'[c].new = NoToken
  /\ \A k \in Calls \ {c} : call'[k] = call[k]
  /\ hasty' = IF InFlight(d) = {} THEN hasty ELSE hasty \cup {d}
  /\ UNCHANGED <<row, jar, swept>>
  /\ BuysNothing

Retires(c) ==
  /\ call[c].tok # NoToken
  /\ EndsOnly({call[c].tok})
  /\ Keeps(c) /\ call'[c].pc = "answer"
  /\ \A k \in Calls \ {c} : call'[k] = call[k]
  /\ UNCHANGED <<jar, hasty>>
  /\ BuysNothing

\* A token that is not spent or expired stays a token of its row.
LEMMA EndsNothing ==
  ASSUME UNCHANGED <<row, swept>>
  PROVE  EndsOnly({})
BY DEF EndsOnly, Ended

LEMMA AllSame ==
  ASSUME UNCHANGED call
  PROVE  \A k \in Calls : Keeps(k) \/ Drops(k)
BY DEF Keeps

\* A row that leaves the live ones without a revocation, or with one of all.
LEMMA SweepEnds ==
  ASSUME TypeOK, RevokeAll
  PROVE  EndsOnly({}) /\ \A t \in Tokens : Gone(t) => Gone(t)'
<1>1. \A t \in Tokens : row'[t] = IF t \in Unrevoked THEN "revoked" ELSE row[t]
  BY DEF RevokeAll
<1>2. swept' = swept \cup Unrevoked
  BY DEF RevokeAll
<1> QED
  BY <1>1, <1>2 DEF EndsOnly, Ended, Gone, Unrevoked

LEMMA EndSettles ==
  ASSUME Typed, NEW c \in Calls, End(c), UNCHANGED <<row, jar, ends>>,
         hasty \subseteq hasty',
         call[c].pc = "answer" => call[c].dev \in hasty'
  PROVE  Settles
<1>1. call'[c] = NoCall /\ \A k \in Calls \ {c} : call'[k] = call[k]
  BY EndMoves DEF Typed
<1>2. \A k \in Calls : Keeps(k) \/ Drops(k)
  BY <1>1 DEF Keeps, Drops
<1>3. BuysNothing
  BY <1>1, NoCallFields DEF BuysNothing, Gone, At, ends
<1> QED
  BY <1>2, <1>3, EndsNothing DEF Settles, ends

LEMMA GoSettles ==
  ASSUME Typed, NEW c \in Calls, call' \in [Calls -> CallType],
         NEW step, Moves(c, step), call'[c].new = call[c].new,
         call[c].pc # "answer", step # "answer",
         UNCHANGED <<row, jar, ends, hasty>>
  PROVE  Settles
<1>1. \A k \in Calls : Keeps(k) \/ Drops(k)
  BY DEF Keeps, Moves
<1>2. BuysNothing
  BY DEF BuysNothing, Gone, At, ends, Moves
<1> QED
  BY <1>1, <1>2, EndsNothing DEF Settles, ends

LEMMA StepKinds ==
  ASSUME Typed, [Next]_vars
  PROVE  \/ Settles
         \/ \E c \in Calls, d \in Devices : ArrivesAt(c, d)
         \/ \E c \in Calls : Retires(c) \/ Issue(c) \/ Answer(c)
<1> USE DEF Typed
<1>a. faults \in Nat
  BY SessionsAssumption DEF TypeOK
<1>1. ASSUME NEW c \in Calls, NEW d \in Devices, Arrives(c, d)
      PROVE  ArrivesAt(c, d)
  <2>1. PICK op \in Ops, step \in Steps, tok \in {NoToken, jar[d]} :
           Arrival(c, d, op, step, tok)
    BY <1>1, Arrivals
  <2>2. call'[c] = Served(d, op, step, tok) /\ \A k \in Calls \ {c} : call'[k] = call[k]
    BY <2>1, ArrivalMoves
  <2>3. /\ call'[c].dev = d /\ call'[c].tok = tok /\ call'[c].new = NoToken
        /\ call'[c].pc = step /\ step # "answer"
    BY <2>1, <2>2 DEF Served, NoCall, Arrival
  <2>4. call[c] = NoCall /\ UNCHANGED <<user, row, jar, staff, faults, lines, ends, torn>>
        /\ hasty' = IF InFlight(d) = {} THEN hasty ELSE hasty \cup {d}
    BY <2>1 DEF Arrival, Serve, Sent
  <2>5. BuysNothing
    BY <2>2, <2>3, <2>4 DEF BuysNothing, Gone, At, ends
  <2> QED
    BY <2>2, <2>3, <2>4, <2>5 DEF ArrivesAt, ends
<1>2. ASSUME NEW c \in Calls, RegisterFails(c) \/ RefreshRefused(c) \/ VerifyWrite(c)
      PROVE  Settles
  <2>1. /\ End(c) /\ UNCHANGED <<row, jar, faults, ends, hasty>>
        /\ call[c].pc \in {"write", "read"}
    BY <1>2 DEF RegisterFails, RefreshRefused, VerifyWrite, Reads, At
  <2> QED
    BY <1>a, <2>1, EndSettles DEF At
<1>3. ASSUME NEW c \in Calls, Fail(c)
      PROVE  Settles
  <2>1. /\ End(c) /\ UNCHANGED <<row, jar, ends>>
        /\ hasty' = hasty \cup {call[c].dev} /\ faults' = faults + 1
    BY <1>3 DEF Fail
  <2> QED
    BY <1>a, <2>1, EndSettles
<1>4. ASSUME NEW c \in Calls, RegisterCreate(c)
      PROVE  Settles
  <2>1. /\ Go(c, "issue") /\ UNCHANGED <<row, jar, ends, hasty, faults>>
        /\ call[c].pc = "write"
    BY <1>4 DEF RegisterCreate, At
  <2> QED
    BY <2>1, GoMoves, GoSettles DEF Steps
<1>5. ASSUME NEW c \in Calls, RefreshRead(c)
      PROVE  Settles
  <2>1. UNCHANGED <<row, jar, ends, hasty, faults>> /\ call[c].pc = "read"
    BY <1>5 DEF RefreshRead, Reads, At
  <2> QED
    BY <1>5, <2>1, RefreshReadMoves, GoSettles
<1>6. ASSUME NEW c \in Calls, RevokeOld(c)
      PROVE  Settles \/ Retires(c)
  <2>1. /\ call[c].tok \in Tokens /\ call[c].pc = "revokeOld"
        /\ UNCHANGED <<jar, faults, ends>>
    BY <1>6, NoCallFields DEF RevokeOld, At, CallInv, TypeOK, CallType
  <2>2. CASE row[call[c].tok] = "deleted"
    <3>1. End(c) /\ UNCHANGED row /\ hasty' = hasty \cup {call[c].dev}
      BY <1>6, <2>2 DEF RevokeOld, Rotated
    <3> QED
      BY <1>a, <2>1, <2>2, <3>1, EndSettles DEF At
  <2>3. CASE row[call[c].tok] # "deleted"
    <3>1. /\ Go(c, "answer") /\ UNCHANGED hasty
          /\ row' = [row EXCEPT ![call[c].tok] = "revoked"]
      BY <1>6, <2>3 DEF RevokeOld, Rotated
    <3>2. \A t \in Tokens : row'[t] = IF t = call[c].tok THEN "revoked" ELSE row[t]
      BY <3>1 DEF TypeOK
    <3>3. Moves(c, "answer") /\ call'[c].new = call[c].new
      BY <3>1, GoMoves DEF Steps
    <3>4. EndsOnly({call[c].tok})
      BY <2>1, <3>2 DEF EndsOnly, Ended, ends
    <3>5. BuysNothing
      BY <2>1, <3>2, <3>3 DEF BuysNothing, Gone, At, Moves, ends
    <3>6. call[c].tok # NoToken
      BY <2>1, SessionsAssumption
    <3> QED
      BY <2>1, <3>1, <3>3, <3>4, <3>5, <3>6 DEF Retires, Keeps, Moves
  <2> QED
    BY <2>2, <2>3
<1>7. ASSUME NEW c \in Calls, RefreshReuse(c)
      PROVE  Settles
  <2>1. /\ Go(c, "revokeAll") /\ UNCHANGED <<row, jar, ends, hasty, faults>>
        /\ call[c].pc = "read"
    BY <1>7 DEF RefreshReuse, Reads, At
  <2> QED
    BY <2>1, GoMoves, GoSettles DEF Steps
<1>8. ASSUME NEW c \in Calls, RevokeEverySession(c)
      PROVE  Settles
  <2>1. /\ call[c].pc = "revokeAll" /\ RevokeAll /\ UNCHANGED <<jar, faults, spent, hasty>>
    BY <1>8 DEF RevokeEverySession
  <2>2. \A k \in Calls : Keeps(k) \/ Drops(k)
    BY <1>8, <2>1, SweepMoves DEF Keeps, Drops
  <2>3. BuysNothing
    <3>1. call'[c] = NoCall
      BY <1>8, SweepMoves
    <3>2. \A k \in Calls \ {c} : call'[k].op = call[k].op /\ call'[k].pc = call[k].pc
                                 /\ call'[k].tok = call[k].tok
      BY <1>8, SweepMoves
    <3>3. \A k \in Calls : At(k, "refresh", "answer")' =>
             At(k, "refresh", "answer") /\ call'[k].tok = call[k].tok
      BY <3>1, <3>2, NoCallFields DEF At
    <3> QED
      BY <2>1, <3>3, SweepEnds DEF BuysNothing
  <2> QED
    BY <2>1, <2>2, <2>3, SweepEnds DEF Settles
<1>9. ASSUME NEW c \in Calls, LogoutRevokes(c)
      PROVE  Settles \/ Retires(c)
  <2>1. /\ Go(c, "answer") /\ call[c].pc = "read" /\ call[c].op = "logout"
        /\ UNCHANGED <<jar, ends, hasty>> /\ faults' \in {faults, faults + 1}
    BY <1>9 DEF LogoutRevokes, At
  <2>2. Moves(c, "answer") /\ call'[c].new = call[c].new
    BY <2>1, GoMoves DEF Steps
  <2>3. CASE UNCHANGED row
    <3>1. \A k \in Calls : Keeps(k) \/ Drops(k)
      BY <2>2 DEF Keeps, Moves
    <3>2. BuysNothing
      BY <2>1, <2>2, <2>3 DEF BuysNothing, Gone, At, Moves, ends
    <3> QED
      BY <2>1, <2>3, <3>1, <3>2, EndsNothing DEF Settles, ends
  <2>4. CASE row' = [row EXCEPT ![call[c].tok] = "revoked"] /\ call[c].tok \in Unrevoked
    <3>1. \A t \in Tokens : row'[t] = IF t = call[c].tok THEN "revoked" ELSE row[t]
      BY <2>4 DEF TypeOK
    <3>2. EndsOnly({call[c].tok})
      BY <2>1, <3>1 DEF EndsOnly, Ended, ends
    <3>3. BuysNothing
      BY <2>1, <2>2, <3>1 DEF BuysNothing, Gone, At, Moves, ends
    <3>4. call[c].tok # NoToken
      BY <2>4, SessionsAssumption DEF Unrevoked
    <3> QED
      BY <2>1, <2>2, <3>2, <3>3, <3>4 DEF Retires, Keeps, Moves
  <2> QED
    BY <1>9, <2>3, <2>4 DEF LogoutRevokes
<1>10. ASSUME NEW c \in Calls, ResetWrite(c)
       PROVE  Settles
  <2>1. /\ call[c].pc = "write" /\ UNCHANGED <<row, jar, faults, ends, hasty>>
    BY <1>10 DEF ResetWrite, At
  <2>2. \A k \in Calls : Keeps(k) \/ Drops(k)
    BY <1>10, <2>1, ResetMoves DEF Keeps
  <2>3. BuysNothing
    BY <1>10, <2>1, ResetMoves DEF BuysNothing, Gone, At, ends
  <2> QED
    BY <2>1, <2>2, <2>3, EndsNothing DEF Settles, ends
<1>11. CASE AskReset \/ Freeze \/ FreezeFails \/ Unfreeze \/ LinkExpires \/ UNCHANGED vars
  <2>1. UNCHANGED <<row, jar, call, ends, hasty>> /\ faults' \in {faults, faults + 1}
    BY <1>11 DEF AskReset, Freeze, FreezeFails, Unfreeze, LinkExpires, vars, user
  <2>2. BuysNothing
    BY <1>a, <2>1 DEF BuysNothing, Gone, At, ends
  <2> QED
    BY <2>1, <2>2, EndsNothing, AllSame DEF Settles, ends
<1>12. CASE FreezeRevokes
  <2>1. /\ RevokeAll /\ call' = Overtaken(call) /\ call \in [Calls -> CallType]
        /\ UNCHANGED <<jar, faults, spent, hasty>>
    BY <1>12 DEF FreezeRevokes, TypeOK
  <2>2. \A k \in Calls : Keeps(k) \/ Drops(k)
    BY <2>1, OvertakenFields DEF Keeps
  <2>3. BuysNothing
    BY <2>1, OvertakenFields, SweepEnds DEF BuysNothing, Gone, At
  <2> QED
    BY <2>1, <2>2, <2>3, SweepEnds DEF Settles
<1>13. ASSUME NEW t \in Tokens, Expire(t)
       PROVE  Settles
  <2>1. /\ \A u \in Tokens : row'[u] = IF u = t THEN "expired" ELSE row[u]
        /\ row[t] = "live"
        /\ UNCHANGED <<jar, call, faults, ends, hasty>>
    BY <1>13 DEF Expire, TypeOK
  <2>2. BuysNothing
    BY <2>1 DEF BuysNothing, Gone, At, ends
  <2>3. EndsOnly({})
    BY <2>1 DEF EndsOnly, Ended, ends
  <2> QED
    BY <2>1, <2>2, <2>3, AllSame DEF Settles
<1>14. CASE PruneSessions
  <2>1. /\ \A u \in Tokens : row'[u] \in {row[u], "deleted"}
        /\ UNCHANGED <<jar, call, faults, ends, hasty>>
    BY <1>14 DEF PruneSessions
  <2>2. BuysNothing
    BY <2>1 DEF BuysNothing, Gone, At, ends
  <2>3. EndsOnly({})
    BY <2>1 DEF EndsOnly, Ended, ends
  <2> QED
    BY <2>1, <2>2, <2>3, AllSame DEF Settles
<1> QED
  BY <1>1, <1>2, <1>3, <1>4, <1>5, <1>6, <1>7, <1>8, <1>9, <1>10, <1>11, <1>12, <1>13, <1>14
  DEF Next, CallStep, StaffStep, TimeStep

\* What the issue of a token changes for the browsers and the sessions.
LEMMA IssueKnown ==
  ASSUME Typed, NEW c \in Calls, Issue(c)
  PROVE  \E new \in Tokens :
           /\ Fresh(new) /\ call[c].pc = "issue" /\ call[c] # NoCall
           /\ Moves(c, IF call[c].tok = NoToken THEN "answer" ELSE "revokeOld")
           /\ call'[c].new = new
           /\ \A t \in Tokens : row'[t] = IF t = new THEN "live" ELSE row[t]
           /\ spent' = spent \ {new}
           /\ swept' = swept \ {new}
           /\ UNCHANGED <<jar, hasty, faults>>
<1>1. PICK new \in Tokens :
         /\ call[c].pc = "issue" /\ Fresh(new)
         /\ row' = [row EXCEPT ![new] = "live"]
         /\ spent' = spent \ {new}
         /\ swept' = swept \ {new}
         /\ call' = [call EXCEPT ![c] = [@ EXCEPT !.new = new,
               !.pc = IF call[c].tok = NoToken THEN "answer" ELSE "revokeOld"]]
         /\ UNCHANGED <<jar, hasty, faults>>
  BY DEF Issue
<1>2. /\ Moves(c, IF call[c].tok = NoToken THEN "answer" ELSE "revokeOld")
      /\ call'[c].new = new
  BY <1>1, IssueMoves DEF Typed
<1>3. \A t \in Tokens : row'[t] = IF t = new THEN "live" ELSE row[t]
  BY <1>1 DEF Typed, TypeOK
<1>4. call[c] # NoCall
  BY <1>1, NoCallFields
<1> QED
  BY <1>1, <1>2, <1>3, <1>4

\* An answer gives the cookie the token its request made.
LEMMA AnswerKnown ==
  ASSUME Typed, NEW c \in Calls, Answer(c)
  PROVE  /\ call[c].dev \in Devices /\ call[c].pc = "answer"
         /\ call[c].new \in Tokens \cup {NoToken}
         /\ call'[c] = NoCall /\ \A k \in Calls \ {c} : call'[k] = call[k]
         /\ \A d \in Devices : jar'[d] = IF d = call[c].dev THEN call[c].new ELSE jar[d]
         /\ spent' = IF call[c].op = "refresh" THEN spent \cup {call[c].tok} ELSE spent
         /\ UNCHANGED <<row, faults, swept, hasty>>
<1>1. /\ jar' = [jar EXCEPT ![call[c].dev] = call[c].new]
      /\ End(c) /\ call[c].pc = "answer"
      /\ spent' = IF call[c].op = "refresh" THEN spent \cup {call[c].tok} ELSE spent
      /\ UNCHANGED <<row, faults, swept, hasty>>
  BY DEF Answer, Cookie
<1>2. call'[c] = NoCall /\ \A k \in Calls \ {c} : call'[k] = call[k]
  BY <1>1, EndMoves DEF Typed
<1>3. call[c].dev \in Devices
  BY <1>1, NoCallFields DEF Typed, CallInv
<1>4. call[c].new \in Tokens \cup {NoToken}
  BY DEF Typed, TypeOK, CallType
<1> QED
  BY <1>1, <1>2, <1>3, <1>4 DEF Typed, TypeOK

\* Tokens are randomly made and travel only by answers and cookies.
LEMMA OwnedStep ==
  ASSUME Typed, OwnedInv, [Next]_vars
  PROVE  OwnedInv'
<1>0. NoToken \notin Tokens /\ "none" \notin Devices
  BY SessionsAssumption
<1>1. ASSUME \A d \in Devices, t \in Tokens : Knows(d, t)' => Knows(d, t)
      PROVE  OwnedInv'
  BY <1>1, Zenon DEF OwnedInv
<1>2. CASE Settles
  <2>1. \A d \in Devices, t \in Tokens : Knows(d, t)' => Knows(d, t)
    BY <1>0, <1>2, NoCallFields DEF Settles, Keeps, Drops, Knows, InFlight
  <2> QED
    BY <1>1, <2>1
<1>3. ASSUME NEW c \in Calls, NEW d \in Devices, ArrivesAt(c, d)
      PROVE  OwnedInv'
  <2>1. \A e \in Devices, t \in Tokens : Knows(e, t)' => Knows(e, t)
    BY <1>0, <1>3 DEF ArrivesAt, Knows, InFlight
  <2> QED
    BY <1>1, <2>1
<1>4. ASSUME NEW c \in Calls, Retires(c)
      PROVE  OwnedInv'
  <2>1. \A e \in Devices, t \in Tokens : Knows(e, t)' => Knows(e, t)
    BY <1>4 DEF Retires, Keeps, Knows, InFlight
  <2> QED
    BY <1>1, <2>1
<1>5. ASSUME NEW c \in Calls, Answer(c)
      PROVE  OwnedInv'
  <2>1. \A e \in Devices, t \in Tokens : Knows(e, t)' => Knows(e, t)
    BY <1>0, <1>5, AnswerKnown, NoCallFields DEF Knows, InFlight
  <2> QED
    BY <1>1, <2>1
<1>6. ASSUME NEW c \in Calls, Issue(c)
      PROVE  OwnedInv'
  <2>1. PICK new \in Tokens :
           /\ Fresh(new)
           /\ \A k \in Calls \ {c} : call'[k] = call[k]
           /\ call'[c].dev = call[c].dev /\ call'[c].tok = call[c].tok
           /\ call'[c].new = new
           /\ UNCHANGED jar
    BY <1>6, IssueKnown DEF Moves
  <2>2. \A d \in Devices : ~Knows(d, new)
    BY <2>1 DEF Knows, InFlight, Fresh
  <2>3. \A d \in Devices, t \in Tokens :
          Knows(d, t)' => Knows(d, t) \/ (t = new /\ d = call[c].dev)
    BY <2>1 DEF Knows, InFlight
  <2> HIDE DEF Knows
  <2> QED
    BY <2>2, <2>3 DEF OwnedInv
<1> QED
  BY <1>2, <1>3, <1>4, <1>5, <1>6, StepKinds

LEMMA HonestStep ==
  ASSUME Typed, OwnedInv, HonestInv, [Next]_vars
  PROVE  HonestInv'
<1>0. /\ NoToken \notin Tokens /\ "none" \notin Devices
      /\ NoCall.dev = "none" /\ NoCall.new = NoToken /\ NoCall.tok = NoToken
  BY SessionsAssumption, NoCallFields
<1>1. CASE Settles
  <2>1. /\ jar' = jar /\ hasty \subseteq hasty'
        /\ \A t \in Tokens : Ended(t)' => Ended(t)
        /\ \A k \in Calls : Keeps(k) \/ Drops(k)
    BY <1>1 DEF Settles, EndsOnly
  <2>2. \A t : Ended(t)' => t \in Tokens
    BY DEF Ended
  <2> HIDE DEF Ended
  <2>3. SUFFICES ASSUME NEW d \in Devices, d \notin hasty'
        PROVE  Honest(d)'
    BY Zenon DEF HonestInv
  <2>4. d \notin hasty
    BY <2>1, <2>3
  <2>5. \A c \in InFlight(d)' : /\ c \in InFlight(d)
                                /\ call'[c].tok = call[c].tok
                                /\ call'[c].new = call[c].new
    BY <1>0, <2>1, <2>3 DEF InFlight, Keeps, Drops
  <2>6. \A c \in InFlight(d) : call[c].pc = "answer" =>
           c \in InFlight(d)' /\ call'[c].pc = "answer"
    BY <2>1, <2>3 DEF InFlight, Keeps, Drops
  <2>7. \A x : Ended(x)' => Ended(x)
    BY <2>1, <2>2
  <2> QED
    BY <2>1, <2>3, <2>4, <2>5, <2>6, <2>7 DEF HonestInv, Honest
<1>2. ASSUME NEW c \in Calls, NEW d \in Devices, ArrivesAt(c, d)
      PROVE  HonestInv'
  <2>1. /\ call[c] = NoCall
        /\ call'[c].dev = d /\ call'[c].tok \in {NoToken, jar[d]} /\ call'[c].new = NoToken
        /\ \A k \in Calls \ {c} : call'[k] = call[k]
        /\ hasty' = IF InFlight(d) = {} THEN hasty ELSE hasty \cup {d}
        /\ UNCHANGED <<row, jar, swept>>
    BY <1>2 DEF ArrivesAt
  <2>2. \A x : (Ended(x)' <=> Ended(x)) /\ ~Ended(NoToken)
    BY <1>0, <2>1 DEF Ended
  <2> HIDE DEF Ended
  <2>3. SUFFICES ASSUME NEW e \in Devices, e \notin hasty'
        PROVE  Honest(e)'
    BY Zenon DEF HonestInv
  <2>4. e \notin hasty /\ Honest(e)
    BY <2>1, <2>3 DEF HonestInv
  <2>5. CASE e = d
    <3>1. InFlight(d) = {} /\ InFlight(d)' = {c}
      BY <1>0, <2>1, <2>3, <2>5 DEF InFlight
    <3> QED
      BY <2>1, <2>2, <2>4, <2>5, <3>1 DEF Honest
  <2>6. CASE e # d
    <3>1. InFlight(e)' = InFlight(e) /\ \A k \in InFlight(e) : call'[k] = call[k]
      BY <1>0, <2>1, <2>6 DEF InFlight
    <3> QED
      BY <2>1, <2>2, <2>4, <3>1 DEF Honest
  <2> QED
    BY <2>5, <2>6
<1>3. ASSUME NEW c \in Calls, Retires(c)
      PROVE  HonestInv'
  <2>1. /\ call[c].tok # NoToken
        /\ \A t \in Tokens : Ended(t)' => Ended(t) \/ t = call[c].tok
        /\ call'[c].dev = call[c].dev /\ call'[c].tok = call[c].tok
        /\ call'[c].new = call[c].new /\ call'[c].pc = "answer"
        /\ \A k \in Calls \ {c} : call'[k] = call[k]
        /\ UNCHANGED <<jar, hasty>>
    BY <1>3 DEF Retires, EndsOnly, Keeps
  <2>2. \A x : Ended(x)' => x \in Tokens
    BY DEF Ended
  <2> HIDE DEF Ended
  <2>3. call[c].dev \in Devices /\ call[c].new # call[c].tok
    BY <1>0, <2>1 DEF Typed, CallInv
  <2>4. call[c].tok \in Tokens
    BY <2>1 DEF Typed, TypeOK, CallType
  <2>5. SUFFICES ASSUME NEW e \in Devices, e \notin hasty
        PROVE  Honest(e)'
    BY <2>1, Zenon DEF HonestInv
  <2>6. Honest(e)
    BY <2>5 DEF HonestInv
  <2>7. InFlight(e)' = InFlight(e)
        /\ \A k \in InFlight(e) : /\ call'[k].tok = call[k].tok /\ call'[k].new = call[k].new
                                  /\ call[k].pc = "answer" => call'[k].pc = "answer"
    BY <2>1 DEF InFlight
  <2>8. CASE e = call[c].dev
    <3>1. c \in InFlight(e) /\ InFlight(e) = {c} /\ call'[c].pc = "answer"
      BY <2>1, <2>6, <2>8 DEF InFlight, Honest
    <3>2. ~Ended(call[c].new)'
      BY <2>1, <2>2, <2>3, <2>6, <3>1 DEF Honest
    <3> QED
      BY <2>1, <2>6, <2>7, <3>1, <3>2 DEF Honest
  <2>9. CASE e # call[c].dev
    <3>1. Knows(call[c].dev, call[c].tok)
      BY <2>3 DEF Knows, InFlight
    <3>2. ~Knows(e, call[c].tok)
      BY <2>3, <2>4, <2>9, <3>1 DEF OwnedInv
    <3>3. jar[e] # call[c].tok /\ \A k \in InFlight(e) : call[k].new # call[c].tok
      BY <3>2 DEF Knows
    <3> QED
      BY <2>1, <2>2, <2>6, <2>7, <3>3 DEF Honest
  <2> QED
    BY <2>8, <2>9
<1>4. ASSUME NEW c \in Calls, Answer(c)
      PROVE  HonestInv'
  <2>1. /\ call[c].dev \in Devices /\ call[c].pc = "answer"
        /\ call'[c] = NoCall /\ \A k \in Calls \ {c} : call'[k] = call[k]
        /\ \A d \in Devices : jar'[d] = IF d = call[c].dev THEN call[c].new ELSE jar[d]
        /\ UNCHANGED <<row, swept, hasty>>
    BY <1>4, AnswerKnown DEF ends
  <2>2. \A x : Ended(x)' <=> Ended(x)
    BY <2>1 DEF Ended
  <2> HIDE DEF Ended
  <2>3. SUFFICES ASSUME NEW e \in Devices, e \notin hasty
        PROVE  Honest(e)'
    BY <2>1, Zenon DEF HonestInv
  <2>4. Honest(e)
    BY <2>3 DEF HonestInv
  <2>5. CASE e = call[c].dev
    <3>1. c \in InFlight(e) /\ InFlight(e) = {c}
      BY <2>4, <2>5 DEF InFlight, Honest
    <3>2. InFlight(e)' = {}
      BY <1>0, <2>1, <3>1 DEF InFlight
    <3>3. jar'[e] = call[c].new /\ ~Ended(call[c].new)
      BY <2>1, <2>4, <2>5, <3>1 DEF Honest
    <3> QED
      BY <2>2, <3>2, <3>3 DEF Honest
  <2>6. CASE e # call[c].dev
    <3>1. InFlight(e)' = InFlight(e) /\ \A k \in InFlight(e) : call'[k] = call[k]
      BY <1>0, <2>1, <2>6 DEF InFlight
    <3>2. jar'[e] = jar[e]
      BY <2>1, <2>6
    <3> QED
      BY <2>2, <2>4, <3>1, <3>2 DEF Honest
  <2> QED
    BY <2>5, <2>6
<1>5. ASSUME NEW c \in Calls, Issue(c)
      PROVE  HonestInv'
  <2>1. PICK new \in Tokens :
           /\ Fresh(new)
           /\ \A k \in Calls \ {c} : call'[k] = call[k]
           /\ call'[c].dev = call[c].dev /\ call'[c].tok = call[c].tok
           /\ call'[c].new = new
           /\ call[c].pc = "issue"
           /\ \A t \in Tokens : row'[t] = IF t = new THEN "live" ELSE row[t]
           /\ swept' = swept \ {new}
           /\ UNCHANGED <<jar, hasty>>
    BY <1>5, IssueKnown DEF Moves
  <2>2. \A x : Ended(x)' => Ended(x) /\ x # new
    BY <2>1 DEF Ended
  <2> HIDE DEF Ended
  <2>3. SUFFICES ASSUME NEW e \in Devices, e \notin hasty
        PROVE  Honest(e)'
    BY <2>1, Zenon DEF HonestInv
  <2>4. Honest(e)
    BY <2>3 DEF HonestInv
  <2>5. /\ InFlight(e)' = InFlight(e)
        /\ \A k \in InFlight(e) : /\ call'[k].tok = call[k].tok
                                  /\ call'[k].new \in {call[k].new, new}
                                  /\ call[k].pc = "answer" => call'[k] = call[k]
    BY <2>1 DEF InFlight
  <2> QED
    BY <2>1, <2>2, <2>4, <2>5 DEF Honest
<1> QED
  BY <1>1, <1>2, <1>3, <1>4, <1>5, StepKinds

\* What is over stays over, and only what is over is answered.
LEMMA SpentStep ==
  ASSUME Typed, SpentInv, [Next]_vars
  PROVE  SpentInv'
<1>0. spent \in SUBSET Tokens
  BY DEF Typed, TypeOK
<1>1. CASE BuysNothing
  <2>1. \A t \in spent' : Gone(t)'
    BY <1>0, <1>1 DEF BuysNothing, SpentInv
  <2>2. ASSUME NEW k \in Calls, At(k, "refresh", "answer")'
        PROVE  Gone(call[k].tok)' /\ call'[k].tok = call[k].tok
    <3>1. CASE At(k, "refresh", "answer") /\ call'[k].tok = call[k].tok
      <4>1. call[k].tok \in Tokens
        BY <3>1, NoCallFields DEF Typed, CallInv, TypeOK, CallType, At
      <4> QED
        BY <1>1, <3>1, <4>1 DEF BuysNothing, SpentInv
    <3> QED
      BY <1>1, <2>2, <3>1 DEF BuysNothing
  <2>3. \A k \in Calls : At(k, "refresh", "answer")' => Gone(call[k].tok)'
    BY <2>2 DEF Gone
  <2>4. \A k \in Calls : At(k, "refresh", "answer")' => call'[k].tok = call[k].tok
    BY <2>2
  <2> QED
    BY <2>1, <2>3, <2>4 DEF SpentInv, Gone
<1>2. ASSUME NEW c \in Calls, Answer(c)
      PROVE  SpentInv'
  <2>1. /\ call[c].pc = "answer" /\ UNCHANGED row
        /\ call'[c] = NoCall /\ \A k \in Calls \ {c} : call'[k] = call[k]
        /\ spent' = IF call[c].op = "refresh" THEN spent \cup {call[c].tok} ELSE spent
    BY <1>2, AnswerKnown
  <2>2. \A t \in spent' : Gone(t)
    BY <2>1 DEF SpentInv, At
  <2> QED
    BY <2>1, <2>2, NoCallFields DEF SpentInv, At, Gone
<1>3. ASSUME NEW c \in Calls, Issue(c)
      PROVE  SpentInv'
  <2>1. PICK new \in Tokens :
           /\ Fresh(new) /\ call[c].pc = "issue" /\ call[c] # NoCall
           /\ \A k \in Calls \ {c} : call'[k] = call[k]
           /\ call'[c].tok = call[c].tok /\ call'[c].op = call[c].op
           /\ call'[c].pc = IF call[c].tok = NoToken THEN "answer" ELSE "revokeOld"
           /\ \A t \in Tokens : row'[t] = IF t = new THEN "live" ELSE row[t]
           /\ spent' = spent \ {new}
    BY <1>3, IssueKnown DEF Moves
  <2>2. ASSUME NEW k \in Calls, At(k, "refresh", "answer")'
        PROVE  Gone(call[k].tok)'
    <3>1. k # c
      BY <2>1, <2>2, NoCallFields DEF At, Typed, CallInv
    <3>2. At(k, "refresh", "answer") /\ call'[k] = call[k]
      BY <2>1, <2>2, <3>1 DEF At
    <3>3. call[k].tok \in Tokens /\ call[k].tok # new
      BY <2>1, <3>2, NoCallFields DEF Fresh, Typed, CallInv, TypeOK, CallType, At
    <3> QED
      BY <2>1, <3>2, <3>3 DEF SpentInv, Gone
  <2>3. \A t \in spent' : Gone(t)'
    BY <1>0, <2>1 DEF SpentInv, Gone
  <2> QED
    BY <2>2, <2>3 DEF SpentInv, Gone
<1>4. Settles \/ (\E c \in Calls, d \in Devices : ArrivesAt(c, d))
        \/ (\E c \in Calls : Retires(c)) => BuysNothing
  BY DEF Settles, ArrivesAt, Retires
<1> QED
  BY <1>1, <1>2, <1>3, <1>4, StepKinds

\* Only a refresh whose session is live goes on to issue.
LEMMA ReadIsLive ==
  ASSUME Typed, [Next]_vars, NEW c \in Calls,
         At(c, "refresh", "read"), call'[c].pc = "issue"
  PROVE  row[call[c].tok] = "live"
<1> USE DEF Typed
<1>0. call[c].op = "refresh" /\ call[c].pc = "read" /\ call[c] # NoCall /\ NoCall.pc = "idle"
  BY NoCallFields DEF At
<1>1. ASSUME NEW k \in Calls, NEW d \in Devices, Arrives(k, d)
      PROVE  FALSE
  <2>1. call[k] = NoCall /\ \A j \in Calls \ {k} : call'[j] = call[j]
    <3>1. PICK op \in Ops, step \in Steps, tok \in {NoToken, jar[d]} :
             Arrival(k, d, op, step, tok)
      BY <1>1, Arrivals
    <3> QED
      BY <3>1, ArrivalMoves DEF Arrival, Serve
  <2> QED
    BY <1>0, <2>1
<1>2. ASSUME NEW k \in Calls,
             \/ RegisterFails(k) \/ RefreshRefused(k) \/ Answer(k) \/ VerifyWrite(k) \/ Fail(k)
      PROVE  FALSE
  <2>1. End(k)
    BY <1>2 DEF RegisterFails, RefreshRefused, Answer, VerifyWrite, Fail
  <2> QED
    BY <1>0, <2>1, EndMoves
<1>3. ASSUME NEW k \in Calls, RefreshReuse(k) \/ RevokeOld(k) \/ LogoutRevokes(k)
      PROVE  FALSE
  <2>1. End(k) \/ Go(k, "answer") \/ Go(k, "revokeAll")
    BY <1>3 DEF RefreshReuse, RevokeOld, LogoutRevokes
  <2> QED
    BY <1>0, <2>1, EndMoves, GoMoves DEF Moves, Steps
<1>4. ASSUME NEW k \in Calls, RegisterCreate(k)
      PROVE  FALSE
  <2>1. Go(k, "issue") /\ call[k].op = "register"
    BY <1>4 DEF RegisterCreate, At
  <2> QED
    BY <1>0, <2>1, GoMoves DEF Moves, Steps
<1>5. ASSUME NEW k \in Calls, RefreshRead(k)
      PROVE  row[call[c].tok] = "live"
  <2>1. k = c
    BY <1>0, <1>5, RefreshReadMoves DEF Moves
  <2> QED
    BY <1>5, <2>1 DEF RefreshRead, MayRotate
<1>6. ASSUME NEW k \in Calls, Issue(k)
      PROVE  FALSE
  BY <1>0, <1>6, IssueKnown DEF Moves
<1>7. ASSUME NEW k \in Calls, RevokeEverySession(k)
      PROVE  FALSE
  BY <1>0, <1>7, SweepMoves
<1>8. ASSUME NEW k \in Calls, ResetWrite(k)
      PROVE  FALSE
  BY <1>0, <1>8, ResetMoves
<1>9. CASE AskReset \/ Freeze \/ FreezeFails \/ Unfreeze \/ TimeStep \/ UNCHANGED vars
  <2>1. UNCHANGED call
    BY <1>9 DEF AskReset, Freeze, FreezeFails, Unfreeze, TimeStep, Expire, LinkExpires,
                PruneSessions, vars
  <2> QED
    BY <1>0, <2>1
<1>10. CASE FreezeRevokes
  <2>1. call \in [Calls -> CallType] /\ call' = Overtaken(call)
    BY <1>10 DEF FreezeRevokes, TypeOK
  <2> QED
    BY <1>0, <2>1, OvertakenFields
<1> QED
  BY <1>1, <1>2, <1>3, <1>4, <1>5, <1>6, <1>7, <1>8, <1>9, <1>10
  DEF Next, CallStep, StaffStep

\* In the beginning no browser knows a token and nobody is suspected.
LEMMA InitHonest == Init => OwnedInv /\ HonestInv /\ SpentInv
<1> SUFFICES ASSUME Init PROVE OwnedInv /\ HonestInv /\ SpentInv
  OBVIOUS
<1>1. \A d \in Devices : InFlight(d) = {} /\ jar[d] = NoToken
  BY NoCallFields, SessionsAssumption DEF Init, InFlight
<1>2. SpentInv
  BY NoCallFields DEF Init, SpentInv, At
<1> QED
  BY <1>1, <1>2, SessionsAssumption DEF OwnedInv, Knows, HonestInv, Honest, Ended

\* A browser that sends one request at a time and gets its answers meets a revoked
\* session only after a revocation of all: rotation never makes it a thief.
THEOREM HonestIsNoThiefCorrect == Spec => []HonestIsNoThief
<1>1. Init => Typed /\ OwnedInv /\ HonestInv
  BY InitTyped, InitHonest
<1>2. Typed /\ OwnedInv /\ HonestInv /\ [Next]_vars => Typed' /\ OwnedInv' /\ HonestInv'
  BY TypedStep, OwnedStep, HonestStep
<1>3. Typed /\ HonestInv => HonestIsNoThief
  <2> SUFFICES ASSUME Typed, HonestInv, NEW c \in Calls, At(c, "refresh", "read"),
                      call[c].dev \notin hasty, row[call[c].tok] = "revoked",
                      call[c].tok \notin swept
               PROVE  FALSE
    BY DEF HonestIsNoThief
  <2>1. call[c].dev \in Devices /\ call[c].tok # NoToken
    BY NoCallFields DEF At, Typed, CallInv
  <2>2. Ended(call[c].tok)
    BY <2>1 DEF Ended, Typed, TypeOK, CallType
  <2>3. c \in InFlight(call[c].dev)
    BY DEF InFlight
  <2>4. call[c].tok = jar[call[c].dev] /\ \A k \in InFlight(call[c].dev) : c = k
    BY <2>1, <2>3 DEF HonestInv, Honest
  <2>5. call[c].pc = "answer"
    BY <2>1, <2>2, <2>4 DEF HonestInv, Honest
  <2> QED
    BY <2>5 DEF At
<1> QED
  BY <1>1, <1>2, <1>3, PTL DEF Spec

\* A refresh token whose rotation was answered buys no other session, whichever
\* requests overlap, die or are overtaken.
THEOREM TokenBuysOnceCorrect == Spec => TokenBuysOnce
<1>1. Init => Typed /\ SpentInv
  BY InitTyped, InitHonest
<1>2. Typed /\ SpentInv /\ [Next]_vars => Typed' /\ SpentInv'
  BY TypedStep, SpentStep
<1>3. Typed /\ SpentInv /\ [Next]_vars =>
        [\A c \in Calls : (At(c, "refresh", "read") /\ call[c].tok \in spent)
              => call'[c].pc # "issue"]_vars
  BY ReadIsLive DEF SpentInv, Gone
<1> QED
  BY <1>1, <1>2, <1>3, PTL DEF Spec, TokenBuysOnce
=============================================================================
