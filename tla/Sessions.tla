------------------------------ MODULE Sessions ------------------------------
(***************************************************************************)
(* AuthService and its callers around one account: registration, login,    *)
(* rotation of refresh tokens, logout, password reset, e-mail verification,*)
(* the freeze by staff, the pruning job, and the browsers that hold the    *)
(* cookies.  A handler is suspended at each await on the database, and the *)
(* handlers of other requests run in between.                              *)
(***************************************************************************)
EXTENDS Naturals, FiniteSets

CONSTANTS Devices,   \* browsers of the customer, each with one cookie jar
          Tokens,    \* refresh tokens; a session row is found by its token
          Calls,     \* requests the API is serving at one time
          NoToken,
          MaxRequests, \* requests of customer and staff in all
          MaxFaults  \* failures of the database, the network or the process

ASSUME SessionsAssumption == NoToken \notin Tokens /\ "none" \notin Devices /\ MaxRequests \in Nat /\ MaxFaults \in Nat

VARIABLES
  status,     \* users.status, "none" before registration
  verifying,  \* users.verificationToken is outstanding
  reset,      \* users.resetToken is set and within its hour
  row,        \* row[t]: the session with token t
  jar,        \* jar[d]: the refresh cookie of browser d
  call,       \* call[c]: the request that slot c is serving
  staff,      \* setUserStatus, between its two writes
  sent,       \* requests so far
  faults,     \* failures so far
  \* History of the live sessions:
  oldPassword,  \* those that rest on a password that was changed since
  escaped,      \* those whose line was overtaken by a revocation of all
  \* of the tokens:
  spent,        \* those whose rotation was answered
  swept,        \* those a revocation of all ended
  \* and of the outside:
  hasty,        \* browsers that had two requests at once or lost an answer
  torn          \* a reset or a freeze died before it revoked

user  == <<status, verifying, reset>>
lines == <<oldPassword, escaped>>
ends  == <<spent, swept>>
vars  == <<user, row, jar, call, staff, sent, faults, lines, ends, hasty, torn>>

Statuses == {"none", "PENDING_VERIFICATION", "ACTIVE", "FROZEN"}
Ops      == {"register", "login", "refresh", "logout", "logoutAll", "reset", "verify"}
Steps    == {"idle", "read", "write", "issue", "revokeOld", "revokeAll", "answer"}
RowStates == {"none", "live", "expired", "revoked", "deleted"}

\* old and late: what the session it is about to issue will inherit.
CallType == [op: Ops \cup {"none"}, pc: Steps, dev: Devices \cup {"none"},
             tok: Tokens \cup {NoToken}, new: Tokens \cup {NoToken},
             old: BOOLEAN, late: BOOLEAN]
NoCall   == [op |-> "none", pc |-> "idle", dev |-> "none", tok |-> NoToken,
             new |-> NoToken, old |-> FALSE, late |-> FALSE]

Live == {t \in Tokens : row[t] = "live"}

\* A token nobody has seen: randomToken never repeats one, so the slot of a deleted
\* row serves again only when no browser and no request remembers it.
Fresh(t) == /\ row[t] \in {"none", "deleted"}
            /\ \A d \in Devices : jar[d] # t
            /\ \A c \in Calls : call[c].tok # t /\ call[c].new # t

-----------------------------------------------------------------------------
(* Requests *)

InFlight(d) == {c \in Calls : call[c].dev = d}

Counted == sent < MaxRequests /\ sent' = sent + 1

Sent(d) == /\ Counted
           /\ hasty' = IF InFlight(d) = {} THEN hasty ELSE hasty \cup {d}

\* Slot c serves a request of browser d, which carries the cookie tok; what it has
\* read so far took it to the given step.
Serve(c, d, op, step, tok) ==
  /\ call[c] = NoCall
  /\ Sent(d)
  /\ call' = [call EXCEPT ![c] =
        [NoCall EXCEPT !.op = op, !.pc = step, !.dev = d, !.tok = tok]]
  /\ UNCHANGED <<user, row, jar, staff, faults, lines, ends, torn>>

At(c, op, step) == call[c].op = op /\ call[c].pc = step
Go(c, step) == call' = [call EXCEPT ![c] = [@ EXCEPT !.pc = step]]
End(c) == call' = [call EXCEPT ![c] = NoCall]

\* A step that only reads.
Reads == UNCHANGED <<user, row, jar, staff, sent, faults, lines, ends, hasty, torn>>

\* A request dies where it is: the database or the connection fails, or the
\* process restarts.  Only its unfinished part is lost.
Fail(c) ==
  /\ call[c] # NoCall
  /\ faults < MaxFaults
  /\ faults' = faults + 1
  /\ End(c)
  /\ hasty' = hasty \cup {call[c].dev}
  /\ torn' = (torn \/ At(c, "reset", "revokeAll"))
  /\ UNCHANGED <<sent, user, row, jar, staff, lines, ends>>

-----------------------------------------------------------------------------
(* Issuing a session: register, login and refresh *)

\* A request that is refused at its first read, because the address is taken or
\* unknown, the account frozen or the link bad, changes nothing and is left out.
Register(c, d) == status = "none" /\ Serve(c, d, "register", "write", NoToken)

\* The unique e-mail address makes the second of two creations fail.
RegisterFails(c) == At(c, "register", "write") /\ status # "none" /\ End(c) /\ Reads

RegisterCreate(c) ==
  /\ At(c, "register", "write")
  /\ status = "none"
  /\ status' \in {"PENDING_VERIFICATION", "ACTIVE"}
  /\ verifying' = TRUE
  /\ Go(c, "issue")
  /\ UNCHANGED <<reset, row, jar, staff, sent, faults, lines, ends, hasty, torn>>

\* The account, with its password hash and status, is read before the password
\* is verified, which takes a while.
MayLogInFrozen == status # "none"                               \* mutant

MayLogIn == status \notin {"none", "FROZEN"}

Login(c, d) == MayLogIn /\ Serve(c, d, "login", "issue", NoToken)

\* The client sends a refresh by itself when a request was answered 401; the session
\* of the cookie is looked up when the request arrives.
Refresh(c, d) == jar[d] # NoToken /\ Serve(c, d, "refresh", "read", jar[d])

MayRotate(t) == row[t] = "live" /\ status # "FROZEN"

RefreshRefused(c) ==
  /\ At(c, "refresh", "read")
  /\ \/ row[call[c].tok] \in {"none", "deleted", "expired"}
     \/ row[call[c].tok] = "live" /\ ~MayRotate(call[c].tok)
  /\ End(c)
  /\ Reads

RefreshRead(c) ==
  LET t == call[c].tok IN
  /\ At(c, "refresh", "read")
  /\ MayRotate(t)
  /\ call' = [call EXCEPT ![c] =
        [@ EXCEPT !.pc = "issue", !.old = t \in oldPassword, !.late = t \in escaped]]
  /\ Reads

\* Inherit(s, t, b): membership of the new token t in the set s.
Inherit(s, t, b) == IF b THEN s \cup {t} ELSE s \ {t}

Issue(c) ==
  \E new \in Tokens :
  /\ call[c].pc = "issue"
  /\ Fresh(new)
  /\ row' = [row EXCEPT ![new] = "live"]
  /\ oldPassword' = Inherit(oldPassword, new, call[c].old)
  /\ escaped' = Inherit(escaped, new, call[c].late)
  /\ spent' = spent \ {new}
  /\ swept' = swept \ {new}
  /\ call' = [call EXCEPT ![c] = [@ EXCEPT !.new = new,
        !.pc = IF call[c].tok = NoToken THEN "answer" ELSE "revokeOld"]]
  /\ UNCHANGED <<sent, user, jar, staff, faults, hasty, torn>>

RotatedNew(c) == call[c].new                                    \* mutant

\* The session a refresh revokes.
Rotated(c) == call[c].tok

\* The old session is revoked by its id, whatever it is by now; a row that the job
\* has deleted meanwhile makes the request fail and its answer is lost.
RevokeOld(c) ==
  LET old == Rotated(c) IN
  /\ At(c, "refresh", "revokeOld")
  /\ IF row[old] = "deleted"
     THEN /\ End(c)
          /\ hasty' = hasty \cup {call[c].dev}
          /\ UNCHANGED <<row, lines>>
     ELSE /\ Go(c, "answer")
          /\ row' = [row EXCEPT ![old] = "revoked"]
          /\ oldPassword' = oldPassword \ {old}
          /\ escaped' = escaped \ {old}
          /\ UNCHANGED hasty
  /\ UNCHANGED <<sent, user, jar, staff, faults, ends, torn>>

CookieKept(c) == IF call[c].op = "refresh" THEN call[c].tok ELSE call[c].new   \* mutant

\* The answer sets the cookie; a logout's answer clears it.
Cookie(c) == call[c].new

Answer(c) ==
  /\ call[c].pc = "answer"
  /\ jar' = [jar EXCEPT ![call[c].dev] = Cookie(c)]
  /\ spent' = IF call[c].op = "refresh" THEN spent \cup {call[c].tok} ELSE spent
  /\ End(c)
  /\ UNCHANGED <<user, row, staff, sent, faults, lines, swept, hasty, torn>>

-----------------------------------------------------------------------------
(* Ending sessions: reuse, logout, reset and freeze *)

\* A token whose session is revoked is taken for a stolen one.
RefreshReuse(c) ==
  /\ At(c, "refresh", "read")
  /\ row[call[c].tok] = "revoked"
  /\ Go(c, "revokeAll")
  /\ Reads

\* The rows of updateMany: those without a revokedAt.
Unrevoked == {t \in Tokens : row[t] \in {"live", "expired"}}

RevokeAll ==
  /\ row' = [t \in Tokens |-> IF t \in Unrevoked THEN "revoked" ELSE row[t]]
  /\ swept' = swept \cup Unrevoked
  /\ oldPassword' = oldPassword \ Unrevoked
  /\ escaped' = escaped \ Unrevoked

\* Whoever has read and not yet issued is overtaken.
Overtaken(cs) == [c \in Calls |-> IF cs[c].pc = "issue"
                                  THEN [cs[c] EXCEPT !.late = TRUE] ELSE cs[c]]

RevokeEverySession(c) ==
  /\ call[c].pc = "revokeAll"
  /\ RevokeAll
  /\ call' = Overtaken([call EXCEPT ![c] = NoCall])
  /\ UNCHANGED <<sent, user, jar, staff, faults, spent, hasty, torn>>

\* The guard reads the account; the cookies stay.
LogoutAll(c, d) ==
  /\ jar[d] # NoToken /\ status \notin {"none", "FROZEN"}
  /\ Serve(c, d, "logoutAll", "revokeAll", NoToken)

Logout(c, d) == Serve(c, d, "logout", "read", jar[d])

\* A failing update is swallowed: the cookies are cleared all the same.
LogoutRevokes(c) ==
  LET t == call[c].tok IN
  /\ At(c, "logout", "read")
  /\ \/ /\ t \in Unrevoked
        /\ row' = [row EXCEPT ![t] = "revoked"]
        /\ oldPassword' = oldPassword \ {t}
        /\ escaped' = escaped \ {t}
        /\ UNCHANGED faults
     \/ t \notin Unrevoked /\ UNCHANGED <<row, lines, faults>>
     \/ faults < MaxFaults /\ faults' = faults + 1 /\ UNCHANGED <<row, lines>>
  /\ Go(c, "answer")
  /\ UNCHANGED <<sent, user, jar, staff, ends, hasty, torn>>

\* forgot-password: the newest link replaces the one before.
AskReset ==
  /\ Counted
  /\ status # "none"
  /\ reset' = TRUE
  /\ UNCHANGED <<status, verifying, row, jar, call, staff, faults, lines, ends, hasty, torn>>

ResetPassword(c, d) == reset /\ Serve(c, d, "reset", "write", NoToken)

NoRevocation == "answer"                                        \* mutant

AfterReset == "revokeAll"

\* The new password, written by the account's id: every session until now, and
\* every request that is about to issue one, rests on the old one.
ResetWrite(c) ==
  /\ At(c, "reset", "write")
  /\ reset' = FALSE
  /\ oldPassword' = Live
  /\ call' = [k \in Calls |->
        IF k = c THEN [call[k] EXCEPT !.pc = AfterReset]
        ELSE IF call[k].pc = "issue" THEN [call[k] EXCEPT !.old = TRUE]
        ELSE call[k]]
  /\ UNCHANGED <<sent, status, verifying, row, jar, staff, faults, escaped, ends, hasty, torn>>

VerifyEmail(c, d) == verifying /\ Serve(c, d, "verify", "write", NoToken)

Verified == "ACTIVE"

\* The status is written whatever it is by now.
VerifyWrite(c) ==
  /\ At(c, "verify", "write")
  /\ status' = Verified
  /\ verifying' = FALSE
  /\ End(c)
  /\ UNCHANGED <<reset, row, jar, staff, sent, faults, lines, ends, hasty, torn>>

\* setUserStatus: the status first, and for a freeze the sessions after it.
Freeze ==
  /\ Counted
  /\ staff = "idle"
  /\ status # "none"
  /\ status' = "FROZEN"
  /\ staff' = "revoke"
  /\ UNCHANGED <<verifying, reset, row, jar, call, faults, lines, ends, hasty, torn>>

FreezeRevokes ==
  /\ staff = "revoke"
  /\ RevokeAll
  /\ call' = Overtaken(call)
  /\ staff' = "idle"
  /\ UNCHANGED <<sent, user, jar, faults, spent, hasty, torn>>

FreezeFails ==
  /\ staff = "revoke"
  /\ faults < MaxFaults
  /\ faults' = faults + 1
  /\ staff' = "idle"
  /\ torn' = TRUE
  /\ UNCHANGED <<sent, user, row, jar, call, lines, ends, hasty>>

Unfreeze ==
  /\ Counted
  /\ staff = "idle"
  /\ status # "none"
  /\ status' = "ACTIVE"
  /\ UNCHANGED <<verifying, reset, row, jar, call, staff, faults, lines, ends, hasty, torn>>

-----------------------------------------------------------------------------
(* Time *)

\* The thirty days of a session are over.
Expire(t) ==
  /\ row[t] = "live"
  /\ row' = [row EXCEPT ![t] = "expired"]
  /\ oldPassword' = oldPassword \ {t}
  /\ escaped' = escaped \ {t}
  /\ UNCHANGED <<sent, user, jar, call, staff, faults, ends, hasty, torn>>

LinkExpires ==
  /\ reset
  /\ reset' = FALSE
  /\ UNCHANGED <<status, verifying, row, jar, call, staff, sent, faults, lines, ends, hasty, torn>>

\* The hourly job deletes the expired sessions and those revoked more than a week
\* ago, which any revoked one may be.
PruneSessions ==
  \E weekOld \in SUBSET {t \in Tokens : row[t] = "revoked"} :
    LET gone == weekOld \cup {t \in Tokens : row[t] = "expired"} IN
    /\ gone # {}
    /\ row' = [t \in Tokens |-> IF t \in gone THEN "deleted" ELSE row[t]]
    /\ UNCHANGED <<user, jar, call, staff, sent, faults, lines, ends, hasty, torn>>

-----------------------------------------------------------------------------
Init ==
  /\ status = "none" /\ verifying = FALSE /\ reset = FALSE
  /\ row = [t \in Tokens |-> "none"]
  /\ jar = [d \in Devices |-> NoToken]
  /\ call = [c \in Calls |-> NoCall]
  /\ staff = "idle"
  /\ sent = 0 /\ faults = 0
  /\ oldPassword = {} /\ escaped = {} /\ spent = {} /\ swept = {}
  /\ hasty = {} /\ torn = FALSE

Arrives(c, d) ==
  \/ Register(c, d) \/ Login(c, d) \/ Refresh(c, d) \/ Logout(c, d)
  \/ LogoutAll(c, d) \/ ResetPassword(c, d) \/ VerifyEmail(c, d)

CallStep(c) ==
  \/ RegisterFails(c) \/ RegisterCreate(c) \/ RefreshRefused(c) \/ RefreshRead(c)
  \/ Issue(c) \/ RevokeOld(c) \/ Answer(c) \/ RefreshReuse(c) \/ RevokeEverySession(c)
  \/ LogoutRevokes(c) \/ ResetWrite(c) \/ VerifyWrite(c)

StaffStep == Freeze \/ FreezeRevokes \/ FreezeFails \/ Unfreeze

TimeStep == (\E t \in Tokens : Expire(t)) \/ LinkExpires \/ PruneSessions

Next ==
  \/ \E c \in Calls, d \in Devices : Arrives(c, d)
  \/ \E c \in Calls : CallStep(c) \/ Fail(c)
  \/ AskReset \/ StaffStep \/ TimeStep

Spec == Init /\ [][Next]_vars

-----------------------------------------------------------------------------
TypeOK ==
  /\ status \in Statuses /\ verifying \in BOOLEAN /\ reset \in BOOLEAN
  /\ row \in [Tokens -> RowStates]
  /\ jar \in [Devices -> Tokens \cup {NoToken}]
  /\ call \in [Calls -> CallType]
  /\ staff \in {"idle", "revoke"}
  /\ sent \in 0..MaxRequests /\ faults \in 0..MaxFaults
  /\ oldPassword \in SUBSET Live /\ escaped \in SUBSET Live
  /\ spent \in SUBSET Tokens /\ swept \in SUBSET Tokens
  /\ hasty \in SUBSET Devices /\ torn \in BOOLEAN

\* While an account is frozen and the freeze has revoked its sessions, the only live
\* ones come from requests that had read the account before the revocation: nobody
\* who asks after the freeze gets a session (setUserStatus against login and refresh).
FrozenStaysOut ==
  (status = "FROZEN" /\ staff = "idle" /\ ~torn) => Live \subseteq escaped

\* Once the reset that changed the password has revoked, a live session that rests on
\* the old password descends from one issued by a request the revocation overtook
\* (resetPassword: "a password change invalidates every existing session").
OldPasswordEnds ==
  (~torn /\ \A c \in Calls : ~At(c, "reset", "revokeAll")) => oldPassword \subseteq escaped

\* A browser that sends one request at a time and gets its answers is never taken for
\* a thief because of a rotation: its refresh meets a revoked session only after a
\* revocation of all (refresh, with the cookie the last answer set).
HonestIsNoThief ==
  \A c \in Calls :
    (At(c, "refresh", "read") /\ call[c].dev \notin hasty /\ row[call[c].tok] = "revoked")
      => call[c].tok \in swept

\* A rotation that was answered is final: whoever looks the old token up from then on
\* is not given a session, whatever dies and whoever overlaps.  Not so before the
\* answer, against the claim that a refresh rotates on every use: each request that
\* looks the token up before the first has revoked it issues a session, and a buyer
\* that dies in between leaves it live (refresh issues first and revokes after).
TokenBuysOnce ==
  [][\A c \in Calls : (At(c, "refresh", "read") /\ call[c].tok \in spent)
        => call'[c].pc # "issue"]_vars
=============================================================================
