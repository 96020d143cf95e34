------------------------------- MODULE Sessions -------------------------------
(***************************************************************************)
(* Opaque cookie sessions: backend-infra/src/modules/auth/sessions.ts and  *)
(* session.repository.drizzle.ts behind the session middleware of the      *)
(* public and the admin transport, with browsers that keep one cookie and  *)
(* several requests in flight.                                             *)
(*                                                                         *)
(* A session near its end is rotated: the request that wins the            *)
(* compare-and-set brings the browser a new token, and the token it        *)
(* presented stays good for a short grace.  Every request reads the clock  *)
(* once, before its first statement, and uses that reading in all of them. *)
(***************************************************************************)
EXTENDS Integers, FiniteSets

CONSTANTS Browsers, Slots,      \* a browser has a request per slot
          Users,
          SessionIds, Tokens,   \* random values, never minted twice
          Hashes, HashOf,       \* what the database stores of a token
          None,                 \* no token, session or hash
          Ttl, RenewalWindow, RotationGrace,   \* SessionPolicy
          RoundTrip,            \* bound on the life of a request
          MaxTime, MaxRequests  \* bounds of a behaviour

ASSUME PolicyAssumption ==
    /\ None \notin Users \cup SessionIds \cup Tokens \cup Hashes
    /\ HashOf \in [Tokens -> Hashes]
    /\ \A t, u \in Tokens : HashOf[t] = HashOf[u] => t = u
    /\ {Ttl, RenewalWindow, RotationGrace, RoundTrip, MaxTime, MaxRequests} \subseteq Nat

Requests == Browsers \X Slots
Kinds == {"login", "session", "admin", "logout"}

Row == [user: Users, token: Hashes, previous: Hashes \cup {None},
        graceUntil: Nat, expires: Nat, revoked: BOOLEAN]

\* The grace covers the requests that overlap a rotation, and a session is not
\* rotated again while they last.
ASSUME GraceAssumption ==
    /\ RotationGrace > 2 * RoundTrip
    /\ Ttl > RenewalWindow + 2 * RoundTrip

VARIABLES now,
          active,     \* accounts whose status is active
          sessions,   \* rows of auth_sessions, by id
          cookie,     \* the session cookie of each browser
          requests,   \* the request in each slot
          sent,       \* requests sent so far
          issued,     \* history: session and predecessor of each token minted
          disturbed   \* history: sessions with a statement failed or a new
                      \* token that never reached its browser

vars == <<now, active, sessions, cookie, requests, sent, issued, disturbed>>

Phases == {"idle", "sent", "verify", "create", "find", "rotate", "reread",
           "user", "adminUser", "revoke", "answered"}

\* `token` is the cookie presented, `user` the account a login names, `fresh`
\* the token the answer sets.
Idle == [phase |-> "idle", kind |-> "session", token |-> None, sentAt |-> 0,
         checkedAt |-> 0, user |-> None, session |-> None, fresh |-> None,
         reply |-> "keep"]

NoCookie == [token |-> None, until |-> 0]

Init ==
    /\ now = 0
    /\ active = Users
    /\ sessions = [s \in {} |-> None]
    /\ cookie = [b \in Browsers |-> NoCookie]
    /\ requests = [p \in Requests |-> Idle]
    /\ sent = 0
    /\ issued = [t \in {} |-> None]
    /\ disturbed = {}

-----------------------------------------------------------------------------

Phase(p) == requests[p].phase
Browser(p) == p[1]
Unminted == Tokens \ DOMAIN issued
InFlight == {p \in Requests : Phase(p) # "idle"}

SessionOf(t) == issued[t].session

\* Random values are interchangeable: which one comes next does not matter.
NewToken == CHOOSE t \in Unminted : TRUE
NewSessionId == CHOOSE s \in SessionIds \ DOMAIN sessions : TRUE

\* A new token for session s, following token t or none.
Mint(t, s, after) ==
    issued' = [u \in DOMAIN issued \cup {t} |->
                  IF u = t THEN [session |-> s, after |-> after] ELSE issued[u]]

\* The request goes on to a phase with some of its locals changed.
Goto(p, r) == requests' = [requests EXCEPT ![p] = r]

\* The session middleware refuses a request: 401, and the cookie is expired.
Refuse(p) == Goto(p, [requests[p] EXCEPT !.phase = "answered", !.reply = "expire"])

\* A browser sends its cookie until the cookie's own expiry.  Requests are only
\* sent while there are ids and tokens left to mint (a bound of the model).
Send(p, kind) ==
    /\ Phase(p) = "idle"
    /\ sent < MaxRequests
    /\ Cardinality(Unminted) > Cardinality(InFlight)
    /\ kind = "login" => Cardinality(SessionIds \ DOMAIN sessions) > Cardinality(InFlight)
    /\ kind # "login" => cookie[Browser(p)].until > now
    /\ Goto(p, [Idle EXCEPT !.phase = "sent", !.kind = kind, !.sentAt = now,
                            !.token = IF kind = "login" THEN None
                                      ELSE cookie[Browser(p)].token])
    /\ sent' = sent + 1
    /\ UNCHANGED <<now, active, sessions, cookie, issued, disturbed>>

\* resolve reads the clock before it looks for the session.
Receive(p) ==
    /\ Phase(p) = "sent"
    /\ Goto(p, [requests[p] EXCEPT
                  !.phase = IF requests[p].kind = "login" THEN "verify" ELSE "find",
                  !.checkedAt = now])
    /\ UNCHANGED <<now, active, sessions, cookie, sent, issued, disturbed>>

-----------------------------------------------------------------------------
(* Login                                                                   *)

\* The account's status and password are checked well before the insert.
VerifyPassword(p, u) ==
    /\ Phase(p) = "verify"
    /\ Goto(p, IF u \in active
               THEN [requests[p] EXCEPT !.phase = "create", !.user = u]
               ELSE [requests[p] EXCEPT !.phase = "answered"])
    /\ UNCHANGED <<now, active, sessions, cookie, sent, issued, disturbed>>

CreateSession(p, u) ==
    LET s == NewSessionId
        t == NewToken
    IN  /\ Phase(p) = "create"
        /\ requests[p].user = u
        /\ DOMAIN sessions # SessionIds /\ Unminted # {}
        /\ sessions' = [i \in DOMAIN sessions \cup {s} |->
                          IF i = s
                          THEN [user |-> u, token |-> HashOf[t], previous |-> None,
                                graceUntil |-> 0, expires |-> now + Ttl,
                                revoked |-> FALSE]
                          ELSE sessions[i]]
        /\ Mint(t, s, None)
        /\ Goto(p, [requests[p] EXCEPT !.phase = "answered", !.checkedAt = now,
                                       !.session = s, !.fresh = t, !.reply = "set"])
        /\ UNCHANGED <<now, active, cookie, sent, disturbed>>

-----------------------------------------------------------------------------
(* Session resolution                                                      *)

\* Seeded defect: only the current token resolves.
ResolvesCurrentOnly(row, h, at) ==
    ~row.revoked /\ row.expires > at /\ row.token = h

\* The row answers for hash h at time `at`: current token, or previous one
\* within its grace.
Resolves(row, h, at) ==
    /\ ~row.revoked
    /\ row.expires > at
    /\ row.token = h \/ (row.previous = h /\ row.graceUntil > at)

Found(p) ==
    {s \in DOMAIN sessions :
        Resolves(sessions[s], HashOf[requests[p].token], requests[p].checkedAt)}

FindMissing(p) ==
    /\ Phase(p) = "find"
    /\ Found(p) = {}
    /\ Refuse(p)
    /\ UNCHANGED <<now, active, sessions, cookie, sent, issued, disturbed>>

\* A current token whose session ends within the window is renewed.
Find(p, s) ==
    /\ Phase(p) = "find"
    /\ s \in Found(p)
    /\ Goto(p, [requests[p] EXCEPT
                  !.session = s,
                  !.phase = IF /\ sessions[s].token = HashOf[requests[p].token]
                               /\ sessions[s].expires - requests[p].checkedAt <= RenewalWindow
                            THEN "rotate" ELSE "user"])
    /\ UNCHANGED <<now, active, sessions, cookie, sent, issued, disturbed>>

\* Seeded defects: the update does not compare the token, or the revocation.
MayRotateAnyToken(row, h, at) == ~row.revoked /\ row.expires > at
MayRotateRevoked(row, h, at) == row.token = h /\ row.expires > at

\* WHERE clause of the rotating UPDATE.
MayRotate(row, h, at) == row.token = h /\ ~row.revoked /\ row.expires > at

\* Seeded defect: the browser is not told the new token.
RotatedSilently(p, t) == [requests[p] EXCEPT !.phase = "user"]

\* currentSession returns the new token, and the middleware sets it.
Rotated(p, t) == [requests[p] EXCEPT !.phase = "user", !.fresh = t, !.reply = "set"]

Rotate(p) ==
    LET r == requests[p]
        s == r.session
        t == NewToken
    IN  /\ Phase(p) = "rotate"
        /\ Unminted # {}
        /\ MayRotate(sessions[s], HashOf[r.token], r.checkedAt)
        /\ sessions' = [sessions EXCEPT ![s].token = HashOf[t],
                                        ![s].previous = HashOf[r.token],
                                        ![s].graceUntil = r.checkedAt + RotationGrace,
                                        ![s].expires = r.checkedAt + Ttl]
        /\ Mint(t, s, r.token)
        /\ Goto(p, Rotated(p, t))
        /\ UNCHANGED <<now, active, cookie, sent, disturbed>>

\* Another request rotated first, or the session is over: look again.
RotateLoses(p) ==
    /\ Phase(p) = "rotate"
    /\ ~MayRotate(sessions[requests[p].session], HashOf[requests[p].token],
                  requests[p].checkedAt)
    /\ Goto(p, [requests[p] EXCEPT !.phase = "reread"])
    /\ UNCHANGED <<now, active, sessions, cookie, sent, issued, disturbed>>

\* AlreadyRotated is served under the grace; NotActive is refused.
Reread(p) ==
    LET r == requests[p]
        row == sessions[r.session]
    IN  /\ Phase(p) = "reread"
        /\ IF /\ row.previous = HashOf[r.token]
              /\ Resolves(row, HashOf[r.token], r.checkedAt)
           THEN Goto(p, [r EXCEPT !.phase = "user"])
           ELSE Refuse(p)
        /\ UNCHANGED <<now, active, sessions, cookie, sent, issued, disturbed>>

Served(p) ==
    Goto(p, [requests[p] EXCEPT
               !.phase = IF requests[p].kind = "logout" THEN "revoke" ELSE "answered"])

\* resolveActive; the admin middleware reads the account a second time.
CheckUser(p) ==
    /\ Phase(p) \in {"user", "adminUser"}
    /\ IF sessions[requests[p].session].user \notin active
       THEN Refuse(p)
       ELSE IF requests[p].kind = "admin" /\ Phase(p) = "user"
            THEN Goto(p, [requests[p] EXCEPT !.phase = "adminUser"])
            ELSE Served(p)
    /\ UNCHANGED <<now, active, sessions, cookie, sent, issued, disturbed>>

\* Logout revokes by session id, whichever token the request presented.
Revoke(p) ==
    /\ Phase(p) = "revoke"
    /\ sessions' = [sessions EXCEPT ![requests[p].session].revoked = TRUE]
    /\ Refuse(p)
    /\ UNCHANGED <<now, active, cookie, sent, issued, disturbed>>

-----------------------------------------------------------------------------
(* Answers                                                                 *)

\* Whether the end of this request leaves a session disturbed.
Disturbs(p) == {SessionOf(t) : t \in {requests[p].token, requests[p].fresh} \ {None}}

\* A statement fails.  The middleware refuses the request and expires the
\* cookie whatever the error was; login and logout answer 500 instead.
Fail(p) ==
    /\ Phase(p) \in Phases \ {"idle", "sent", "answered"}
    /\ IF Phase(p) \in {"verify", "create", "revoke"}
       THEN Goto(p, [requests[p] EXCEPT !.phase = "answered"])
       ELSE Refuse(p)
    /\ disturbed' = disturbed \cup Disturbs(p)
    /\ UNCHANGED <<now, active, sessions, cookie, sent, issued>>

\* The public middleware has the session but not the account to show with it:
\* 500, before it sets a new token.
ViewFails(p) ==
    /\ Phase(p) = "user"
    /\ requests[p].kind # "admin"
    /\ sessions[requests[p].session].user \in active
    /\ Goto(p, [requests[p] EXCEPT !.phase = "answered", !.fresh = None,
                                   !.reply = "keep"])
    /\ disturbed' = disturbed \cup Disturbs(p)
    /\ UNCHANGED <<now, active, sessions, cookie, sent, issued>>

\* The browser gives up or the connection drops.
Lose(p) ==
    /\ Phase(p) # "idle"
    /\ Goto(p, Idle)
    /\ disturbed' = IF requests[p].fresh = None THEN disturbed
                    ELSE disturbed \cup Disturbs(p)
    /\ UNCHANGED <<now, active, sessions, cookie, sent, issued>>

\* The answer reaches the browser, in any order among its requests.
Deliver(p) ==
    LET r == requests[p]
    IN  /\ Phase(p) = "answered"
        /\ cookie' = [cookie EXCEPT ![Browser(p)] =
                        CASE r.reply = "keep"   -> @
                          [] r.reply = "set"    -> [token |-> r.fresh,
                                                    until |-> r.checkedAt + Ttl]
                          [] r.reply = "expire" -> NoCookie]
        /\ Goto(p, Idle)
        /\ UNCHANGED <<now, active, sessions, sent, issued, disturbed>>

-----------------------------------------------------------------------------
(* Everything else                                                         *)

\* A password reset revokes every session of the account.
RevokeAll(u) ==
    /\ \E s \in DOMAIN sessions : sessions[s].user = u /\ ~sessions[s].revoked
    /\ sessions' = [s \in DOMAIN sessions |->
                      IF sessions[s].user = u
                      THEN [sessions[s] EXCEPT !.revoked = TRUE] ELSE sessions[s]]
    /\ UNCHANGED <<now, active, cookie, requests, sent, issued, disturbed>>

\* An administrator disables or enables the account; its sessions stay.
SetStatus(u) ==
    /\ active' = IF u \in active THEN active \ {u} ELSE active \cup {u}
    /\ UNCHANGED <<now, sessions, cookie, requests, sent, issued, disturbed>>

\* Time passes, but no request lives longer than a round trip.
Tick ==
    /\ now < MaxTime
    /\ \A p \in InFlight : now < requests[p].sentAt + RoundTrip
    /\ now' = now + 1
    /\ UNCHANGED <<active, sessions, cookie, requests, sent, issued, disturbed>>

Next ==
    \/ \E p \in Requests :
          \/ \E kind \in Kinds : Send(p, kind)
          \/ Receive(p)
          \/ \E u \in Users :
                VerifyPassword(p, u) \/ CreateSession(p, u)
          \/ FindMissing(p)
          \/ \E s \in SessionIds : Find(p, s)
          \/ Rotate(p) \/ RotateLoses(p) \/ Reread(p) \/ CheckUser(p) \/ Revoke(p)
          \/ Fail(p) \/ ViewFails(p) \/ Lose(p) \/ Deliver(p)
    \/ \E u \in Users : RevokeAll(u) \/ SetStatus(u)
    \/ Tick

Spec == Init /\ [][Next]_vars

-----------------------------------------------------------------------------
(* Properties                                                              *)

\* Type invariant: every variable of the model has its shape.
TypeOK ==
    /\ now \in Nat
    /\ active \subseteq Users
    /\ DOMAIN sessions \subseteq SessionIds
    /\ sessions \in [DOMAIN sessions -> Row]
    /\ cookie \in [Browsers -> [token: Tokens \cup {None}, until: Nat]]
    /\ requests \in [Requests ->
          [phase: Phases, kind: Kinds, token: Tokens \cup {None}, sentAt: Nat,
           checkedAt: Nat, user: Users \cup {None}, session: SessionIds \cup {None},
           fresh: Tokens \cup {None}, reply: {"keep", "set", "expire"}]]
    /\ \A p \in Requests : requests[p].reply = "set" => requests[p].fresh # None
    /\ sent \in Nat
    /\ DOMAIN issued \subseteq Tokens
    /\ issued \in [DOMAIN issued ->
          [session: SessionIds, after: Tokens \cup {None}]]
    /\ disturbed \subseteq SessionIds

\* However many requests present a token near the end of its session, one of
\* them rotates it: a token has at most one successor (sessions.test.ts,
\* "rotates once under concurrent requests ...").
RotatesOnce ==
    \A t, u \in DOMAIN issued :
        issued[t].after = issued[u].after /\ issued[t].after # None => t = u

\* Logout and password reset are final, also for a request that found the
\* session before and rotates it after.
RevokedIsFinal ==
    [][\A s \in DOMAIN sessions :
          sessions[s].revoked => sessions'[s] = sessions[s]]_vars

\* A request is refused only because its session was revoked, is over, or has
\* a disabled account: the grace covers every request that overlaps the
\* rotation, as long as it is longer than two round trips.
RefusedOnlyWhenOver ==
    [][\A p \in Requests :
          LET s == SessionOf(requests[p].token)
          IN  requests[p].reply # "expire" /\ requests'[p].reply = "expire" =>
                  \/ s \in disturbed'
                  \/ sessions'[s].revoked
                  \/ sessions[s].expires <= now
                  \/ sessions[s].user \notin active]_vars

\* Answers that arrive in another order never leave the browser with a token
\* that has been replaced: when no new token is on its way, the cookie of a
\* live session is the current one.
HoldsCurrentToken ==
    \A b \in Browsers :
        LET t == cookie[b].token
            s == SessionOf(t)
        IN  /\ t # None
            /\ \A i \in Slots : requests[<<b, i>>].fresh = None
            /\ s \notin disturbed
            /\ ~sessions[s].revoked
            /\ sessions[s].expires > now
            => sessions[s].token = HashOf[t]
=============================================================================
