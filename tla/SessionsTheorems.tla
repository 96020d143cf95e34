--------------------------- MODULE SessionsTheorems ---------------------------
(***************************************************************************)
(* Proofs about Sessions, for any number of browsers, requests, sessions   *)
(* and tokens and for every session policy.                                *)
(*                                                                         *)
(* A token has one successor because the row of a session holds the hash   *)
(* of the one token of that session nothing has followed yet (Latest), and *)
(* only the request that presents that very token may rotate it.           *)
(*                                                                         *)
(* A browser ends up with the current token because the tokens of one      *)
(* session never leave one browser (Apart), a new token is current until   *)
(* it is delivered (FreshInv), and a cookie that was replaced waits for    *)
(* the answer of the very request that replaced it (CookieInv).  A request *)
(* is refused for no other reason than the end of its session because the  *)
(* token it presents was replaced, if at all, about when it was sent       *)
(* (TokenInv), which the grace covers.                                     *)
(***************************************************************************)
EXTENDS Sessions, TLAPS

RequestRecord ==
    [phase: Phases, kind: Kinds, token: Tokens \cup {None}, sentAt: Nat,
     checkedAt: Nat, user: Users \cup {None}, session: SessionIds \cup {None},
     fresh: Tokens \cup {None}, reply: {"keep", "set", "expire"}]

MintRecord == [session: SessionIds, after: Tokens \cup {None}]

\* What a request has read exists.
Sound(r) ==
    /\ r.token \in DOMAIN issued \cup {None}
    /\ r.fresh \in DOMAIN issued \cup {None}
    /\ r.reply = "set" => r.fresh # None
    /\ (r.phase = "sent" /\ r.kind # "login") => r.token # None
    /\ r.phase \in {"find", "rotate", "reread", "user", "adminUser", "revoke"}
          => r.token # None
    /\ r.phase \in {"rotate", "reread", "user", "adminUser", "revoke"}
          => r.session \in DOMAIN sessions

SoundCookie(k) ==
    /\ k.token \in DOMAIN issued \cup {None}
    /\ k.token = None => k.until = 0

\* The row of a session holds its token that has no successor.
Latest(s) ==
    \E t \in DOMAIN issued :
        /\ sessions[s].token = HashOf[t]
        /\ issued[t].session = s
        /\ \A u \in DOMAIN issued : issued[u].after # t

IInv ==
    /\ TypeOK
    /\ RotatesOnce
    /\ \A p \in Requests : Sound(requests[p])
    /\ \A b \in Browsers : SoundCookie(cookie[b])
    /\ \A t \in DOMAIN issued : issued[t].after \in DOMAIN issued \cup {None}
    /\ \A s \in DOMAIN sessions : Latest(s)

-----------------------------------------------------------------------------
(* Steps of one request                                                    *)

\* A row keeps its type when its session is revoked, and a revoked one stays
\* as it is.
LEMMA RevokedRow ==
    ASSUME NEW row \in Row
    PROVE  /\ [row EXCEPT !.revoked = TRUE] \in Row
           /\ [row EXCEPT !.revoked = TRUE].token = row.token
           /\ row.revoked => [row EXCEPT !.revoked = TRUE] = row
BY DEF Row

\* Soundness survives when tokens and sessions are only added.
LEMMA SoundGrows ==
    ASSUME NEW r, Sound(r), DOMAIN issued \subseteq DOMAIN issued',
           DOMAIN sessions \subseteq DOMAIN sessions'
    PROVE  /\ r.token \in DOMAIN issued' \cup {None}
           /\ r.fresh \in DOMAIN issued' \cup {None}
           /\ r.phase \in {"rotate", "reread", "user", "adminUser", "revoke"}
                 => r.session \in DOMAIN sessions'
BY DEF Sound

\* A request goes on to a sound record while everything else only grows.
LEMMA GotoSound ==
    ASSUME IInv, NEW p \in Requests, NEW r \in RequestRecord, Goto(p, r),
           r.token \in DOMAIN issued' \cup {None},
           r.fresh \in DOMAIN issued' \cup {None},
           r.reply = "set" => r.fresh # None,
           (r.phase = "sent" /\ r.kind # "login") => r.token # None,
           r.phase \in {"find", "rotate", "reread", "user", "adminUser", "revoke"}
              => r.token # None,
           r.phase \in {"rotate", "reread", "user", "adminUser", "revoke"}
              => r.session \in DOMAIN sessions',
           DOMAIN issued \subseteq DOMAIN issued',
           DOMAIN sessions \subseteq DOMAIN sessions'
    PROVE  /\ requests' \in [Requests -> RequestRecord]
           /\ \A q \in Requests : requests'[q].reply = "set" => requests'[q].fresh # None
           /\ \A q \in Requests : Sound(requests[q])'
<1>1. requests \in [Requests -> RequestRecord]
  BY DEF IInv, TypeOK, RequestRecord
<1>2. requests' = [requests EXCEPT ![p] = r]
  BY DEF Goto
<1>3. /\ requests' \in [Requests -> RequestRecord]
      /\ requests'[p] = r
      /\ \A q \in Requests \ {p} : requests'[q] = requests[q]
  BY <1>1, <1>2
<1>4. Sound(requests[p])'
  BY <1>3 DEF Sound
<1>5. ASSUME NEW q \in Requests \ {p} PROVE Sound(requests[q])'
  <2>1. Sound(requests[q])
    BY DEF IInv
  <2>2. requests'[q] = requests[q]
    BY <1>3
  <2> QED
    BY <2>1, <2>2 DEF Sound
<1>6. \A q \in Requests : Sound(requests[q])'
  BY <1>4, <1>5
<1>7. \A q \in Requests : requests'[q].reply = "set" => requests'[q].fresh # None
  BY <1>6 DEF Sound
<1> QED
  BY <1>3, <1>6, <1>7

\* A step that changes a request and leaves the tables and cookies alone.
LEMMA LocalStep ==
    ASSUME IInv, NEW p \in Requests, NEW r \in RequestRecord, Goto(p, r), Sound(r),
           UNCHANGED <<now, active, sessions, cookie, issued>>,
           sent' \in Nat, disturbed' \subseteq SessionIds
    PROVE  IInv'
<1>1. /\ requests' \in [Requests -> RequestRecord]
      /\ \A q \in Requests : requests'[q].reply = "set" => requests'[q].fresh # None
      /\ \A q \in Requests : Sound(requests[q])'
  BY GotoSound DEF Sound
<1>2. TypeOK'
  BY <1>1 DEF IInv, TypeOK, RequestRecord
<1>3. RotatesOnce'
  BY DEF IInv, RotatesOnce
<1>4. \A b \in Browsers : SoundCookie(cookie[b])'
  BY DEF IInv, SoundCookie
<1>5. \A t \in DOMAIN issued' : issued'[t].after \in DOMAIN issued' \cup {None}
  BY DEF IInv
<1>6. \A s \in DOMAIN sessions' : Latest(s)'
  BY DEF IInv, Latest
<1> QED
  BY <1>1, <1>2, <1>3, <1>4, <1>5, <1>6 DEF IInv

\* A request record of the invariant has its types.
LEMMA RequestTypes ==
    ASSUME IInv, NEW p \in Requests
    PROVE  /\ requests[p] \in RequestRecord
           /\ Sound(requests[p])
           /\ Browser(p) \in Browsers
           /\ cookie[Browser(p)].token \in Tokens \cup {None}
BY DEF IInv, TypeOK, RequestRecord, Requests, Browser

\* An idle request is sound.
LEMMA IdleSound == Idle \in RequestRecord /\ Sound(Idle)
BY DEF Idle, RequestRecord, Sound, Phases, Kinds

\* Refusing a request that has no more statements to run.
LEMMA RefusedSound ==
    ASSUME NEW r \in RequestRecord, Sound(r)
    PROVE  /\ [r EXCEPT !.phase = "answered", !.reply = "expire"] \in RequestRecord
           /\ Sound([r EXCEPT !.phase = "answered", !.reply = "expire"])
BY DEF RequestRecord, Sound, Phases

\* Going to a phase the record is ready for.
LEMMA PhaseSound ==
    ASSUME NEW r \in RequestRecord, Sound(r), NEW q \in Phases,
           q \in {"find", "rotate", "reread", "user", "adminUser", "revoke"}
              => r.token # None,
           q \in {"rotate", "reread", "user", "adminUser", "revoke"}
              => r.session \in DOMAIN sessions,
           q # "sent"
    PROVE  /\ [r EXCEPT !.phase = q] \in RequestRecord
           /\ Sound([r EXCEPT !.phase = q])
BY DEF RequestRecord, Sound

\* Sending a request keeps the invariant.
LEMMA SendKeeps ==
    ASSUME IInv, NEW p \in Requests, NEW kind \in Kinds, Send(p, kind)
    PROVE  IInv'
<1> DEFINE r == [Idle EXCEPT !.phase = "sent", !.kind = kind, !.sentAt = now,
                             !.token = IF kind = "login" THEN None
                                       ELSE cookie[Browser(p)].token]
<1>1. Browser(p) \in Browsers /\ cookie[Browser(p)].token \in Tokens \cup {None}
  BY RequestTypes
<1>2. SoundCookie(cookie[Browser(p)])
  BY <1>1 DEF IInv
<1>3. kind # "login" => /\ cookie[Browser(p)].token # None
                        /\ cookie[Browser(p)].token \in DOMAIN issued
  <2>1. SUFFICES ASSUME kind # "login"
                 PROVE  /\ cookie[Browser(p)].token # None
                        /\ cookie[Browser(p)].token \in DOMAIN issued
    OBVIOUS
  <2>2. cookie[Browser(p)].until > now
    BY <2>1 DEF Send
  <2>3. now \in Nat
    BY DEF IInv, TypeOK
  <2>4. cookie[Browser(p)].token # None
    BY <1>2, <2>2, <2>3 DEF SoundCookie
  <2> QED
    BY <1>2, <2>4 DEF SoundCookie
<1>4. r \in RequestRecord
  <2>1. now \in Nat
    BY DEF IInv, TypeOK
  <2> QED
    BY <1>1, <2>1 DEF Idle, RequestRecord, Phases
<1>5. Sound(r)
  BY <1>3 DEF Idle, Sound
<1>6. Goto(p, r)
  BY DEF Send
<1>7. UNCHANGED <<now, active, sessions, cookie, issued>> /\ UNCHANGED disturbed
  BY DEF Send
<1>8. sent' \in Nat /\ disturbed' \subseteq SessionIds
  BY <1>7 DEF Send, IInv, TypeOK
<1> HIDE DEF r
<1> QED
  BY <1>4, <1>5, <1>6, <1>7, <1>8, LocalStep

\* A step that only sets the phase of a request.
LEMMA PhaseStep ==
    ASSUME IInv, NEW p \in Requests, NEW r \in RequestRecord, Sound(r), Goto(p, r),
           UNCHANGED <<now, active, sessions, cookie, sent, issued, disturbed>>
    PROVE  IInv'
<1>1. sent' \in Nat /\ disturbed' \subseteq SessionIds
  BY DEF IInv, TypeOK
<1> QED
  BY <1>1, LocalStep

\* Reading the clock keeps the invariant.
LEMMA ReceiveKeeps ==
    ASSUME IInv, NEW p \in Requests, Receive(p)
    PROVE  IInv'
<1> DEFINE r == [requests[p] EXCEPT
                   !.phase = IF requests[p].kind = "login" THEN "verify" ELSE "find",
                   !.checkedAt = now]
<1>1. requests[p] \in RequestRecord /\ Sound(requests[p]) /\ now \in Nat
  BY RequestTypes DEF IInv, TypeOK
<1>2. r \in RequestRecord
  BY <1>1 DEF RequestRecord, Phases
<1>3. Sound(r)
  BY <1>1 DEF Sound, RequestRecord, Receive, Phase
<1>4. Goto(p, r) /\ UNCHANGED <<now, active, sessions, cookie, sent, issued, disturbed>>
  BY DEF Receive
<1> HIDE DEF r
<1> QED
  BY <1>2, <1>3, <1>4, PhaseStep

\* Checking the password keeps the invariant.
LEMMA VerifyPasswordKeeps ==
    ASSUME IInv, NEW p \in Requests, NEW u \in Users, VerifyPassword(p, u)
    PROVE  IInv'
<1>1. requests[p] \in RequestRecord /\ Sound(requests[p])
  BY RequestTypes
<1>2. /\ [requests[p] EXCEPT !.phase = "create", !.user = u] \in RequestRecord
      /\ Sound([requests[p] EXCEPT !.phase = "create", !.user = u])
  BY <1>1 DEF RequestRecord, Sound, Phases
<1>3. /\ [requests[p] EXCEPT !.phase = "answered"] \in RequestRecord
      /\ Sound([requests[p] EXCEPT !.phase = "answered"])
  BY <1>1, PhaseSound DEF Phases
<1>4. \E x \in RequestRecord : Goto(p, x) /\ Sound(x)
  BY <1>2, <1>3 DEF VerifyPassword
<1>5. PICK x \in RequestRecord : Goto(p, x) /\ Sound(x)
  BY <1>4
<1> QED
  BY <1>5, LocalStep DEF VerifyPassword, IInv, TypeOK

\* Refusing a request keeps the invariant.
LEMMA RefuseKeeps ==
    ASSUME IInv, NEW p \in Requests, Refuse(p),
           UNCHANGED <<now, active, sessions, cookie, sent, issued, disturbed>>
    PROVE  IInv'
BY RequestTypes, RefusedSound, PhaseStep DEF Refuse

\* Finding the session keeps the invariant.
LEMMA FindKeeps ==
    ASSUME IInv, NEW p \in Requests, NEW s \in SessionIds, Find(p, s)
    PROVE  IInv'
<1> DEFINE q == IF /\ sessions[s].token = HashOf[requests[p].token]
                   /\ sessions[s].expires - requests[p].checkedAt <= RenewalWindow
                THEN "rotate" ELSE "user"
           r == [requests[p] EXCEPT !.session = s, !.phase = q]
<1>1. requests[p] \in RequestRecord /\ Sound(requests[p]) /\ requests[p].phase = "find"
  BY RequestTypes DEF Find, Phase
<1>2. s \in DOMAIN sessions
  BY DEF Find, Found
<1>3. q \in {"rotate", "user"}
  OBVIOUS
<1>4. Goto(p, r) /\ UNCHANGED <<now, active, sessions, cookie, sent, issued, disturbed>>
  BY DEF Find
<1> HIDE DEF q
<1>5. r \in RequestRecord
  BY <1>1, <1>3 DEF RequestRecord, Phases
<1>6. Sound(r)
  BY <1>1, <1>2, <1>3 DEF Sound, RequestRecord
<1> HIDE DEF r
<1> QED
  BY <1>4, <1>5, <1>6, PhaseStep

\* Losing the rotation keeps the invariant.
LEMMA RotateLosesKeeps ==
    ASSUME IInv, NEW p \in Requests, RotateLoses(p)
    PROVE  IInv'
<1>1. requests[p] \in RequestRecord /\ Sound(requests[p]) /\ requests[p].phase = "rotate"
  BY RequestTypes DEF RotateLoses, Phase
<1>2. requests[p].token # None /\ requests[p].session \in DOMAIN sessions
  BY <1>1 DEF Sound
<1>3. /\ [requests[p] EXCEPT !.phase = "reread"] \in RequestRecord
      /\ Sound([requests[p] EXCEPT !.phase = "reread"])
  BY <1>1, <1>2, PhaseSound DEF Phases
<1> QED
  BY <1>3, PhaseStep DEF RotateLoses

\* Looking again after a lost rotation keeps the invariant.
LEMMA RereadKeeps ==
    ASSUME IInv, NEW p \in Requests, Reread(p)
    PROVE  IInv'
<1>1. requests[p] \in RequestRecord /\ Sound(requests[p]) /\ requests[p].phase = "reread"
  BY RequestTypes DEF Reread, Phase
<1>2. requests[p].token # None /\ requests[p].session \in DOMAIN sessions
  BY <1>1 DEF Sound
<1>3. /\ [requests[p] EXCEPT !.phase = "user"] \in RequestRecord
      /\ Sound([requests[p] EXCEPT !.phase = "user"])
  BY <1>1, <1>2, PhaseSound DEF Phases
<1>4. UNCHANGED <<now, active, sessions, cookie, sent, issued, disturbed>>
  BY DEF Reread
<1>5. Goto(p, [requests[p] EXCEPT !.phase = "user"]) \/ Refuse(p)
  BY DEF Reread
<1> QED
  BY <1>3, <1>4, <1>5, PhaseStep, RefuseKeeps

\* Checking the account keeps the invariant.
LEMMA CheckUserKeeps ==
    ASSUME IInv, NEW p \in Requests, CheckUser(p)
    PROVE  IInv'
<1>1. /\ requests[p] \in RequestRecord
      /\ Sound(requests[p])
      /\ requests[p].phase \in {"user", "adminUser"}
  BY RequestTypes DEF CheckUser, Phase
<1>2. requests[p].token # None /\ requests[p].session \in DOMAIN sessions
  BY <1>1 DEF Sound
<1>3. \A q \in {"adminUser", "revoke", "answered"} :
          /\ [requests[p] EXCEPT !.phase = q] \in RequestRecord
          /\ Sound([requests[p] EXCEPT !.phase = q])
  BY <1>1, <1>2, PhaseSound DEF Phases
<1>4. UNCHANGED <<now, active, sessions, cookie, sent, issued, disturbed>>
  BY DEF CheckUser
<1>5. \/ Refuse(p)
      \/ \E q \in {"adminUser", "revoke", "answered"} :
            Goto(p, [requests[p] EXCEPT !.phase = q])
  BY DEF CheckUser, Served
<1> QED
  BY <1>3, <1>4, <1>5, PhaseStep, RefuseKeeps

\* Sessions named by the tokens of a request exist as ids.
LEMMA DisturbsSessions ==
    ASSUME IInv, NEW p \in Requests
    PROVE  Disturbs(p) \subseteq SessionIds
<1>1. Sound(requests[p])
  BY RequestTypes
<1>2. {requests[p].token, requests[p].fresh} \ {None} \subseteq DOMAIN issued
  BY <1>1 DEF Sound
<1>3. \A t \in DOMAIN issued : issued[t].session \in SessionIds
  BY DEF IInv, TypeOK
<1> QED
  BY <1>2, <1>3 DEF Disturbs, SessionOf

\* A failed statement keeps the invariant.
LEMMA FailKeeps ==
    ASSUME IInv, NEW p \in Requests, Fail(p)
    PROVE  IInv'
<1>1. requests[p] \in RequestRecord /\ Sound(requests[p])
  BY RequestTypes
<1>2. /\ [requests[p] EXCEPT !.phase = "answered"] \in RequestRecord
      /\ Sound([requests[p] EXCEPT !.phase = "answered"])
  BY <1>1, PhaseSound DEF Phases
<1>3. /\ [requests[p] EXCEPT !.phase = "answered", !.reply = "expire"] \in RequestRecord
      /\ Sound([requests[p] EXCEPT !.phase = "answered", !.reply = "expire"])
  BY <1>1, RefusedSound
<1>4. UNCHANGED <<now, active, sessions, cookie, issued>> /\ sent' \in Nat
  BY DEF Fail, IInv, TypeOK
<1>5. disturbed' \subseteq SessionIds
  BY DisturbsSessions DEF Fail, IInv, TypeOK
<1>6. \/ Goto(p, [requests[p] EXCEPT !.phase = "answered"])
      \/ Goto(p, [requests[p] EXCEPT !.phase = "answered", !.reply = "expire"])
  BY DEF Fail, Refuse
<1> QED
  BY <1>2, <1>3, <1>4, <1>5, <1>6, LocalStep

\* A session without a view keeps the invariant.
LEMMA ViewFailsKeeps ==
    ASSUME IInv, NEW p \in Requests, ViewFails(p)
    PROVE  IInv'
<1> DEFINE r == [requests[p] EXCEPT !.phase = "answered", !.fresh = None, !.reply = "keep"]
<1>1. requests[p] \in RequestRecord /\ Sound(requests[p])
  BY RequestTypes
<1>2. r \in RequestRecord /\ Sound(r)
  BY <1>1 DEF RequestRecord, Sound, Phases
<1>3. UNCHANGED <<now, active, sessions, cookie, issued>> /\ sent' \in Nat
  BY DEF ViewFails, IInv, TypeOK
<1>4. disturbed' \subseteq SessionIds
  BY DisturbsSessions DEF ViewFails, IInv, TypeOK
<1>5. Goto(p, r)
  BY DEF ViewFails
<1> HIDE DEF r
<1> QED
  BY <1>2, <1>3, <1>4, <1>5, LocalStep

\* A request given up keeps the invariant.
LEMMA LoseKeeps ==
    ASSUME IInv, NEW p \in Requests, Lose(p)
    PROVE  IInv'
<1>1. UNCHANGED <<now, active, sessions, cookie, issued>> /\ sent' \in Nat
  BY DEF Lose, IInv, TypeOK
<1>2. disturbed' \subseteq SessionIds
  BY DisturbsSessions DEF Lose, IInv, TypeOK
<1> QED
  BY <1>1, <1>2, IdleSound, LocalStep DEF Lose

\* An answer changes one cookie.
LEMMA DeliverKeeps ==
    ASSUME IInv, NEW p \in Requests, Deliver(p)
    PROVE  IInv'
<1> DEFINE r == requests[p]
           k == CASE r.reply = "keep"   -> cookie[Browser(p)]
                  [] r.reply = "set"    -> [token |-> r.fresh, until |-> r.checkedAt + Ttl]
                  [] r.reply = "expire" -> NoCookie
<1>1. r \in RequestRecord /\ Sound(r) /\ Browser(p) \in Browsers
  BY RequestTypes
<1>2. UNCHANGED <<now, active, sessions, sent, issued, disturbed>>
  BY DEF Deliver
<1>3. /\ requests' \in [Requests -> RequestRecord]
      /\ \A q \in Requests : requests'[q].reply = "set" => requests'[q].fresh # None
      /\ \A q \in Requests : Sound(requests[q])'
  BY <1>2, IdleSound, GotoSound DEF Deliver, Sound
<1>4. cookie' = [cookie EXCEPT ![Browser(p)] = k]
  BY DEF Deliver
<1>5. /\ cookie \in [Browsers -> [token: Tokens \cup {None}, until: Nat]]
      /\ DOMAIN issued \subseteq Tokens
      /\ SoundCookie(cookie[Browser(p)])
  BY <1>1 DEF IInv, TypeOK
<1>6. k \in [token: Tokens \cup {None}, until: Nat] /\ SoundCookie(k)
  <2>1. CASE r.reply = "keep"
    BY <1>1, <1>5, <2>1
  <2>2. CASE r.reply = "set"
    <3>1. r.fresh # None /\ r.fresh \in DOMAIN issued /\ r.checkedAt \in Nat
      BY <1>1, <2>2 DEF Sound, RequestRecord
    <3>2. r.checkedAt + Ttl \in Nat
      BY <3>1, PolicyAssumption
    <3>3. k = [token |-> r.fresh, until |-> r.checkedAt + Ttl]
      BY <2>2
    <3>4. r.fresh \in Tokens
      BY <1>5, <3>1
    <3> DEFINE new == [token |-> r.fresh, until |-> r.checkedAt + Ttl]
    <3>5. new \in [token: Tokens \cup {None}, until: Nat]
      BY <3>2, <3>4
    <3>6. SoundCookie(new)
      BY <3>1 DEF SoundCookie
    <3> HIDE DEF new
    <3> QED
      BY <3>3, <3>5, <3>6 DEF new
  <2>3. CASE r.reply = "expire"
    BY <2>3 DEF NoCookie, SoundCookie
  <2> QED
    BY <1>1, <2>1, <2>2, <2>3 DEF RequestRecord
<1> HIDE DEF k
<1>7. cookie' \in [Browsers -> [token: Tokens \cup {None}, until: Nat]]
  BY <1>4, <1>5, <1>6
<1>8. \A b \in Browsers : SoundCookie(cookie'[b])
  BY <1>1, <1>4, <1>5, <1>6 DEF IInv
<1>9. \A b \in Browsers : SoundCookie(cookie[b])'
  BY <1>2, <1>8 DEF SoundCookie
<1>10. TypeOK'
  BY <1>2, <1>3, <1>7 DEF IInv, TypeOK, RequestRecord
<1>11. RotatesOnce' /\ (\A s \in DOMAIN sessions' : Latest(s)')
  BY <1>2 DEF IInv, RotatesOnce, Latest
<1>12. \A t \in DOMAIN issued' : issued'[t].after \in DOMAIN issued' \cup {None}
  BY <1>2 DEF IInv
<1> QED
  BY <1>3, <1>9, <1>10, <1>11, <1>12 DEF IInv

\* Revoking sessions leaves every token where it was.
LEMMA RevokingKeeps ==
    ASSUME IInv,
           DOMAIN sessions' = DOMAIN sessions,
           sessions' \in [DOMAIN sessions' -> Row],
           \A s \in DOMAIN sessions : sessions'[s].token = sessions[s].token,
           UNCHANGED <<now, active, cookie, sent, issued, disturbed>>,
           requests' \in [Requests -> RequestRecord],
           \A q \in Requests : Sound(requests[q])'
    PROVE  IInv'
<1>1. \A q \in Requests : requests'[q].reply = "set" => requests'[q].fresh # None
  BY DEF Sound
<1>2. TypeOK'
  BY <1>1 DEF IInv, TypeOK, RequestRecord
<1>3. RotatesOnce'
  BY DEF IInv, RotatesOnce
<1>4. \A b \in Browsers : SoundCookie(cookie[b])'
  BY DEF IInv, SoundCookie
<1>5. \A t \in DOMAIN issued' : issued'[t].after \in DOMAIN issued' \cup {None}
  BY DEF IInv
<1>6. ASSUME NEW s \in DOMAIN sessions' PROVE Latest(s)'
  <2>1. Latest(s) /\ sessions'[s].token = sessions[s].token
    BY <1>6 DEF IInv
  <2> QED
    BY <2>1 DEF Latest
<1> QED
  BY <1>2, <1>3, <1>4, <1>5, <1>6 DEF IInv

\* Logout keeps the invariant.
LEMMA RevokeKeeps ==
    ASSUME IInv, NEW p \in Requests, Revoke(p)
    PROVE  IInv'
<1> DEFINE s == requests[p].session
<1>1. requests[p] \in RequestRecord /\ Sound(requests[p]) /\ requests[p].phase = "revoke"
  BY RequestTypes DEF Revoke, Phase
<1>2. s \in DOMAIN sessions /\ sessions \in [DOMAIN sessions -> Row]
  BY <1>1 DEF Sound, IInv, TypeOK
<1>3. /\ [sessions[s] EXCEPT !.revoked = TRUE] \in Row
      /\ [sessions[s] EXCEPT !.revoked = TRUE].token = sessions[s].token
  BY <1>2, RevokedRow
<1>4. /\ sessions' = [sessions EXCEPT ![s] = [sessions[s] EXCEPT !.revoked = TRUE]]
      /\ UNCHANGED <<now, active, cookie, sent, issued, disturbed>>
      /\ Refuse(p)
  BY DEF Revoke
<1>5. DOMAIN sessions' = DOMAIN sessions /\ sessions' \in [DOMAIN sessions' -> Row]
  BY <1>2, <1>3, <1>4
<1>6. \A i \in DOMAIN sessions : sessions'[i].token = sessions[i].token
  BY <1>2, <1>3, <1>4
<1> DEFINE r == [requests[p] EXCEPT !.phase = "answered", !.reply = "expire"]
<1>7. r \in RequestRecord /\ Sound(r) /\ Goto(p, r)
  BY <1>1, <1>4, RefusedSound DEF Refuse
<1> HIDE DEF r
<1>8. /\ requests' \in [Requests -> RequestRecord]
      /\ \A q \in Requests : Sound(requests[q])'
  BY <1>4, <1>5, <1>7, GotoSound DEF Sound
<1> QED
  BY <1>4, <1>5, <1>6, <1>8, RevokingKeeps

\* Revoking the sessions of an account keeps the invariant.
LEMMA RevokeAllKeeps ==
    ASSUME IInv, NEW u \in Users, RevokeAll(u)
    PROVE  IInv'
<1>1. sessions \in [DOMAIN sessions -> Row]
  BY DEF IInv, TypeOK
<1>2. \A s \in DOMAIN sessions : /\ [sessions[s] EXCEPT !.revoked = TRUE] \in Row
                                 /\ [sessions[s] EXCEPT !.revoked = TRUE].token
                                       = sessions[s].token
  BY <1>1, RevokedRow
<1>3. sessions' = [s \in DOMAIN sessions |->
                     IF sessions[s].user = u
                     THEN [sessions[s] EXCEPT !.revoked = TRUE] ELSE sessions[s]]
  BY DEF RevokeAll
<1>4. UNCHANGED <<now, active, cookie, requests, sent, issued, disturbed>>
  BY DEF RevokeAll
<1>5. DOMAIN sessions' = DOMAIN sessions /\ sessions' \in [DOMAIN sessions' -> Row]
  BY <1>1, <1>2, <1>3
<1>6. \A s \in DOMAIN sessions : sessions'[s].token = sessions[s].token
  BY <1>2, <1>3
<1>7. requests' \in [Requests -> RequestRecord]
  BY <1>4 DEF IInv, TypeOK, RequestRecord
<1>8. \A q \in Requests : Sound(requests[q])'
  BY <1>4, <1>5 DEF IInv, Sound
<1> QED
  BY <1>4, <1>5, <1>6, <1>7, <1>8, RevokingKeeps

\* The clock and the accounts are in no other part of the invariant.
LEMMA OutsideKeeps ==
    ASSUME IInv, now' \in Nat, active' \subseteq Users,
           UNCHANGED <<sessions, cookie, requests, sent, issued, disturbed>>
    PROVE  IInv'
<1>1. TypeOK'
  BY DEF IInv, TypeOK
<1>2. RotatesOnce' /\ (\A s \in DOMAIN sessions' : Latest(s)')
  BY DEF IInv, RotatesOnce, Latest
<1>3. /\ \A p \in Requests : Sound(requests[p])'
      /\ \A b \in Browsers : SoundCookie(cookie[b])'
  BY DEF IInv, Sound, SoundCookie
<1>4. \A t \in DOMAIN issued' : issued'[t].after \in DOMAIN issued' \cup {None}
  BY DEF IInv
<1> QED
  BY <1>1, <1>2, <1>3, <1>4 DEF IInv

-----------------------------------------------------------------------------
(* New tokens                                                              *)

\* A new token of session s follows one nothing has followed.
LEMMA MintKeeps ==
    ASSUME IInv, NEW s \in SessionIds, NEW t \in Unminted,
           NEW after \in DOMAIN issued \cup {None},
           Mint(t, s, after),
           after # None => issued[after].session = s,
           after # None => \A u \in DOMAIN issued : issued[u].after # after,
           DOMAIN sessions' = DOMAIN sessions \cup {s},
           sessions'[s].token = HashOf[t],
           \A i \in DOMAIN sessions \ {s} : sessions'[i].token = sessions[i].token
    PROVE  /\ DOMAIN issued' = DOMAIN issued \cup {t}
           /\ DOMAIN issued' \subseteq Tokens
           /\ issued' \in [DOMAIN issued' -> MintRecord]
           /\ RotatesOnce'
           /\ \A u \in DOMAIN issued' : issued'[u].after \in DOMAIN issued' \cup {None}
           /\ \A i \in DOMAIN sessions' : Latest(i)'
<1>1. /\ DOMAIN issued \subseteq Tokens
      /\ issued \in [DOMAIN issued -> MintRecord]
      /\ \A u \in DOMAIN issued : issued[u].after \in DOMAIN issued \cup {None}
      /\ RotatesOnce
  BY DEF IInv, TypeOK, MintRecord
<1>2. t \in Tokens /\ t \notin DOMAIN issued
  BY DEF Unminted
<1>3. t # None /\ after # t
  BY <1>1, <1>2, PolicyAssumption
<1>4. /\ DOMAIN issued' = DOMAIN issued \cup {t}
      /\ issued'[t] = [session |-> s, after |-> after]
      /\ \A u \in DOMAIN issued : issued'[u] = issued[u]
  BY <1>2 DEF Mint
<1>5. [session |-> s, after |-> after] \in MintRecord
  BY <1>1 DEF MintRecord
<1>6. issued' \in [DOMAIN issued' -> MintRecord]
  BY <1>1, <1>4, <1>5 DEF Mint
<1>7. \A u \in DOMAIN issued' : issued'[u].after \in DOMAIN issued' \cup {None}
  BY <1>1, <1>4
<1>8. RotatesOnce'
  BY <1>1, <1>4 DEF RotatesOnce
<1>9. \A u \in DOMAIN issued' : issued'[u].after # t
  BY <1>1, <1>2, <1>3, <1>4
<1>10. Latest(s)'
  BY <1>4, <1>9 DEF Latest
<1>11. ASSUME NEW i \in DOMAIN sessions \ {s} PROVE Latest(i)'
  <2>1. PICK w \in DOMAIN issued :
            /\ sessions[i].token = HashOf[w]
            /\ issued[w].session = i
            /\ \A u \in DOMAIN issued : issued[u].after # w
    BY DEF IInv, Latest
  <2>2. w # after
    BY <1>1, <1>2, <2>1, PolicyAssumption
  <2>3. \A u \in DOMAIN issued' : issued'[u].after # w
    BY <1>4, <2>1, <2>2
  <2>4. sessions'[i].token = HashOf[w] /\ issued'[w].session = i /\ w \in DOMAIN issued'
    BY <1>4, <2>1
  <2> QED
    BY <2>3, <2>4 DEF Latest
<1>12. \A i \in DOMAIN sessions' : Latest(i)'
  BY <1>10, <1>11
<1> QED
  BY <1>1, <1>2, <1>4, <1>6, <1>7, <1>8, <1>12

\* The invariant after a step that mints a token for the request that goes on.
LEMMA MintedKeeps ==
    ASSUME IInv, NEW s \in SessionIds, NEW t \in Unminted,
           NEW after \in DOMAIN issued \cup {None},
           Mint(t, s, after),
           after # None => issued[after].session = s,
           after # None => \A u \in DOMAIN issued : issued[u].after # after,
           DOMAIN sessions' = DOMAIN sessions \cup {s},
           sessions' \in [DOMAIN sessions' -> Row],
           sessions'[s].token = HashOf[t],
           \A i \in DOMAIN sessions \ {s} : sessions'[i].token = sessions[i].token,
           NEW p \in Requests, NEW r \in RequestRecord, Goto(p, r),
           r.token = requests[p].token, r.fresh = t, r.session = s,
           r.phase \in {"user", "answered"},
           r.phase = "user" => r.token # None,
           UNCHANGED <<now, active, cookie, sent, disturbed>>
    PROVE  IInv'
<1>1. /\ DOMAIN issued' = DOMAIN issued \cup {t}
      /\ DOMAIN issued' \subseteq Tokens
      /\ issued' \in [DOMAIN issued' -> MintRecord]
      /\ RotatesOnce'
      /\ \A u \in DOMAIN issued' : issued'[u].after \in DOMAIN issued' \cup {None}
      /\ \A i \in DOMAIN sessions' : Latest(i)'
  BY MintKeeps
<1>2. t # None
  BY PolicyAssumption DEF Unminted
<1>3. requests[p].token \in DOMAIN issued \cup {None}
  BY RequestTypes DEF Sound
<1>4. /\ requests' \in [Requests -> RequestRecord]
      /\ \A q \in Requests : requests'[q].reply = "set" => requests'[q].fresh # None
      /\ \A q \in Requests : Sound(requests[q])'
  <2>1. DOMAIN issued \subseteq DOMAIN issued' /\ DOMAIN sessions \subseteq DOMAIN sessions'
    BY <1>1
  <2>2. r.token \in DOMAIN issued' \cup {None} /\ r.fresh \in DOMAIN issued' \cup {None}
    BY <1>1, <1>3
  <2>3. r.session \in DOMAIN sessions'
    OBVIOUS
  <2>4. r.phase \in {"find", "rotate", "reread", "user", "adminUser", "revoke"}
           => r.token # None
    OBVIOUS
  <2>5. r.phase # "sent" /\ r.fresh # None
    BY <1>2
  <2> QED
    BY <2>1, <2>2, <2>3, <2>4, <2>5, GotoSound
<1>5. DOMAIN sessions' \subseteq SessionIds
  BY DEF IInv, TypeOK
<1>6. TypeOK'
  BY <1>1, <1>4, <1>5 DEF IInv, TypeOK, RequestRecord, MintRecord
<1>7. \A b \in Browsers : SoundCookie(cookie[b])'
  <2>1. ASSUME NEW b \in Browsers PROVE SoundCookie(cookie[b])'
    <3>1. SoundCookie(cookie[b]) /\ cookie'[b] = cookie[b]
      BY DEF IInv
    <3> QED
      BY <1>1, <3>1 DEF SoundCookie
  <2> QED
    BY <2>1
<1> QED
  BY <1>1, <1>4, <1>6, <1>7 DEF IInv

\* Login keeps the invariant.
LEMMA CreateSessionKeeps ==
    ASSUME IInv, NEW p \in Requests, NEW u \in Users, CreateSession(p, u)
    PROVE  IInv'
<1> DEFINE s == NewSessionId
           t == NewToken
           row == [user |-> u, token |-> HashOf[t], previous |-> None,
                   graceUntil |-> 0, expires |-> now + Ttl, revoked |-> FALSE]
           r == [requests[p] EXCEPT !.phase = "answered", !.checkedAt = now,
                                    !.session = s, !.fresh = t, !.reply = "set"]
<1>1. /\ DOMAIN sessions \subseteq SessionIds
      /\ sessions \in [DOMAIN sessions -> Row]
      /\ now \in Nat
  BY DEF IInv, TypeOK
<1>2. s \in SessionIds /\ s \notin DOMAIN sessions
  BY <1>1 DEF CreateSession, NewSessionId
<1>3. t \in Unminted /\ t \in Tokens
  BY DEF CreateSession, NewToken, Unminted
<1>4. /\ sessions' = [i \in DOMAIN sessions \cup {s} |-> IF i = s THEN row ELSE sessions[i]]
      /\ Mint(t, s, None)
      /\ Goto(p, r)
      /\ UNCHANGED <<now, active, cookie, sent, disturbed>>
  BY DEF CreateSession
<1>5. row \in Row /\ row.token = HashOf[t]
  BY <1>1, <1>3, PolicyAssumption DEF Row
<1>6. requests[p] \in RequestRecord
  BY RequestTypes
<1>7. /\ r \in RequestRecord
      /\ r.token = requests[p].token /\ r.fresh = t /\ r.session = s
      /\ r.phase = "answered"
  BY <1>1, <1>2, <1>3, <1>6 DEF RequestRecord, Phases
<1> HIDE DEF s, t, row, r
<1>8. /\ DOMAIN sessions' = DOMAIN sessions \cup {s}
      /\ sessions' \in [DOMAIN sessions' -> Row]
      /\ sessions'[s].token = HashOf[t]
      /\ \A i \in DOMAIN sessions \ {s} : sessions'[i].token = sessions[i].token
  BY <1>1, <1>2, <1>4, <1>5
<1> QED
  BY <1>2, <1>3, <1>4, <1>7, <1>8, MintedKeeps

\* The compare-and-set: the presented token is the row's own, so it has no
\* successor yet.
LEMMA RotateKeeps ==
    ASSUME IInv, NEW p \in Requests, Rotate(p)
    PROVE  IInv'
<1> DEFINE q == requests[p]
           s == requests[p].session
           t == NewToken
           row == [sessions[s] EXCEPT !.token = HashOf[t], !.previous = HashOf[q.token],
                                      !.graceUntil = q.checkedAt + RotationGrace,
                                      !.expires = q.checkedAt + Ttl]
<1>1. q \in RequestRecord /\ Sound(q) /\ q.phase = "rotate"
  BY RequestTypes DEF Rotate, Phase
<1>2. /\ s \in DOMAIN sessions
      /\ q.token \in DOMAIN issued
      /\ q.token # None
  BY <1>1 DEF Sound
<1>3. /\ DOMAIN sessions \subseteq SessionIds
      /\ sessions \in [DOMAIN sessions -> Row]
      /\ DOMAIN issued \subseteq Tokens
  BY DEF IInv, TypeOK
<1>4. t \in Unminted /\ t \in Tokens
  BY DEF Rotate, NewToken, Unminted
<1>5. sessions[s].token = HashOf[q.token]
  BY DEF Rotate, MayRotate
<1>6. PICK w \in DOMAIN issued :
          /\ sessions[s].token = HashOf[w]
          /\ issued[w].session = s
          /\ \A u \in DOMAIN issued : issued[u].after # w
  BY <1>2 DEF IInv, Latest
<1>7. w = q.token
  BY <1>2, <1>3, <1>5, <1>6, PolicyAssumption
<1>8. row \in Row /\ row.token = HashOf[t]
  <2>1. sessions[s] \in Row /\ HashOf[t] \in Hashes /\ HashOf[q.token] \in Hashes
    BY <1>2, <1>3, <1>4, PolicyAssumption
  <2>2. q.checkedAt + RotationGrace \in Nat /\ q.checkedAt + Ttl \in Nat
    BY <1>1, PolicyAssumption DEF RequestRecord
  <2> QED
    BY <2>1, <2>2 DEF Row
<1>9. /\ sessions' = [sessions EXCEPT ![s] = row]
      /\ Mint(t, s, q.token)
      /\ Goto(p, Rotated(p, t))
      /\ UNCHANGED <<now, active, cookie, sent, disturbed>>
  BY DEF Rotate
<1>10. /\ Rotated(p, t) \in RequestRecord
       /\ Rotated(p, t).token = requests[p].token
       /\ Rotated(p, t).fresh = t
       /\ Rotated(p, t).session = s
       /\ Rotated(p, t).phase = "user"
  BY <1>1, <1>4 DEF Rotated, RequestRecord, Phases
<1> HIDE DEF s, t, row
<1>11. /\ DOMAIN sessions' = DOMAIN sessions \cup {s}
       /\ sessions' \in [DOMAIN sessions' -> Row]
       /\ sessions'[s].token = HashOf[t]
       /\ \A i \in DOMAIN sessions \ {s} : sessions'[i].token = sessions[i].token
  BY <1>2, <1>3, <1>8, <1>9
<1>12. /\ issued[q.token].session = s
       /\ \A u \in DOMAIN issued : issued[u].after # q.token
  BY <1>6, <1>7
<1>13. s \in SessionIds /\ q.token \in DOMAIN issued \cup {None}
  BY <1>2, <1>3
<1> HIDE DEF q
<1>14. q.token = requests[p].token
  BY DEF q
<1>15. /\ Rotated(p, t).phase \in {"user", "answered"}
       /\ Rotated(p, t).token # None
  BY <1>2, <1>10, <1>14
<1> QED
  BY <1>4, <1>9, <1>10, <1>11, <1>12, <1>13, <1>15, MintedKeeps

-----------------------------------------------------------------------------
(* The invariant                                                           *)

\* The inductive invariant holds at the start.
LEMMA InitInv == Init => IInv
<1> SUFFICES ASSUME Init PROVE IInv
  OBVIOUS
<1>1. requests = [p \in Requests |-> Idle] /\ cookie = [b \in Browsers |-> NoCookie]
  BY DEF Init
<1>2. DOMAIN sessions = {} /\ DOMAIN issued = {}
  BY DEF Init
<1>3. NoCookie \in [token: Tokens \cup {None}, until: Nat] /\ SoundCookie(NoCookie)
  BY DEF NoCookie, SoundCookie
<1>4. Idle.reply # "set"
  BY DEF Idle
<1>5. /\ sessions \in [DOMAIN sessions -> Row]
      /\ issued \in [DOMAIN issued -> MintRecord]
  BY DEF Init
<1>6. /\ requests \in [Requests -> RequestRecord]
      /\ cookie \in [Browsers -> [token: Tokens \cup {None}, until: Nat]]
  BY <1>1, <1>3, IdleSound
<1>7. /\ \A p \in Requests : Sound(requests[p])
      /\ \A b \in Browsers : SoundCookie(cookie[b])
      /\ \A p \in Requests : requests[p].reply = "set" => requests[p].fresh # None
  BY <1>1, <1>3, <1>4, IdleSound
<1>8. TypeOK
  BY <1>2, <1>5, <1>6, <1>7 DEF Init, TypeOK, RequestRecord, MintRecord
<1>9. RotatesOnce
  BY <1>2 DEF RotatesOnce
<1> QED
  BY <1>2, <1>7, <1>8, <1>9 DEF IInv

\* Every step keeps the inductive invariant.
LEMMA NextInv == IInv /\ [Next]_vars => IInv'
<1> SUFFICES ASSUME IInv, [Next]_vars PROVE IInv'
  OBVIOUS
<1>1. CASE UNCHANGED vars
  <2>1. now' \in Nat /\ active' \subseteq Users
    BY <1>1 DEF vars, IInv, TypeOK
  <2> QED
    BY <1>1, <2>1, OutsideKeeps DEF vars
<1>2. ASSUME NEW u \in Users, SetStatus(u) PROVE IInv'
  <2>1. now' \in Nat /\ active' \subseteq Users
    BY <1>2 DEF SetStatus, IInv, TypeOK
  <2> QED
    BY <1>2, <2>1, OutsideKeeps DEF SetStatus
<1>3. CASE Tick
  <2>1. now' \in Nat /\ active' \subseteq Users
    BY <1>3 DEF Tick, IInv, TypeOK
  <2> QED
    BY <1>3, <2>1, OutsideKeeps DEF Tick
<1>4. ASSUME NEW p \in Requests, FindMissing(p) PROVE IInv'
  BY <1>4, RefuseKeeps DEF FindMissing
<1>5. ASSUME NEW p \in Requests,
             \/ \E kind \in Kinds : Send(p, kind)
             \/ Receive(p)
             \/ \E u \in Users : VerifyPassword(p, u) \/ CreateSession(p, u)
             \/ FindMissing(p)
             \/ \E s \in SessionIds : Find(p, s)
             \/ Rotate(p) \/ RotateLoses(p) \/ Reread(p) \/ CheckUser(p) \/ Revoke(p)
             \/ Fail(p) \/ ViewFails(p) \/ Lose(p) \/ Deliver(p)
      PROVE  IInv'
  BY <1>4, <1>5, SendKeeps, ReceiveKeeps, VerifyPasswordKeeps, CreateSessionKeeps,
     FindKeeps, RotateKeeps, RotateLosesKeeps, RereadKeeps, CheckUserKeeps,
     RevokeKeeps, FailKeeps, ViewFailsKeeps, LoseKeeps, DeliverKeeps
<1> QED
  BY <1>1, <1>2, <1>3, <1>5, RevokeAllKeeps DEF Next

\* The inductive invariant: types, sound requests and cookies, and a latest
\* token for every session.
THEOREM InvariantHolds == Spec => []IInv
  BY InitInv, NextInv, PTL DEF Spec

\* Every variable keeps its type.
THEOREM TypeCorrect == Spec => []TypeOK
<1>1. IInv => TypeOK
  BY DEF IInv
<1> QED
  BY <1>1, InvariantHolds, PTL

\* However many requests race, a token has at most one successor.
THEOREM OneSuccessor == Spec => []RotatesOnce
<1>1. IInv => RotatesOnce
  BY DEF IInv
<1> QED
  BY <1>1, InvariantHolds, PTL

\* A step leaves the row of a revoked session as it is.
LEMMA RevokedKept ==
    ASSUME IInv, [Next]_vars, NEW s \in DOMAIN sessions, sessions[s].revoked
    PROVE  sessions'[s] = sessions[s]
<1>1. sessions[s] \in Row
  BY DEF IInv, TypeOK
<1>2. [sessions[s] EXCEPT !.revoked = TRUE] = sessions[s]
  BY <1>1, RevokedRow
<1>3. ASSUME NEW p \in Requests, NEW u \in Users, CreateSession(p, u)
      PROVE  sessions'[s] = sessions[s]
  <2>1. NewSessionId \notin DOMAIN sessions
    BY <1>3 DEF CreateSession, NewSessionId, IInv, TypeOK
  <2>2. s # NewSessionId
    BY <2>1
  <2> QED
    BY <1>3, <2>2 DEF CreateSession
<1>4. ASSUME NEW p \in Requests, Rotate(p) PROVE sessions'[s] = sessions[s]
  <2>1. ~sessions[requests[p].session].revoked
    BY <1>4 DEF Rotate, MayRotate
  <2>2. s # requests[p].session
    BY <2>1
  <2> QED
    BY <1>4, <2>2 DEF Rotate
<1>5. ASSUME NEW p \in Requests, Revoke(p) PROVE sessions'[s] = sessions[s]
  BY <1>2, <1>5 DEF Revoke
<1>6. ASSUME NEW u \in Users, RevokeAll(u) PROVE sessions'[s] = sessions[s]
  BY <1>2, <1>6 DEF RevokeAll
<1> QED
  BY <1>3, <1>4, <1>5, <1>6
     DEF Next, vars, Send, Receive, VerifyPassword, FindMissing, Find, RotateLoses,
         Reread, CheckUser, Fail, ViewFails, Lose, Deliver, SetStatus, Tick

\* Logout and password reset are final.
THEOREM RevocationIsFinal == Spec => RevokedIsFinal
<1>1. IInv /\ [Next]_vars =>
        [\A s \in DOMAIN sessions :
            sessions[s].revoked => sessions'[s] = sessions[s]]_vars
  BY RevokedKept
<1> QED
  BY <1>1, InvariantHolds, PTL DEF Spec, RevokedIsFinal

-----------------------------------------------------------------------------
(* What a browser holds                                                    *)

RowOf(t) == sessions[SessionOf(t)]
Current(t) == RowOf(t).token = HashOf[t]
Over(t) == SessionOf(t) \in disturbed \/ RowOf(t).revoked

\* Every request is younger than a round trip and has read the clock.
Timely(p) ==
    requests[p].phase # "idle" =>
        /\ requests[p].sentAt <= now /\ now <= requests[p].sentAt + RoundTrip
        /\ requests[p].phase # "sent" =>
              requests[p].sentAt <= requests[p].checkedAt /\ requests[p].checkedAt <= now

\* A request has a new token from its rotation or its login on.
FreshLocal(r) ==
    /\ r.phase = "idle" => r.token = None
    /\ r.phase \in {"idle", "sent", "verify", "create", "find", "rotate", "reread"}
          => r.fresh = None
    /\ r.fresh # None => r.reply # "keep"

\* What a request with token t knows of its session: it rotates one near its
\* end, and looks again because it may not.
SessionLocal(r, t) ==
    /\ r.phase \in {"rotate", "reread", "user", "adminUser", "revoke"}
          => r.session = SessionOf(t)
    /\ r.phase = "rotate" /\ Current(t) => RowOf(t).expires - r.checkedAt <= RenewalWindow
    /\ r.phase = "reread" => ~MayRotate(RowOf(t), HashOf[t], r.checkedAt)

Knows(p) ==
    \A t \in DOMAIN issued : requests[p].token = t => SessionLocal(requests[p], t)

\* A token on its way to its browser is the current one, and nobody else's.
FreshInv(p) ==
    \A t \in DOMAIN issued : requests[p].fresh = t =>
        /\ Current(t)
        /\ \A q \in Requests : requests[q].token # t /\ (requests[q].fresh = t => q = p)
        /\ \A b \in Browsers : cookie[b].token # t

\* Token t was replaced by a request of browser b whose answer is on its way.
ReplacedBy(q, t) ==
    /\ \E u \in DOMAIN issued : requests[q].fresh = u /\ SessionOf(u) = SessionOf(t)
    /\ RowOf(t).graceUntil = requests[q].checkedAt + RotationGrace
    /\ RowOf(t).expires = requests[q].checkedAt + Ttl

\* The cookie of a browser is current, or was until a request rotated whose
\* answer is on its way to the same browser.
CookieInv(b) ==
    \A t \in DOMAIN issued : cookie[b].token = t =>
        \/ Over(t)
        \/ Current(t)
        \/ /\ RowOf(t).previous = HashOf[t]
           /\ \E q \in Requests : Browser(q) = b /\ ReplacedBy(q, t)

\* Tokens of one session are in one browser.
Holds(b, t) ==
    \/ cookie[b].token = t
    \/ \E p \in Requests :
          Browser(p) = b /\ (requests[p].token = t \/ requests[p].fresh = t)

Apart ==
    \A b, c \in Browsers : \A t, u \in DOMAIN issued :
        Holds(b, t) /\ Holds(c, u) /\ SessionOf(t) = SessionOf(u) => b = c

\* Tokens are of sessions there are.
TokenSessions == \A t \in DOMAIN issued : SessionOf(t) \in DOMAIN sessions

\* The token a row was rotated from is a token of that session.
PreviousInv ==
    \A s \in DOMAIN sessions : sessions[s].previous # None =>
        \E t \in DOMAIN issued : SessionOf(t) = s /\ HashOf[t] = sessions[s].previous

HeldInv ==
    /\ \A p \in Requests : Timely(p) /\ FreshLocal(requests[p]) /\ Knows(p)
    /\ \A p \in Requests : FreshInv(p)
    /\ \A b \in Browsers : CookieInv(b)
    /\ Apart
    /\ TokenSessions
    /\ PreviousInv

\* Token t was replaced a round trip before `at` or later.
Replaced(t, at) ==
    /\ RowOf(t).previous = HashOf[t]
    /\ at + RotationGrace <= RowOf(t).graceUntil + RoundTrip
    /\ at + Ttl <= RowOf(t).expires + RoundTrip

\* The token a request presents is current or was when the request was sent,
\* give or take a round trip.
TokenInv ==
    \A p \in Requests : \A t \in DOMAIN issued :
        requests[p].token = t => Over(t) \/ Current(t) \/ Replaced(t, requests[p].sentAt)

-----------------------------------------------------------------------------
(* Steps that mint no token                                                *)

\* Rows that are the same except that sessions may be revoked.
RowsKept ==
    /\ DOMAIN sessions' = DOMAIN sessions
    /\ \A s \in DOMAIN sessions :
          /\ sessions'[s].token = sessions[s].token
          /\ sessions'[s].previous = sessions[s].previous
          /\ sessions'[s].graceUntil = sessions[s].graceUntil
          /\ sessions'[s].expires = sessions[s].expires
          /\ sessions[s].revoked => sessions'[s].revoked

\* What the invariants say of the tokens in use, in one place.
LEMMA TokenFacts ==
    ASSUME IInv
    PROVE  /\ \A p \in Requests :
                 /\ requests[p].token \in DOMAIN issued \cup {None}
                 /\ requests[p].fresh \in DOMAIN issued \cup {None}
                 /\ requests[p].phase \in {"find", "rotate", "reread", "user", "adminUser", "revoke"}
                       => requests[p].token # None
                 /\ Browser(p) \in Browsers
           /\ \A b \in Browsers : cookie[b].token \in DOMAIN issued \cup {None}
           /\ None \notin DOMAIN issued
<1>1. \A p \in Requests : Browser(p) \in Browsers
  BY DEF Requests, Browser
<1>2. DOMAIN issued \subseteq Tokens
  BY DEF IInv, TypeOK
<1> QED
  BY <1>1, <1>2, PolicyAssumption DEF IInv, Sound, SoundCookie

\* Hashes tell tokens apart.
LEMMA OneToken ==
    ASSUME IInv, NEW t \in DOMAIN issued, NEW u \in DOMAIN issued, HashOf[t] = HashOf[u]
    PROVE  t = u
BY PolicyAssumption DEF IInv, TypeOK

\* Kept rows keep what a token is.
LEMMA KeptTokens ==
    ASSUME TokenSessions, RowsKept, issued' = issued, disturbed \subseteq disturbed',
           NEW t \in DOMAIN issued
    PROVE  /\ SessionOf(t)' = SessionOf(t)
           /\ Current(t)' <=> Current(t)
           /\ Over(t) => Over(t)'
           /\ RowOf(t)'.previous = RowOf(t).previous
           /\ RowOf(t)'.graceUntil = RowOf(t).graceUntil
           /\ RowOf(t)'.expires = RowOf(t).expires
           /\ RowOf(t).revoked => RowOf(t)'.revoked
           /\ RowOf(t)'.token = RowOf(t).token
<1>1. SessionOf(t)' = SessionOf(t) /\ SessionOf(t) \in DOMAIN sessions
  BY DEF SessionOf, TokenSessions
<1> QED
  BY <1>1 DEF RowsKept, Current, Over, RowOf

\* What a request knows of its session stays true when rows are kept.
LEMMA KeptKnows ==
    ASSUME TokenSessions, RowsKept, issued' = issued, disturbed \subseteq disturbed',
           NEW q \in Requests, requests'[q] = requests[q], Knows(q)
    PROVE  Knows(q)'
<1>1. SUFFICES ASSUME NEW t \in DOMAIN issued, requests'[q].token = t
               PROVE  SessionLocal(requests[q], t)'
  BY DEF Knows
<1>2. SessionLocal(requests[q], t)
  BY <1>1 DEF Knows
<1>3. /\ SessionOf(t)' = SessionOf(t)
      /\ Current(t)' <=> Current(t)
      /\ RowOf(t)'.expires = RowOf(t).expires
      /\ RowOf(t).revoked => RowOf(t)'.revoked
      /\ RowOf(t)'.token = RowOf(t).token
  BY KeptTokens
<1> QED
  BY <1>2, <1>3 DEF SessionLocal, MayRotate

\* The tokens in use stay as good as they were when rows are kept and requests
\* forget a new token only of a session that is over.
LEMMA KeptHeld ==
    ASSUME IInv, HeldInv, RowsKept, UNCHANGED <<cookie, issued>>,
           disturbed \subseteq disturbed',
           \A q \in Requests : Timely(q)' /\ FreshLocal(requests[q])' /\ Knows(q)',
           \A q \in Requests :
              /\ requests'[q].token \in {requests[q].token, cookie[Browser(q)].token, None}
              /\ requests'[q].fresh \in {requests[q].fresh, None}
              /\ requests'[q].fresh # None => requests'[q].checkedAt = requests[q].checkedAt
              /\ requests'[q].fresh # requests[q].fresh
                    => SessionOf(requests[q].fresh) \in disturbed'
    PROVE  HeldInv'
<1>1. None \notin DOMAIN issued /\ \A q \in Requests : Browser(q) \in Browsers
  BY TokenFacts
<1>2. TokenSessions
  BY DEF HeldInv
<1>3. ASSUME NEW q \in Requests PROVE FreshInv(q)'
  <2>1. SUFFICES ASSUME NEW t \in DOMAIN issued, requests'[q].fresh = t
                 PROVE  /\ Current(t)'
                        /\ \A x \in Requests :
                              requests'[x].token # t /\ (requests'[x].fresh = t => x = q)
                        /\ \A b \in Browsers : cookie'[b].token # t
    BY DEF FreshInv
  <2>2. requests[q].fresh = t
    BY <1>1, <2>1
  <2>3. /\ Current(t)
        /\ \A x \in Requests : requests[x].token # t /\ (requests[x].fresh = t => x = q)
        /\ \A b \in Browsers : cookie[b].token # t
    BY <2>2 DEF HeldInv, FreshInv
  <2>4. Current(t)'
    BY <1>2, <2>3, KeptTokens
  <2>5. ASSUME NEW x \in Requests
        PROVE  requests'[x].token # t /\ (requests'[x].fresh = t => x = q)
    BY <1>1, <2>3
  <2> QED
    BY <2>3, <2>4, <2>5
<1>4. ASSUME NEW b \in Browsers PROVE CookieInv(b)'
  <2>1. SUFFICES ASSUME NEW t \in DOMAIN issued, cookie[b].token = t
                 PROVE  \/ Over(t)'
                        \/ Current(t)'
                        \/ /\ RowOf(t)'.previous = HashOf[t]
                           /\ \E q \in Requests : Browser(q) = b /\ ReplacedBy(q, t)'
    BY DEF CookieInv
  <2>2. \/ Over(t)
        \/ Current(t)
        \/ /\ RowOf(t).previous = HashOf[t]
           /\ \E q \in Requests : Browser(q) = b /\ ReplacedBy(q, t)
    BY <2>1 DEF HeldInv, CookieInv
  <2>3. CASE Over(t) \/ Current(t)
    BY <1>2, <2>3, KeptTokens
  <2>4. CASE /\ RowOf(t).previous = HashOf[t]
             /\ \E q \in Requests : Browser(q) = b /\ ReplacedBy(q, t)
    <3>1. PICK q \in Requests : Browser(q) = b /\ ReplacedBy(q, t)
      BY <2>4
    <3>2. PICK u \in DOMAIN issued : requests[q].fresh = u /\ SessionOf(u) = SessionOf(t)
      BY <3>1 DEF ReplacedBy
    <3>3. SessionOf(u)' = SessionOf(u) /\ SessionOf(t)' = SessionOf(t)
      BY <1>2, KeptTokens
    <3>4. CASE requests'[q].fresh = u
      <4>1. requests'[q].checkedAt = requests[q].checkedAt
        BY <1>1, <3>4
      <4>2. /\ RowOf(t)'.previous = HashOf[t]
            /\ RowOf(t)'.graceUntil = RowOf(t).graceUntil
            /\ RowOf(t)'.expires = RowOf(t).expires
        BY <1>2, <2>4, KeptTokens
      <4>3. ReplacedBy(q, t)'
        BY <3>1, <3>2, <3>3, <3>4, <4>1, <4>2 DEF ReplacedBy
      <4> QED
        BY <3>1, <4>2, <4>3
    <3>5. CASE requests'[q].fresh # u
      <4>1. SessionOf(t)' \in disturbed'
        BY <3>2, <3>3, <3>5
      <4> QED
        BY <4>1 DEF Over
    <3> QED
      BY <3>4, <3>5
  <2> QED
    BY <2>2, <2>3, <2>4
<1>5. ASSUME NEW b \in Browsers, NEW t \in DOMAIN issued, Holds(b, t)'
      PROVE  Holds(b, t)
  <2>1. CASE cookie'[b].token = t
    BY <2>1 DEF Holds
  <2>2. CASE \E p \in Requests :
               Browser(p) = b /\ (requests'[p].token = t \/ requests'[p].fresh = t)
    BY <1>1, <2>2 DEF Holds
  <2> QED
    BY <1>5, <2>1, <2>2 DEF Holds
<1>6. Apart'
  <2>1. SUFFICES ASSUME NEW b \in Browsers, NEW c \in Browsers,
                        NEW t \in DOMAIN issued, NEW u \in DOMAIN issued,
                        Holds(b, t)', Holds(c, u)', SessionOf(t)' = SessionOf(u)'
                 PROVE  b = c
    BY DEF Apart
  <2>2. SessionOf(t) = SessionOf(u)
    BY <2>1 DEF SessionOf
  <2> QED
    BY <1>5, <2>1, <2>2 DEF HeldInv, Apart
<1>7. TokenSessions'
  BY <1>2 DEF TokenSessions, RowsKept, SessionOf
<1>8. PreviousInv'
  BY DEF HeldInv, PreviousInv, RowsKept, SessionOf
<1> QED
  BY <1>3, <1>4, <1>6, <1>7, <1>8 DEF HeldInv

\* One request goes on: it presents the token it had or the cookie of its
\* browser, and its new token stays with it or its session is over.
LEMMA LocalHeld ==
    ASSUME IInv, HeldInv, NEW p \in Requests,
           \A q \in Requests \ {p} : requests'[q] = requests[q],
           RowsKept, UNCHANGED <<now, cookie, issued>>, disturbed \subseteq disturbed',
           Timely(p)', FreshLocal(requests[p])', Knows(p)',
           requests'[p].token \in {requests[p].token, cookie[Browser(p)].token, None},
           requests'[p].fresh \in {requests[p].fresh, None},
           requests'[p].fresh # requests[p].fresh
              => SessionOf(requests[p].fresh) \in disturbed',
           requests'[p].fresh # None => requests'[p].checkedAt = requests[p].checkedAt
    PROVE  HeldInv'
<1>1. ASSUME NEW q \in Requests PROVE Timely(q)' /\ FreshLocal(requests[q])' /\ Knows(q)'
  <2>1. CASE q = p
    BY <2>1
  <2>2. CASE q # p
    <3>1. requests'[q] = requests[q]
      BY <2>2
    <3>2. Timely(q) /\ FreshLocal(requests[q]) /\ Knows(q) /\ TokenSessions
      BY DEF HeldInv
    <3>3. Timely(q)' /\ FreshLocal(requests[q])'
      BY <3>1, <3>2 DEF Timely, FreshLocal
    <3> QED
      BY <3>1, <3>2, <3>3, KeptKnows
  <2> QED
    BY <2>1, <2>2
<1>2. ASSUME NEW q \in Requests
      PROVE  /\ requests'[q].token \in {requests[q].token, cookie[Browser(q)].token, None}
             /\ requests'[q].fresh \in {requests[q].fresh, None}
             /\ requests'[q].fresh # None => requests'[q].checkedAt = requests[q].checkedAt
             /\ requests'[q].fresh # requests[q].fresh
                   => SessionOf(requests[q].fresh) \in disturbed'
  <2>1. CASE q = p
    BY <2>1
  <2>2. CASE q # p
    BY <2>2
  <2> QED
    BY <2>1, <2>2
<1> QED
  BY <1>1, <1>2, KeptHeld

\* Nothing happens to requests and cookies but the passing of time.
LEMMA OutsideHeld ==
    ASSUME IInv, HeldInv, RowsKept, UNCHANGED <<requests, cookie, issued, disturbed>>,
           \A q \in Requests : Timely(q)'
    PROVE  HeldInv'
<1>1. ASSUME NEW q \in Requests PROVE Timely(q)' /\ FreshLocal(requests[q])' /\ Knows(q)'
  <2>1. FreshLocal(requests[q]) /\ Knows(q) /\ TokenSessions
    BY DEF HeldInv
  <2>2. FreshLocal(requests[q])'
    BY <2>1 DEF FreshLocal
  <2> QED
    BY <2>1, <2>2, KeptKnows
<1> QED
  BY <1>1, KeptHeld


\* One request goes to r.
LEMMA Went ==
    ASSUME IInv, NEW p \in Requests, NEW r, Goto(p, r)
    PROVE  requests'[p] = r /\ \A q \in Requests \ {p} : requests'[q] = requests[q]
BY DEF Goto, IInv, TypeOK

\* A request goes on with the tokens and the times it has.
LEMMA GoesOn ==
    ASSUME IInv, HeldInv, NEW p \in Requests,
           \A q \in Requests \ {p} : requests'[q] = requests[q],
           RowsKept, UNCHANGED <<now, cookie, issued>>, disturbed \subseteq disturbed',
           requests[p].phase \notin {"idle", "sent"},
           requests'[p].phase \notin {"idle", "sent"},
           requests'[p].token = requests[p].token,
           requests'[p].fresh = requests[p].fresh,
           requests'[p].sentAt = requests[p].sentAt,
           requests'[p].checkedAt = requests[p].checkedAt,
           requests'[p].reply \in {requests[p].reply, "expire"},
           requests'[p].phase \in {"verify", "create", "find", "rotate", "reread"}
              => requests[p].fresh = None,
           \A t \in DOMAIN issued :
              requests[p].token = t => SessionLocal(requests[p], t)'
    PROVE  HeldInv'
<1>1. Timely(p) /\ FreshLocal(requests[p])
  BY DEF HeldInv
<1>2. Timely(p)'
  BY <1>1 DEF Timely
<1>3. FreshLocal(requests[p])'
  BY <1>1 DEF FreshLocal
<1>4. Knows(p)'
  BY DEF Knows
<1> QED
  BY <1>2, <1>3, <1>4, LocalHeld

\* Rows that do not change are kept.
LEMMA SameRows ==
    ASSUME sessions' = sessions
    PROVE  RowsKept
BY DEF RowsKept

\* A request that answers has nothing left to know.
LEMMA AnswersHeld ==
    ASSUME IInv, HeldInv, NEW p \in Requests,
           \A q \in Requests \ {p} : requests'[q] = requests[q],
           RowsKept, UNCHANGED <<now, cookie, issued>>, disturbed \subseteq disturbed',
           requests[p].phase \notin {"idle", "sent"},
           \/ requests'[p] = [requests[p] EXCEPT !.phase = "answered"]
           \/ requests'[p] = [requests[p] EXCEPT !.phase = "answered", !.reply = "expire"]
    PROVE  HeldInv'
<1>1. requests[p] \in RequestRecord
  BY RequestTypes
<1>2. /\ requests'[p].phase = "answered"
      /\ requests'[p].token = requests[p].token
      /\ requests'[p].fresh = requests[p].fresh
      /\ requests'[p].sentAt = requests[p].sentAt
      /\ requests'[p].checkedAt = requests[p].checkedAt
      /\ requests'[p].reply \in {requests[p].reply, "expire"}
  BY <1>1 DEF RequestRecord
<1>3. \A t \in DOMAIN issued : SessionLocal(requests[p], t)'
  BY <1>2 DEF SessionLocal
<1> QED
  BY <1>2, <1>3, GoesOn

\* Sending: the cookie of the browser is presented.
LEMMA SendHeld ==
    ASSUME IInv, HeldInv, NEW p \in Requests, NEW kind \in Kinds, Send(p, kind)
    PROVE  HeldInv'
<1> DEFINE r == [Idle EXCEPT !.phase = "sent", !.kind = kind, !.sentAt = now,
                             !.token = IF kind = "login" THEN None
                                       ELSE cookie[Browser(p)].token]
<1>1. requests'[p] = r /\ \A q \in Requests \ {p} : requests'[q] = requests[q]
  BY Went DEF Send
<1>2. /\ r.phase = "sent" /\ r.sentAt = now /\ r.fresh = None
      /\ r.token \in {cookie[Browser(p)].token, None}
  BY DEF Idle
<1> HIDE DEF r
<1>3. UNCHANGED <<now, sessions, cookie, issued, disturbed>> /\ requests[p].phase = "idle"
  BY DEF Send, Phase
<1>4. now \in Nat /\ RoundTrip \in Nat
  BY PolicyAssumption DEF IInv, TypeOK
<1>5. Timely(p)'
  BY <1>1, <1>2, <1>3, <1>4 DEF Timely
<1>6. FreshLocal(requests[p])' /\ Knows(p)'
  BY <1>1, <1>2 DEF FreshLocal, Knows, SessionLocal
<1>7. requests[p].fresh = None
  BY <1>3 DEF HeldInv, FreshLocal
<1> QED
  BY <1>1, <1>2, <1>3, <1>5, <1>6, <1>7, SameRows, LocalHeld

\* Reading the clock.
LEMMA ReceiveHeld ==
    ASSUME IInv, HeldInv, NEW p \in Requests, Receive(p)
    PROVE  HeldInv'
<1> DEFINE ph == IF requests[p].kind = "login" THEN "verify" ELSE "find"
           r == [requests[p] EXCEPT !.phase = ph, !.checkedAt = now]
<1>1. requests'[p] = r /\ \A q \in Requests \ {p} : requests'[q] = requests[q]
  BY Went DEF Receive
<1>2. requests[p] \in RequestRecord /\ now \in Nat
  BY RequestTypes DEF IInv, TypeOK
<1>3. ph \in {"verify", "find"}
  OBVIOUS
<1> HIDE DEF ph
<1>4. /\ r.phase = ph /\ r.sentAt = requests[p].sentAt /\ r.checkedAt = now
      /\ r.fresh = requests[p].fresh /\ r.token = requests[p].token
  BY <1>2 DEF RequestRecord
<1> HIDE DEF r
<1>5. UNCHANGED <<now, sessions, cookie, issued, disturbed>> /\ requests[p].phase = "sent"
  BY DEF Receive, Phase
<1>6. Timely(p) /\ FreshLocal(requests[p])
  BY DEF HeldInv
<1>7. requests[p].fresh = None
  BY <1>5, <1>6 DEF FreshLocal
<1>8. Timely(p)'
  BY <1>1, <1>2, <1>4, <1>5, <1>6 DEF Timely
<1>9. FreshLocal(requests[p])' /\ Knows(p)'
  BY <1>1, <1>3, <1>4, <1>7 DEF FreshLocal, Knows, SessionLocal
<1> QED
  BY <1>1, <1>4, <1>5, <1>7, <1>8, <1>9, SameRows, LocalHeld

\* Checking the password of a login.
LEMMA VerifyPasswordHeld ==
    ASSUME IInv, HeldInv, NEW p \in Requests, NEW u \in Users, VerifyPassword(p, u)
    PROVE  HeldInv'
<1>1. /\ UNCHANGED <<now, sessions, cookie, issued, disturbed>>
      /\ requests[p].phase = "verify"
  BY DEF VerifyPassword, Phase
<1>2. CASE Goto(p, [requests[p] EXCEPT !.phase = "answered"])
  BY <1>1, <1>2, Went, SameRows, AnswersHeld
<1>3. CASE Goto(p, [requests[p] EXCEPT !.phase = "create", !.user = u])
  <2> DEFINE r == [requests[p] EXCEPT !.phase = "create", !.user = u]
  <2>1. requests[p] \in RequestRecord
    BY RequestTypes
  <2>2. /\ r.phase = "create" /\ r.token = requests[p].token /\ r.fresh = requests[p].fresh
        /\ r.sentAt = requests[p].sentAt /\ r.checkedAt = requests[p].checkedAt
        /\ r.reply = requests[p].reply
    BY <2>1 DEF RequestRecord
  <2>3. requests'[p] = r /\ \A q \in Requests \ {p} : requests'[q] = requests[q]
    BY <1>3, Went
  <2> HIDE DEF r
  <2>4. requests[p].fresh = None
    BY <1>1 DEF HeldInv, FreshLocal
  <2>5. \A t \in DOMAIN issued : SessionLocal(requests[p], t)'
    BY <2>2, <2>3 DEF SessionLocal
  <2> QED
    BY <1>1, <2>2, <2>3, <2>4, <2>5, SameRows, GoesOn
<1> QED
  BY <1>2, <1>3 DEF VerifyPassword

\* A token that resolves is a token of the session it resolves to.
LEMMA TokenOfRow ==
    ASSUME IInv, PreviousInv, NEW s \in DOMAIN sessions, NEW t \in DOMAIN issued,
           sessions[s].token = HashOf[t] \/ sessions[s].previous = HashOf[t]
    PROVE  SessionOf(t) = s
<1>1. CASE sessions[s].token = HashOf[t]
  <2>1. PICK w \in DOMAIN issued : sessions[s].token = HashOf[w] /\ issued[w].session = s
    BY DEF IInv, Latest
  <2> QED
    BY <1>1, <2>1, OneToken DEF SessionOf
<1>2. CASE sessions[s].previous = HashOf[t]
  <2>1. HashOf[t] # None
    BY PolicyAssumption DEF IInv, TypeOK
  <2>2. PICK w \in DOMAIN issued : SessionOf(w) = s /\ HashOf[w] = sessions[s].previous
    BY <1>2, <2>1 DEF PreviousInv
  <2> QED
    BY <1>2, <2>2, OneToken
<1> QED
  BY <1>1, <1>2

\* Finding the session: its id is the one of the token.
LEMMA FindHeld ==
    ASSUME IInv, HeldInv, NEW p \in Requests, NEW s \in SessionIds, Find(p, s)
    PROVE  HeldInv'
<1> DEFINE ph == IF /\ sessions[s].token = HashOf[requests[p].token]
                    /\ sessions[s].expires - requests[p].checkedAt <= RenewalWindow
                 THEN "rotate" ELSE "user"
           r == [requests[p] EXCEPT !.session = s, !.phase = ph]
<1>1. requests'[p] = r /\ \A q \in Requests \ {p} : requests'[q] = requests[q]
  BY Went DEF Find
<1>2. requests[p] \in RequestRecord /\ requests[p].phase = "find"
  BY RequestTypes DEF Find, Phase
<1>3. ph \in {"rotate", "user"}
  OBVIOUS
<1>4. UNCHANGED <<now, sessions, cookie, issued, disturbed>>
  BY DEF Find
<1>5. ph = "rotate" => sessions[s].expires - requests[p].checkedAt <= RenewalWindow
  OBVIOUS
<1> HIDE DEF ph
<1>6. /\ r.phase = ph /\ r.session = s /\ r.token = requests[p].token
      /\ r.fresh = requests[p].fresh /\ r.sentAt = requests[p].sentAt
      /\ r.checkedAt = requests[p].checkedAt /\ r.reply = requests[p].reply
  BY <1>2 DEF RequestRecord
<1> HIDE DEF r
<1>7. requests[p].fresh = None
  BY <1>2 DEF HeldInv, FreshLocal
<1>8. ASSUME NEW t \in DOMAIN issued, requests[p].token = t
      PROVE  SessionLocal(requests[p], t)'
  <2>1. s \in DOMAIN sessions /\ Resolves(sessions[s], HashOf[t], requests[p].checkedAt)
    BY <1>8 DEF Find, Found
  <2>2. SessionOf(t) = s
    BY <2>1, TokenOfRow DEF Resolves, HeldInv
  <2>3. SessionOf(t)' = s /\ RowOf(t)' = sessions[s]
    BY <1>4, <2>2 DEF RowOf, SessionOf
  <2> QED
    BY <1>1, <1>3, <1>4, <1>5, <1>6, <2>3 DEF SessionLocal
<1> QED
  BY <1>1, <1>2, <1>3, <1>4, <1>6, <1>7, <1>8, SameRows, GoesOn

\* A request in one of the last phases goes to another one with everything
\* else it has.
LEMMA PhaseHeld ==
    ASSUME IInv, HeldInv, NEW p \in Requests, NEW ph,
           Goto(p, [requests[p] EXCEPT !.phase = ph]),
           UNCHANGED <<now, sessions, cookie, issued, disturbed>>,
           requests[p].phase \in {"rotate", "reread", "user", "adminUser"},
           \/ ph \in {"user", "adminUser", "revoke"}
           \/ /\ ph = "reread" /\ requests[p].phase = "rotate"
              /\ ~MayRotate(sessions[requests[p].session], HashOf[requests[p].token],
                            requests[p].checkedAt)
    PROVE  HeldInv'
<1> DEFINE r == [requests[p] EXCEPT !.phase = ph]
<1>1. requests'[p] = r /\ \A q \in Requests \ {p} : requests'[q] = requests[q]
  BY Went
<1>2. requests[p] \in RequestRecord
  BY RequestTypes
<1>3. /\ r.phase = ph /\ r.session = requests[p].session /\ r.token = requests[p].token
      /\ r.fresh = requests[p].fresh /\ r.sentAt = requests[p].sentAt
      /\ r.checkedAt = requests[p].checkedAt /\ r.reply = requests[p].reply
  BY <1>2 DEF RequestRecord
<1> HIDE DEF r
<1>4. ph = "reread" => requests[p].fresh = None
  BY DEF HeldInv, FreshLocal
<1>5. ASSUME NEW t \in DOMAIN issued, requests[p].token = t
      PROVE  SessionLocal(requests[p], t)'
  <2>1. SessionLocal(requests[p], t)
    BY <1>5 DEF HeldInv, Knows
  <2>2. requests[p].session = SessionOf(t)
    BY <2>1 DEF SessionLocal
  <2>3. SessionOf(t)' = SessionOf(t) /\ RowOf(t)' = sessions[requests[p].session]
    BY <2>2 DEF RowOf, SessionOf
  <2> QED
    BY <1>1, <1>3, <1>5, <2>2, <2>3 DEF SessionLocal
<1> QED
  BY <1>1, <1>3, <1>4, <1>5, SameRows, GoesOn


\* Losing the rotation, looking again, and checking the account.
LEMMA ResolutionHeld ==
    ASSUME IInv, HeldInv, NEW p \in Requests,
           FindMissing(p) \/ RotateLoses(p) \/ Reread(p) \/ CheckUser(p)
    PROVE  HeldInv'
<1>1. /\ UNCHANGED <<now, sessions, cookie, issued, disturbed>>
      /\ requests[p].phase \in {"find", "rotate", "reread", "user", "adminUser"}
  BY DEF FindMissing, RotateLoses, Reread, CheckUser, Phase
<1>2. CASE Refuse(p) \/ Goto(p, [requests[p] EXCEPT !.phase = "answered"])
  BY <1>1, <1>2, Went, SameRows, AnswersHeld DEF Refuse
<1>3. CASE RotateLoses(p)
  <2>1. requests[p].phase = "rotate"
    BY <1>3 DEF RotateLoses, Phase
  <2> QED
    BY <1>1, <1>3, <2>1, PhaseHeld DEF RotateLoses
<1>4. ASSUME NEW ph \in {"user", "adminUser", "revoke"}, requests[p].phase # "find",
             Goto(p, [requests[p] EXCEPT !.phase = ph])
      PROVE  HeldInv'
  BY <1>1, <1>4, PhaseHeld
<1>5. CASE Reread(p)
  BY <1>2, <1>4, <1>5 DEF Reread, Phase
<1>6. CASE CheckUser(p)
  BY <1>2, <1>4, <1>6 DEF CheckUser, Served, Phase
<1> QED
  BY <1>2, <1>3, <1>5, <1>6 DEF FindMissing

\* A statement fails.
LEMMA FailHeld ==
    ASSUME IInv, HeldInv, NEW p \in Requests, Fail(p)
    PROVE  HeldInv'
<1>1. /\ UNCHANGED <<now, sessions, cookie, issued>> /\ disturbed \subseteq disturbed'
      /\ requests[p].phase \notin {"idle", "sent"}
  BY DEF Fail, Phase
<1>2. Refuse(p) \/ Goto(p, [requests[p] EXCEPT !.phase = "answered"])
  BY DEF Fail
<1> QED
  BY <1>1, <1>2, Went, SameRows, AnswersHeld DEF Refuse

\* Revoking a session keeps its row otherwise.
LEMMA RevokeHeld ==
    ASSUME IInv, HeldInv, NEW p \in Requests, Revoke(p)
    PROVE  HeldInv'
<1>1. /\ UNCHANGED <<now, cookie, issued, disturbed>>
      /\ requests[p].phase \notin {"idle", "sent"}
  BY DEF Revoke, Phase
<1>2. sessions' = [sessions EXCEPT ![requests[p].session].revoked = TRUE]
  BY DEF Revoke
<1>3. \A s \in DOMAIN sessions : sessions[s] \in Row
  BY DEF IInv, TypeOK
<1>4. RowsKept
  BY <1>2, <1>3 DEF RowsKept, Row
<1> QED
  BY <1>1, <1>4, Went, AnswersHeld DEF Revoke, Refuse

\* A request's new token is one of those its end disturbs.
LEMMA FreshDisturbs ==
    ASSUME IInv, NEW p \in Requests, requests[p].fresh # None
    PROVE  SessionOf(requests[p].fresh) \in Disturbs(p)
BY DEF Disturbs

\* The account cannot be shown: the new token does not leave the server.
LEMMA ViewFailsHeld ==
    ASSUME IInv, HeldInv, NEW p \in Requests, ViewFails(p)
    PROVE  HeldInv'
<1> DEFINE r == [requests[p] EXCEPT !.phase = "answered", !.fresh = None, !.reply = "keep"]
<1>1. requests'[p] = r /\ \A q \in Requests \ {p} : requests'[q] = requests[q]
  BY Went DEF ViewFails
<1>2. requests[p] \in RequestRecord /\ requests[p].phase = "user"
  BY RequestTypes DEF ViewFails, Phase
<1>3. /\ r.phase = "answered" /\ r.fresh = None /\ r.token = requests[p].token
      /\ r.sentAt = requests[p].sentAt /\ r.checkedAt = requests[p].checkedAt
  BY <1>2 DEF RequestRecord
<1> HIDE DEF r
<1>4. /\ UNCHANGED <<now, sessions, cookie, issued>>
      /\ disturbed' = disturbed \cup Disturbs(p)
  BY DEF ViewFails
<1>5. Timely(p)'
  BY <1>1, <1>2, <1>3, <1>4 DEF HeldInv, Timely
<1>6. FreshLocal(requests[p])' /\ Knows(p)'
  BY <1>1, <1>3 DEF FreshLocal, Knows, SessionLocal
<1>7. requests'[p].fresh # requests[p].fresh => SessionOf(requests[p].fresh) \in disturbed'
  BY <1>1, <1>3, <1>4, FreshDisturbs
<1> QED
  BY <1>1, <1>3, <1>4, <1>5, <1>6, <1>7, SameRows, LocalHeld

\* The request is lost, and its new token with it.
LEMMA LoseHeld ==
    ASSUME IInv, HeldInv, NEW p \in Requests, Lose(p)
    PROVE  HeldInv'
<1>1. requests'[p] = Idle /\ \A q \in Requests \ {p} : requests'[q] = requests[q]
  BY Went DEF Lose
<1>2. Idle.phase = "idle" /\ Idle.token = None /\ Idle.fresh = None
  BY DEF Idle
<1>3. /\ UNCHANGED <<now, sessions, cookie, issued>> /\ disturbed \subseteq disturbed'
      /\ requests[p].fresh # None => disturbed' = disturbed \cup Disturbs(p)
  BY DEF Lose
<1>4. Timely(p)' /\ FreshLocal(requests[p])' /\ Knows(p)'
  BY <1>1, <1>2 DEF Timely, FreshLocal, Knows, SessionLocal
<1>5. requests'[p].fresh # requests[p].fresh => SessionOf(requests[p].fresh) \in disturbed'
  BY <1>1, <1>2, <1>3, FreshDisturbs
<1> QED
  BY <1>1, <1>2, <1>3, <1>4, <1>5, SameRows, LocalHeld

\* A password reset, a change of status, and the clock.
LEMMA EnvironmentHeld ==
    ASSUME IInv, HeldInv,
           \/ UNCHANGED vars
           \/ \E u \in Users : RevokeAll(u) \/ SetStatus(u)
           \/ Tick
    PROVE  HeldInv'
<1>1. UNCHANGED <<requests, cookie, issued, disturbed>>
  BY DEF vars, RevokeAll, SetStatus, Tick
<1>2. \A s \in DOMAIN sessions : sessions[s] \in Row
  BY DEF IInv, TypeOK
<1>3. RowsKept
  <2>1. CASE UNCHANGED sessions
    BY <2>1, SameRows
  <2>2. ASSUME NEW u \in Users, RevokeAll(u) PROVE RowsKept
    BY <1>2, <2>2 DEF RevokeAll, RowsKept, Row
  <2> QED
    BY <2>1, <2>2 DEF vars, SetStatus, Tick
<1>4. ASSUME NEW q \in Requests PROVE Timely(q)'
  <2>1. Timely(q) /\ requests[q] \in RequestRecord /\ now \in Nat
    BY RequestTypes DEF HeldInv, IInv, TypeOK
  <2>2. CASE UNCHANGED now
    BY <1>1, <2>1, <2>2 DEF Timely
  <2>3. CASE Tick
    <3>1. requests[q].phase # "idle" => now < requests[q].sentAt + RoundTrip
      BY <2>3 DEF Tick, InFlight, Phase
    <3>2. now' = now + 1
      BY <2>3 DEF Tick
    <3>3. requests[q].sentAt \in Nat /\ requests[q].checkedAt \in Nat /\ RoundTrip \in Nat
      BY <2>1, PolicyAssumption DEF RequestRecord
    <3> QED
      BY <1>1, <2>1, <3>1, <3>2, <3>3 DEF Timely
  <2> QED
    BY <2>2, <2>3 DEF vars, RevokeAll, SetStatus, Tick
<1> QED
  BY <1>1, <1>3, <1>4, OutsideHeld


-----------------------------------------------------------------------------
(* Steps that change a cookie or mint a token                              *)

\* The answer reaches its browser: the cookie becomes the new token, or none,
\* or stays because there was no new token.
LEMMA DeliverHeld ==
    ASSUME IInv, HeldInv, NEW p \in Requests, Deliver(p)
    PROVE  HeldInv'
<1> DEFINE b == Browser(p)
<1>1. requests'[p] = Idle /\ \A q \in Requests \ {p} : requests'[q] = requests[q]
  BY Went DEF Deliver
<1>2. Idle.phase = "idle" /\ Idle.token = None /\ Idle.fresh = None
  BY DEF Idle
<1>3. UNCHANGED <<now, sessions, issued, disturbed>>
  BY DEF Deliver
<1>4. TokenSessions /\ PreviousInv
  BY DEF HeldInv
<1>5. /\ b \in Browsers /\ None \notin DOMAIN issued
      /\ \A q \in Requests : requests[q].fresh \in DOMAIN issued \cup {None}
  BY TokenFacts
<1>6. /\ \A c \in Browsers \ {b} : cookie'[c] = cookie[c]
      /\ \/ cookie'[b].token = requests[p].fresh
         \/ cookie'[b].token = None
         \/ cookie'[b].token = cookie[b].token /\ requests[p].fresh = None
  <2>1. cookie \in [Browsers -> [token: Tokens \cup {None}, until: Nat]]
    BY DEF IInv, TypeOK
  <2>2. requests[p].reply \in {"keep", "set", "expire"}
    BY RequestTypes DEF RequestRecord
  <2>3. requests[p].reply = "keep" => requests[p].fresh = None
    BY DEF HeldInv, FreshLocal
  <2>4. CASE requests[p].reply = "keep"
    <3>1. cookie' = [cookie EXCEPT ![b] = cookie[b]]
      BY <2>4 DEF Deliver
    <3> QED
      BY <1>5, <2>1, <2>3, <2>4, <3>1
  <2>5. CASE requests[p].reply = "set"
    <3>1. cookie' = [cookie EXCEPT ![b] = [token |-> requests[p].fresh,
                                           until |-> requests[p].checkedAt + Ttl]]
      BY <2>5 DEF Deliver
    <3> QED
      BY <1>5, <2>1, <3>1
  <2>6. CASE requests[p].reply = "expire"
    <3>1. cookie' = [cookie EXCEPT ![b] = NoCookie]
      BY <2>6 DEF Deliver
    <3> QED
      BY <1>5, <2>1, <3>1 DEF NoCookie
  <2> QED
    BY <2>2, <2>4, <2>5, <2>6
<1> HIDE DEF b
<1>7. ASSUME NEW t \in DOMAIN issued
      PROVE  /\ SessionOf(t)' = SessionOf(t) /\ RowOf(t)' = RowOf(t)
             /\ Current(t)' <=> Current(t)
             /\ Over(t)' <=> Over(t)
  BY <1>3 DEF SessionOf, RowOf, Current, Over
<1>8. ASSUME NEW q \in Requests PROVE Timely(q)' /\ FreshLocal(requests[q])' /\ Knows(q)'
  <2>1. CASE q = p
    BY <1>1, <1>2, <2>1 DEF Timely, FreshLocal, Knows, SessionLocal
  <2>2. CASE q # p
    <3>1. requests'[q] = requests[q]
      BY <1>1, <2>2
    <3>2. Timely(q) /\ FreshLocal(requests[q]) /\ Knows(q)
      BY DEF HeldInv
    <3>3. Timely(q)' /\ FreshLocal(requests[q])'
      BY <1>3, <3>1, <3>2 DEF Timely, FreshLocal
    <3> QED
      BY <1>3, <1>4, <3>1, <3>2, <3>3, SameRows, KeptKnows
  <2> QED
    BY <2>1, <2>2
<1>9. ASSUME NEW q \in Requests PROVE FreshInv(q)'
  <2>1. SUFFICES ASSUME NEW t \in DOMAIN issued, requests'[q].fresh = t
                 PROVE  /\ Current(t)'
                        /\ \A x \in Requests :
                              requests'[x].token # t /\ (requests'[x].fresh = t => x = q)
                        /\ \A c \in Browsers : cookie'[c].token # t
    BY <1>3 DEF FreshInv
  <2>2. q # p /\ requests[q].fresh = t
    BY <1>1, <1>2, <1>5, <2>1
  <2>3. /\ Current(t)
        /\ \A x \in Requests : requests[x].token # t /\ (requests[x].fresh = t => x = q)
        /\ \A c \in Browsers : cookie[c].token # t
    BY <2>2 DEF HeldInv, FreshInv
  <2>4. \A x \in Requests : requests'[x].token # t /\ (requests'[x].fresh = t => x = q)
    BY <1>1, <1>2, <1>5, <2>3
  <2>5. requests[p].fresh # t
    BY <2>2, <2>3
  <2>6. \A c \in Browsers : cookie'[c].token # t
    BY <1>5, <1>6, <2>3, <2>5
  <2> QED
    BY <1>7, <2>3, <2>4, <2>6
<1>10. ASSUME NEW c \in Browsers PROVE CookieInv(c)'
  <2>1. SUFFICES ASSUME NEW t \in DOMAIN issued, cookie'[c].token = t
                 PROVE  \/ Over(t)'
                        \/ Current(t)'
                        \/ /\ RowOf(t)'.previous = HashOf[t]
                           /\ \E q \in Requests : Browser(q) = c /\ ReplacedBy(q, t)'
    BY <1>3 DEF CookieInv
  <2>2. CASE c = b /\ requests[p].fresh = t
    <3>1. Current(t)
      BY <2>2 DEF HeldInv, FreshInv
    <3> QED
      BY <1>7, <3>1
  <2>3. CASE cookie[c].token = t /\ (c = b => requests[p].fresh = None)
    <3>1. \/ Over(t)
          \/ Current(t)
          \/ /\ RowOf(t).previous = HashOf[t]
             /\ \E q \in Requests : Browser(q) = c /\ ReplacedBy(q, t)
      BY <2>3 DEF HeldInv, CookieInv
    <3>2. ASSUME NEW q \in Requests, Browser(q) = c, ReplacedBy(q, t)
          PROVE  ReplacedBy(q, t)'
      <4>1. PICK u \in DOMAIN issued : requests[q].fresh = u /\ SessionOf(u) = SessionOf(t)
        BY <3>2 DEF ReplacedBy
      <4>2. q # p
        BY <1>5, <2>3, <3>2, <4>1 DEF b
      <4>3. requests'[q] = requests[q]
        BY <1>1, <4>2
      <4>4. SessionOf(u)' = SessionOf(t)'
        BY <1>7, <4>1
      <4>5. u \in DOMAIN issued'
        BY <1>3
      <4> QED
        BY <1>7, <3>2, <4>1, <4>3, <4>4, <4>5 DEF ReplacedBy
    <3> QED
      BY <1>7, <3>1, <3>2
  <2> QED
    BY <1>5, <1>6, <2>1, <2>2, <2>3
<1>11. ASSUME NEW c \in Browsers, NEW t \in DOMAIN issued, Holds(c, t)'
       PROVE  Holds(c, t)
  <2>1. CASE cookie'[c].token = t
    BY <1>5, <1>6, <2>1 DEF Holds, b
  <2>2. CASE \E q \in Requests :
               Browser(q) = c /\ (requests'[q].token = t \/ requests'[q].fresh = t)
    BY <1>1, <1>2, <1>5, <2>2 DEF Holds
  <2> QED
    BY <1>11, <2>1, <2>2 DEF Holds
<1>12. Apart'
  <2>1. SUFFICES ASSUME NEW c \in Browsers, NEW d \in Browsers,
                        NEW t \in DOMAIN issued, NEW u \in DOMAIN issued,
                        Holds(c, t)', Holds(d, u)', SessionOf(t)' = SessionOf(u)'
                 PROVE  c = d
    BY <1>3 DEF Apart
  <2> QED
    BY <1>7, <1>11, <2>1 DEF HeldInv, Apart
<1>13. TokenSessions' /\ PreviousInv'
  BY <1>3, <1>4 DEF TokenSessions, PreviousInv, SessionOf
<1> QED
  BY <1>8, <1>9, <1>10, <1>12, <1>13 DEF HeldInv

\* What a login and a rotation have in common: request p brings its browser
\* the new token t of session s, which is new or that of the token it presents.
MintedBy(p, s, t) ==
    /\ t \in Unminted
    /\ DOMAIN issued' = DOMAIN issued \cup {t}
    /\ issued'[t].session = s
    /\ \A u \in DOMAIN issued : issued'[u] = issued[u]
    /\ requests'[p].fresh = t
    /\ requests'[p].token = requests[p].token
    /\ requests'[p].phase \in {"user", "answered"}
    /\ requests'[p].reply = "set"
    /\ requests'[p].session = s
    /\ requests[p].phase \in {"create", "rotate"}
    /\ \A q \in Requests \ {p} : requests'[q] = requests[q]
    /\ DOMAIN sessions' = DOMAIN sessions \cup {s}
    /\ \A i \in DOMAIN sessions \ {s} : sessions'[i] = sessions[i]
    /\ sessions'[s].token = HashOf[t]
    /\ UNCHANGED <<now, cookie, disturbed>>

\* Session s is new, or that of the token p presents, which p replaces.
Follows(p, s) ==
    \/ s \notin DOMAIN sessions /\ sessions'[s].previous = None
       /\ requests'[p].phase = "answered"
    \/ \E tok \in DOMAIN issued :
          /\ requests[p].token = tok
          /\ SessionOf(tok) = s
          /\ Current(tok)
          /\ ~RowOf(tok).revoked
          /\ sessions'[s].previous = HashOf[tok]
          /\ sessions'[s].graceUntil = requests'[p].checkedAt + RotationGrace
          /\ sessions'[s].expires = requests'[p].checkedAt + Ttl


\* Tokens of other sessions are what they were.
LEMMA MintedElsewhere ==
    ASSUME IInv, HeldInv, NEW p \in Requests, NEW s, NEW t, MintedBy(p, s, t),
           NEW u \in DOMAIN issued
    PROVE  /\ SessionOf(u)' = SessionOf(u)
           /\ SessionOf(t)' = s
           /\ u # t
           /\ SessionOf(u) # s =>
                 /\ RowOf(u)' = RowOf(u)
                 /\ Current(u)' <=> Current(u)
                 /\ Over(u)' <=> Over(u)
           /\ SessionOf(u) \in DOMAIN sessions
<1>1. SessionOf(u)' = SessionOf(u) /\ SessionOf(t)' = s /\ SessionOf(u) \in DOMAIN sessions
  BY DEF MintedBy, SessionOf, HeldInv, TokenSessions
<1>2. u # t
  BY DEF MintedBy, Unminted
<1> QED
  BY <1>1, <1>2 DEF MintedBy, RowOf, Current, Over

\* No other request has a new token of the session: it would be the token p
\* presents.
LEMMA NoOtherFresh ==
    ASSUME IInv, HeldInv, NEW p \in Requests, NEW s, Follows(p, s),
           NEW q \in Requests, NEW u \in DOMAIN issued, requests[q].fresh = u
    PROVE  SessionOf(u) # s
<1>1. SUFFICES ASSUME SessionOf(u) = s PROVE FALSE
  OBVIOUS
<1>2. /\ Current(u)
      /\ requests[p].token # u
      /\ s \in DOMAIN sessions
  BY <1>1 DEF HeldInv, FreshInv, TokenSessions
<1>3. PICK tok \in DOMAIN issued :
          requests[p].token = tok /\ SessionOf(tok) = s /\ Current(tok)
  BY <1>2 DEF Follows
<1>4. HashOf[tok] = HashOf[u]
  BY <1>1, <1>2, <1>3 DEF Current, RowOf
<1> QED
  BY <1>2, <1>3, <1>4, OneToken

LEMMA MintedFresh ==
    ASSUME IInv, HeldInv, NEW p \in Requests, NEW s, NEW t, MintedBy(p, s, t),
           Follows(p, s), NEW q \in Requests
    PROVE  FreshInv(q)'
<1>1. /\ None \notin DOMAIN issued /\ DOMAIN issued \subseteq Tokens
      /\ \A x \in Requests : /\ requests[x].token \in DOMAIN issued \cup {None}
                             /\ requests[x].fresh \in DOMAIN issued \cup {None}
      /\ \A b \in Browsers : cookie[b].token \in DOMAIN issued \cup {None}
  BY TokenFacts DEF IInv, TypeOK
<1>2. t \notin DOMAIN issued /\ t # None
  BY PolicyAssumption DEF MintedBy, Unminted
<1>3. SUFFICES ASSUME NEW u \in DOMAIN issued', requests'[q].fresh = u
               PROVE  /\ Current(u)'
                      /\ \A x \in Requests :
                            requests'[x].token # u /\ (requests'[x].fresh = u => x = q)
                      /\ \A b \in Browsers : cookie'[b].token # u
  BY DEF FreshInv
<1>4. CASE u = t
  <2>1. Current(u)'
    BY <1>4 DEF MintedBy, Current, RowOf, SessionOf
  <2>2. ASSUME NEW x \in Requests
        PROVE  requests'[x].token # t /\ (requests'[x].fresh = t => x = p)
    BY <1>1, <1>2 DEF MintedBy
  <2>3. q = p
    BY <1>3, <1>4, <2>2
  <2>4. \A b \in Browsers : cookie'[b].token # t
    BY <1>1, <1>2 DEF MintedBy
  <2> QED
    BY <1>4, <2>1, <2>2, <2>3, <2>4
<1>5. CASE u # t
  <2>1. u \in DOMAIN issued /\ q # p /\ requests[q].fresh = u
    BY <1>3, <1>5 DEF MintedBy
  <2>2. /\ Current(u)
        /\ \A x \in Requests : requests[x].token # u /\ (requests[x].fresh = u => x = q)
        /\ \A b \in Browsers : cookie[b].token # u
    BY <2>1 DEF HeldInv, FreshInv
  <2>3. Current(u)'
    BY <2>1, <2>2, NoOtherFresh, MintedElsewhere
  <2>4. ASSUME NEW x \in Requests
        PROVE  requests'[x].token # u /\ (requests'[x].fresh = u => x = q)
    BY <1>5, <2>2 DEF MintedBy
  <2> QED
    BY <2>2, <2>3, <2>4 DEF MintedBy
<1> QED
  BY <1>4, <1>5

LEMMA MintedCookies ==
    ASSUME IInv, HeldInv, NEW p \in Requests, NEW s, NEW t, MintedBy(p, s, t),
           Follows(p, s), NEW b \in Browsers
    PROVE  CookieInv(b)'
<1>1. /\ None \notin DOMAIN issued
      /\ cookie[b].token \in DOMAIN issued \cup {None}
      /\ Browser(p) \in Browsers
  BY TokenFacts
<1>2. t # None /\ t \in DOMAIN issued' /\ t \notin DOMAIN issued
  BY PolicyAssumption DEF MintedBy, Unminted
<1>3. SUFFICES ASSUME NEW u \in DOMAIN issued', cookie'[b].token = u
               PROVE  \/ Over(u)'
                      \/ Current(u)'
                      \/ /\ RowOf(u)'.previous = HashOf[u]
                         /\ \E q \in Requests : Browser(q) = b /\ ReplacedBy(q, u)'
  BY DEF CookieInv
<1>4. u \in DOMAIN issued /\ cookie[b].token = u
  BY <1>1, <1>2, <1>3 DEF MintedBy
<1>5. /\ SessionOf(u)' = SessionOf(u) /\ SessionOf(t)' = s
      /\ SessionOf(u) \in DOMAIN sessions
  BY <1>4, MintedElsewhere
<1>6. \/ Over(u)
      \/ Current(u)
      \/ /\ RowOf(u).previous = HashOf[u]
         /\ \E q \in Requests : Browser(q) = b /\ ReplacedBy(q, u)
  BY <1>4 DEF HeldInv, CookieInv
<1>7. CASE SessionOf(u) # s
  <2>1. /\ RowOf(u)' = RowOf(u)
        /\ Current(u)' <=> Current(u)
        /\ Over(u)' <=> Over(u)
    BY <1>4, <1>7, MintedElsewhere
  <2>2. ASSUME NEW q \in Requests, Browser(q) = b, ReplacedBy(q, u)
        PROVE  ReplacedBy(q, u)'
    <3>1. PICK v \in DOMAIN issued : requests[q].fresh = v /\ SessionOf(v) = SessionOf(u)
      BY <2>2 DEF ReplacedBy
    <3>2. requests[p].fresh = None
      BY DEF MintedBy, HeldInv, FreshLocal
    <3>3. q # p /\ requests'[q] = requests[q]
      BY <1>1, <3>1, <3>2 DEF MintedBy
    <3>4. SessionOf(v)' = SessionOf(u)' /\ v \in DOMAIN issued'
      BY <1>5, <3>1, MintedElsewhere DEF MintedBy
    <3> QED
      BY <2>1, <2>2, <3>1, <3>3, <3>4 DEF ReplacedBy
  <2> QED
    BY <1>6, <2>1, <2>2
<1>8. CASE SessionOf(u) = s
  <2>1. PICK tok \in DOMAIN issued :
            /\ requests[p].token = tok
            /\ SessionOf(tok) = s
            /\ Current(tok)
            /\ ~RowOf(tok).revoked
            /\ sessions'[s].previous = HashOf[tok]
            /\ sessions'[s].graceUntil = requests'[p].checkedAt + RotationGrace
            /\ sessions'[s].expires = requests'[p].checkedAt + Ttl
    BY <1>5, <1>8 DEF Follows
  <2>2. Browser(p) = b
    <3>1. Holds(Browser(p), tok) /\ Holds(b, u)
      BY <1>4, <2>1 DEF Holds
    <3> QED
      BY <1>1, <1>4, <1>8, <2>1, <3>1 DEF HeldInv, Apart
  <2>3. CASE Over(u)
    <3>1. s \in disturbed
      BY <1>8, <2>1, <2>3 DEF Over, RowOf
    <3> QED
      BY <1>5, <1>8, <3>1 DEF Over, MintedBy
  <2>4. CASE Current(u)
    <3>1. u = tok
      BY <1>4, <1>8, <2>1, <2>4, OneToken DEF Current, RowOf
    <3>2. RowOf(u)' = sessions'[s]
      BY <1>5, <1>8 DEF RowOf
    <3>3. requests'[p].fresh = t
      BY DEF MintedBy
    <3>4. ReplacedBy(p, u)'
      BY <1>2, <1>5, <1>8, <2>1, <3>2, <3>3 DEF ReplacedBy
    <3> QED
      BY <2>1, <2>2, <3>1, <3>2, <3>4
  <2>5. ASSUME NEW q \in Requests, ReplacedBy(q, u) PROVE FALSE
    BY <1>8, <2>5, NoOtherFresh DEF ReplacedBy
  <2> QED
    BY <1>6, <2>3, <2>4, <2>5
<1> QED
  BY <1>7, <1>8

LEMMA MintedApart ==
    ASSUME IInv, HeldInv, NEW p \in Requests, NEW s, NEW t, MintedBy(p, s, t),
           Follows(p, s)
    PROVE  Apart'
<1>1. /\ None \notin DOMAIN issued /\ Browser(p) \in Browsers
      /\ \A x \in Requests : /\ requests[x].token \in DOMAIN issued \cup {None}
                             /\ requests[x].fresh \in DOMAIN issued \cup {None}
      /\ \A b \in Browsers : cookie[b].token \in DOMAIN issued \cup {None}
  BY TokenFacts
<1>2. t \notin DOMAIN issued /\ t # None
  BY PolicyAssumption DEF MintedBy, Unminted
<1>3. ASSUME NEW b \in Browsers, NEW u \in DOMAIN issued, Holds(b, u)' PROVE Holds(b, u)
  <2>1. \A q \in Requests :
          /\ requests'[q].token = requests[q].token
          /\ requests'[q].fresh = u => requests[q].fresh = u
    BY <1>2 DEF MintedBy
  <2>2. cookie' = cookie
    BY DEF MintedBy
  <2> QED
    BY <1>3, <2>1, <2>2 DEF Holds
<1>4. ASSUME NEW b \in Browsers, Holds(b, t)' PROVE b = Browser(p)
  <2>1. \A q \in Requests : requests'[q].token # t /\ (requests'[q].fresh = t => q = p)
    BY <1>1, <1>2 DEF MintedBy
  <2>2. cookie'[b].token # t
    BY <1>1, <1>2 DEF MintedBy
  <2> QED
    BY <1>4, <2>1, <2>2 DEF Holds
<1>5. ASSUME NEW b \in Browsers, NEW u \in DOMAIN issued, Holds(b, u), SessionOf(u) = s
      PROVE  b = Browser(p)
  <2>1. s \in DOMAIN sessions
    BY <1>5 DEF HeldInv, TokenSessions
  <2>2. PICK tok \in DOMAIN issued : requests[p].token = tok /\ SessionOf(tok) = s
    BY <2>1 DEF Follows
  <2>3. Holds(Browser(p), tok)
    BY <2>2 DEF Holds
  <2> QED
    BY <1>1, <1>5, <2>2, <2>3 DEF HeldInv, Apart
<1>6. SUFFICES ASSUME NEW b \in Browsers, NEW c \in Browsers,
                      NEW u \in DOMAIN issued', NEW w \in DOMAIN issued',
                      Holds(b, u)', Holds(c, w)', SessionOf(u)' = SessionOf(w)'
               PROVE  b = c
  BY DEF Apart
<1>7. /\ u \in DOMAIN issued \/ u = t
      /\ w \in DOMAIN issued \/ w = t
  BY DEF MintedBy
<1>8. CASE u \in DOMAIN issued /\ w \in DOMAIN issued
  <2>1. SessionOf(u) = SessionOf(w)
    BY <1>6, <1>8, MintedElsewhere
  <2> QED
    BY <1>3, <1>6, <1>8, <2>1 DEF HeldInv, Apart
<1>9. CASE u = t /\ w = t
  BY <1>4, <1>6, <1>9
<1>10. CASE u \in DOMAIN issued /\ w = t
  <2>1. SessionOf(u) = s
    BY <1>6, <1>10, MintedElsewhere
  <2> QED
    BY <1>3, <1>4, <1>5, <1>6, <1>10, <2>1
<1>11. CASE u = t /\ w \in DOMAIN issued
  <2>1. SessionOf(w) = s
    BY <1>6, <1>11, MintedElsewhere
  <2> QED
    BY <1>3, <1>4, <1>5, <1>6, <1>11, <2>1
<1> QED
  BY <1>7, <1>8, <1>9, <1>10, <1>11


LEMMA MintedLocals ==
    ASSUME IInv, HeldInv, NEW p \in Requests, NEW s, NEW t, MintedBy(p, s, t),
           Follows(p, s), Timely(p)', NEW q \in Requests
    PROVE  Timely(q)' /\ FreshLocal(requests[q])' /\ Knows(q)'
<1>1. Timely(q) /\ FreshLocal(requests[q]) /\ Knows(q)
  BY DEF HeldInv
<1>2. /\ None \notin DOMAIN issued
      /\ requests[q].token \in DOMAIN issued \cup {None}
      /\ requests[p].token \in DOMAIN issued \cup {None}
  BY TokenFacts
<1>3. t \notin DOMAIN issued /\ t # None /\ DOMAIN issued' = DOMAIN issued \cup {t}
  BY PolicyAssumption DEF MintedBy, Unminted
<1>4. CASE q = p
  <2>1. FreshLocal(requests[p])'
    BY DEF MintedBy, FreshLocal
  <2>2. SUFFICES ASSUME NEW u \in DOMAIN issued', requests'[p].token = u
                 PROVE  SessionLocal(requests[p], u)'
    BY <1>4, <2>1 DEF Knows
  <2>3. u \in DOMAIN issued /\ requests[p].token = u
    BY <1>2, <1>3, <2>2 DEF MintedBy
  <2>4. requests'[p].phase = "user" => SessionOf(u) = s
    BY <2>3 DEF Follows
  <2>5. SessionOf(u)' = SessionOf(u)
    BY <2>3, MintedElsewhere
  <2> QED
    BY <2>4, <2>5 DEF MintedBy, SessionLocal
<1>5. CASE q # p
  <2>1. requests'[q] = requests[q]
    BY <1>5 DEF MintedBy
  <2>2. Timely(q)' /\ FreshLocal(requests[q])'
    BY <1>1, <2>1 DEF Timely, FreshLocal, MintedBy
  <2>3. SUFFICES ASSUME NEW u \in DOMAIN issued', requests'[q].token = u
                 PROVE  SessionLocal(requests[q], u)'
    BY <2>2 DEF Knows
  <2>4. u \in DOMAIN issued /\ requests[q].token = u
    BY <1>2, <1>3, <2>1, <2>3
  <2>5. SessionLocal(requests[q], u) /\ SessionOf(u)' = SessionOf(u)
    BY <1>1, <2>4, MintedElsewhere DEF Knows
  <2>6. CASE SessionOf(u) # s
    <3>1. RowOf(u)' = RowOf(u) /\ (Current(u)' <=> Current(u))
      BY <2>4, <2>6, MintedElsewhere
    <3> QED
      BY <2>1, <2>5, <3>1 DEF SessionLocal
  <2>7. CASE SessionOf(u) = s
    <3>1. RowOf(u)'.token = HashOf[t]
      BY <2>5, <2>7 DEF RowOf, MintedBy
    <3>2. HashOf[u] # HashOf[t]
      BY <1>3, <2>4, PolicyAssumption DEF MintedBy, Unminted, IInv, TypeOK
    <3> QED
      BY <2>1, <2>5, <3>1, <3>2 DEF SessionLocal, Current, MayRotate
  <2> QED
    BY <2>6, <2>7
<1> QED
  BY <1>4, <1>5

\* A minting step keeps what browsers hold.
LEMMA MintedHeld ==
    ASSUME IInv, HeldInv, NEW p \in Requests, NEW s, NEW t, MintedBy(p, s, t),
           Follows(p, s), Timely(p)'
    PROVE  HeldInv'
<1>1. TokenSessions'
  <2>1. SUFFICES ASSUME NEW u \in DOMAIN issued' PROVE SessionOf(u)' \in DOMAIN sessions'
    BY DEF TokenSessions
  <2>2. CASE u = t
    BY <2>2 DEF MintedBy, SessionOf
  <2>3. CASE u \in DOMAIN issued
    BY <2>3, MintedElsewhere DEF MintedBy
  <2> QED
    BY <2>2, <2>3 DEF MintedBy
<1>2. PreviousInv'
  <2>1. SUFFICES ASSUME NEW i \in DOMAIN sessions', sessions'[i].previous # None
                 PROVE  \E u \in DOMAIN issued' :
                           SessionOf(u)' = i /\ HashOf[u] = sessions'[i].previous
    BY DEF PreviousInv
  <2>2. \E u \in DOMAIN issued : SessionOf(u) = i /\ HashOf[u] = sessions'[i].previous
    <3>1. CASE i = s
      BY <2>1, <3>1 DEF Follows
    <3>2. CASE i # s
      <4>1. i \in DOMAIN sessions /\ sessions'[i] = sessions[i]
        BY <3>2 DEF MintedBy
      <4> QED
        BY <2>1, <4>1 DEF HeldInv, PreviousInv
    <3> QED
      BY <3>1, <3>2
  <2>3. PICK u \in DOMAIN issued : SessionOf(u) = i /\ HashOf[u] = sessions'[i].previous
    BY <2>2
  <2>4. SessionOf(u)' = i /\ u \in DOMAIN issued'
    BY <2>3, MintedElsewhere DEF MintedBy
  <2> QED
    BY <2>3, <2>4
<1> QED
  BY <1>1, <1>2, MintedFresh, MintedCookies, MintedApart, MintedLocals DEF HeldInv

\* A login mints a token of a new session.
LEMMA CreateMints ==
    ASSUME IInv, HeldInv, NEW p \in Requests, NEW u \in Users, CreateSession(p, u)
    PROVE  /\ MintedBy(p, NewSessionId, NewToken)
           /\ Follows(p, NewSessionId)
           /\ Timely(p)'
           /\ NewSessionId \notin DOMAIN sessions
           /\ requests'[p].sentAt = requests[p].sentAt
<1> DEFINE s == NewSessionId
           t == NewToken
           row == [user |-> u, token |-> HashOf[t], previous |-> None,
                   graceUntil |-> 0, expires |-> now + Ttl, revoked |-> FALSE]
           r == [requests[p] EXCEPT !.phase = "answered", !.checkedAt = now,
                                    !.session = s, !.fresh = t, !.reply = "set"]
<1>1. /\ DOMAIN sessions \subseteq SessionIds /\ now \in Nat
      /\ requests[p] \in RequestRecord
  BY RequestTypes DEF IInv, TypeOK
<1>2. s \notin DOMAIN sessions
  BY <1>1 DEF CreateSession, NewSessionId
<1>3. t \in Unminted
  BY DEF CreateSession, NewToken
<1>4. /\ requests[p].phase = "create"
      /\ sessions' = [i \in DOMAIN sessions \cup {s} |-> IF i = s THEN row ELSE sessions[i]]
      /\ Mint(t, s, None)
      /\ UNCHANGED <<now, cookie, disturbed>>
  BY DEF CreateSession, Phase
<1>5. requests'[p] = r /\ \A q \in Requests \ {p} : requests'[q] = requests[q]
  BY Went DEF CreateSession
<1>6. row.token = HashOf[t] /\ row.previous = None
  OBVIOUS
<1>7. /\ r.phase = "answered" /\ r.checkedAt = now /\ r.session = s /\ r.fresh = t
      /\ r.reply = "set" /\ r.token = requests[p].token /\ r.sentAt = requests[p].sentAt
  BY <1>1 DEF RequestRecord
<1> HIDE DEF s, t, row, r
<1>8. /\ DOMAIN sessions' = DOMAIN sessions \cup {s}
      /\ sessions'[s] = row
      /\ \A i \in DOMAIN sessions \ {s} : sessions'[i] = sessions[i]
  BY <1>4
<1>9. /\ DOMAIN issued' = DOMAIN issued \cup {t}
      /\ issued'[t].session = s
      /\ \A w \in DOMAIN issued : issued'[w] = issued[w]
  BY <1>3, <1>4 DEF Mint, Unminted
<1>10. MintedBy(p, s, t)
  BY <1>3, <1>4, <1>5, <1>6, <1>7, <1>8, <1>9 DEF MintedBy
<1>11. Follows(p, s)
  BY <1>2, <1>5, <1>6, <1>7, <1>8 DEF Follows
<1>12. Timely(p)'
  BY <1>1, <1>4, <1>5, <1>7 DEF HeldInv, Timely
<1> QED
  BY <1>2, <1>5, <1>7, <1>10, <1>11, <1>12 DEF s, t

\* The request that rotates presents the current token of its session.
LEMMA RotateMints ==
    ASSUME IInv, HeldInv, NEW p \in Requests, Rotate(p)
    PROVE  /\ MintedBy(p, requests[p].session, NewToken)
           /\ Follows(p, requests[p].session)
           /\ Timely(p)'
           /\ requests[p].phase = "rotate"
           /\ requests'[p].sentAt = requests[p].sentAt
           /\ requests'[p].checkedAt = requests[p].checkedAt
<1> DEFINE s == requests[p].session
           t == NewToken
           tok == requests[p].token
           r == Rotated(p, t)
           row == [sessions[s] EXCEPT !.token = HashOf[t], !.previous = HashOf[tok],
                                      !.graceUntil = requests[p].checkedAt + RotationGrace,
                                      !.expires = requests[p].checkedAt + Ttl]
<1>1. /\ requests[p] \in RequestRecord /\ requests[p].phase = "rotate"
      /\ Sound(requests[p])
  BY RequestTypes DEF Rotate, Phase
<1>2. tok \in DOMAIN issued /\ s \in DOMAIN sessions /\ sessions[s] \in Row
  BY <1>1 DEF Sound, IInv, TypeOK
<1>3. t \in Unminted
  BY DEF Rotate, NewToken
<1>4. /\ MayRotate(sessions[s], HashOf[tok], requests[p].checkedAt)
      /\ sessions' = [sessions EXCEPT ![s] = row]
      /\ Mint(t, s, tok)
      /\ UNCHANGED <<now, cookie, disturbed>>
  BY DEF Rotate
<1>5. requests'[p] = r /\ \A q \in Requests \ {p} : requests'[q] = requests[q]
  BY Went DEF Rotate
<1>6. /\ row.token = HashOf[t] /\ row.previous = HashOf[tok]
      /\ row.graceUntil = requests[p].checkedAt + RotationGrace
      /\ row.expires = requests[p].checkedAt + Ttl
  BY <1>2 DEF Row
<1>7. /\ r.phase = "user" /\ r.checkedAt = requests[p].checkedAt /\ r.session = s
      /\ r.fresh = t /\ r.reply = "set" /\ r.token = tok /\ r.sentAt = requests[p].sentAt
  BY <1>1 DEF RequestRecord, Rotated
<1>8. SessionOf(tok) = s /\ Timely(p)
  BY <1>1, <1>2 DEF HeldInv, Knows, SessionLocal
<1>9. Current(tok) /\ ~RowOf(tok).revoked
  BY <1>4, <1>8 DEF MayRotate, Current, RowOf
<1> HIDE DEF s, t, row, r
<1>10. /\ DOMAIN sessions' = DOMAIN sessions
       /\ sessions'[s] = row
       /\ \A i \in DOMAIN sessions \ {s} : sessions'[i] = sessions[i]
  BY <1>2, <1>4
<1>11. /\ DOMAIN issued' = DOMAIN issued \cup {t}
       /\ issued'[t].session = s
       /\ \A w \in DOMAIN issued : issued'[w] = issued[w]
  BY <1>3, <1>4 DEF Mint, Unminted
<1>12. MintedBy(p, s, t)
  BY <1>1, <1>2, <1>3, <1>4, <1>5, <1>6, <1>7, <1>10, <1>11 DEF MintedBy
<1>13. Follows(p, s)
  BY <1>2, <1>5, <1>6, <1>7, <1>8, <1>9, <1>10 DEF Follows
<1>14. Timely(p)'
  BY <1>1, <1>4, <1>5, <1>7, <1>8 DEF Timely
<1> QED
  BY <1>1, <1>5, <1>7, <1>12, <1>13, <1>14 DEF s, t

\* At the start nobody holds anything.
LEMMA InitHeld == Init => HeldInv
<1> SUFFICES ASSUME Init PROVE HeldInv
  OBVIOUS
<1>1. /\ DOMAIN issued = {} /\ DOMAIN sessions = {}
      /\ \A p \in Requests : requests[p] = Idle
  BY DEF Init
<1> QED
  BY <1>1 DEF HeldInv, Timely, FreshLocal, Knows, FreshInv, CookieInv, Apart,
              TokenSessions, PreviousInv, Idle

\* Every step keeps what browsers hold.
LEMMA NextHeld == IInv /\ HeldInv /\ [Next]_vars => HeldInv'
<1> SUFFICES ASSUME IInv, HeldInv, [Next]_vars PROVE HeldInv'
  OBVIOUS
<1>1. CASE \/ UNCHANGED vars
           \/ \E u \in Users : RevokeAll(u) \/ SetStatus(u)
           \/ Tick
  BY <1>1, EnvironmentHeld
<1>2. ASSUME NEW p \in Requests,
             \/ \E kind \in Kinds : Send(p, kind)
             \/ Receive(p)
             \/ \E u \in Users : VerifyPassword(p, u) \/ CreateSession(p, u)
             \/ FindMissing(p)
             \/ \E s \in SessionIds : Find(p, s)
             \/ Rotate(p) \/ RotateLoses(p) \/ Reread(p) \/ CheckUser(p) \/ Revoke(p)
             \/ Fail(p) \/ ViewFails(p) \/ Lose(p) \/ Deliver(p)
      PROVE  HeldInv'
  <2>1. CASE Rotate(p)
    BY <2>1, RotateMints, MintedHeld
  <2>2. ASSUME NEW u \in Users, CreateSession(p, u) PROVE HeldInv'
    BY <2>2, CreateMints, MintedHeld
  <2> QED
    BY <1>2, <2>1, <2>2, SendHeld, ReceiveHeld, VerifyPasswordHeld,
       ResolutionHeld, FindHeld, RevokeHeld, FailHeld, ViewFailsHeld, LoseHeld, DeliverHeld
<1> QED
  BY <1>1, <1>2 DEF Next

\* A browser with no answer on its way holds the current token of every
\* session that is not over.
LEMMA HeldImpliesCurrent ==
    ASSUME IInv, HeldInv
    PROVE  HoldsCurrentToken
<1>1. SUFFICES ASSUME NEW b \in Browsers, cookie[b].token # None,
                      \A i \in Slots : requests[<<b, i>>].fresh = None,
                      SessionOf(cookie[b].token) \notin disturbed,
                      ~sessions[SessionOf(cookie[b].token)].revoked
               PROVE  sessions[SessionOf(cookie[b].token)].token = HashOf[cookie[b].token]
  BY DEF HoldsCurrentToken
<1>2. PICK t \in DOMAIN issued : cookie[b].token = t
  BY <1>1, TokenFacts
<1>3. ~Over(t)
  BY <1>1, <1>2 DEF Over, RowOf
<1>4. ASSUME NEW q \in Requests, Browser(q) = b, ReplacedBy(q, t) PROVE FALSE
  <2>1. requests[q].fresh # None
    BY <1>4, TokenFacts DEF ReplacedBy
  <2>2. q = <<b, q[2]>> /\ q[2] \in Slots
    BY <1>4 DEF Requests, Browser
  <2> QED
    BY <1>1, <2>1, <2>2
<1>5. Current(t)
  BY <1>2, <1>3, <1>4 DEF HeldInv, CookieInv
<1> QED
  BY <1>2, <1>5 DEF Current, RowOf

\* What browsers hold, from the start on.
THEOREM HeldHolds == Spec => [](IInv /\ HeldInv)
  BY InitInv, NextInv, InitHeld, NextHeld, PTL DEF Spec

\* Answers that arrive in another order never leave a browser with a token
\* that has been replaced.
THEOREM BrowserHoldsCurrent == Spec => []HoldsCurrentToken
<1>1. IInv /\ HeldInv => HoldsCurrentToken
  BY HeldImpliesCurrent
<1> QED
  BY <1>1, HeldHolds, PTL


-----------------------------------------------------------------------------
(* What a request presents                                                 *)

\* Token t is good for a request sent at `at`, or its session is over.
Good(t, at) == Over(t) \/ Current(t) \/ Replaced(t, at)

\* The cookie of a browser is good for a request sent now: the request that
\* replaced it is at most a round trip old.
LEMMA CookieGood ==
    ASSUME IInv, HeldInv, NEW b \in Browsers, NEW t \in DOMAIN issued, cookie[b].token = t
    PROVE  Good(t, now)
<1>1. \/ Over(t)
      \/ Current(t)
      \/ /\ RowOf(t).previous = HashOf[t]
         /\ \E q \in Requests : Browser(q) = b /\ ReplacedBy(q, t)
  BY DEF HeldInv, CookieInv
<1>2. ASSUME NEW q \in Requests, ReplacedBy(q, t), RowOf(t).previous = HashOf[t]
      PROVE  Replaced(t, now)
  <2>1. requests[q].fresh # None
    BY <1>2, TokenFacts DEF ReplacedBy
  <2>2. requests[q].phase \notin {"idle", "sent"}
    BY <2>1 DEF HeldInv, FreshLocal
  <2>3. /\ requests[q].sentAt <= requests[q].checkedAt
        /\ now <= requests[q].sentAt + RoundTrip
    BY <2>2 DEF HeldInv, Timely
  <2>4. requests[q].sentAt \in Nat /\ requests[q].checkedAt \in Nat /\ now \in Nat
    BY DEF IInv, TypeOK
  <2>5. RoundTrip \in Nat /\ RotationGrace \in Nat /\ Ttl \in Nat
    BY PolicyAssumption
  <2> DEFINE c == requests[q].checkedAt
             a == requests[q].sentAt
  <2>6. now <= c + RoundTrip
    <3> HIDE DEF a, c
    <3>1. a \in Nat /\ c \in Nat /\ a <= c /\ now <= a + RoundTrip
      BY <2>3, <2>4 DEF a, c
    <3> QED
      BY <2>4, <2>5, <3>1
  <2>7. RowOf(t).graceUntil = c + RotationGrace /\ RowOf(t).expires = c + Ttl
    BY <1>2 DEF ReplacedBy
  <2>8. c \in Nat
    BY <2>4
  <2> HIDE DEF c
  <2>9. /\ now + RotationGrace <= (c + RotationGrace) + RoundTrip
        /\ now + Ttl <= (c + Ttl) + RoundTrip
    BY <2>4, <2>5, <2>6, <2>8
  <2> QED
    BY <1>2, <2>7, <2>9 DEF Replaced
<1> QED
  BY <1>1, <1>2 DEF Good

\* A good token stays good when rows are kept.
LEMMA KeptGood ==
    ASSUME TokenSessions, RowsKept, issued' = issued, disturbed \subseteq disturbed',
           NEW t \in DOMAIN issued, NEW at, Good(t, at)
    PROVE  Good(t, at)'
<1>1. Replaced(t, at) => Replaced(t, at)'
  BY KeptTokens DEF Replaced
<1> QED
  BY <1>1, KeptTokens DEF Good

\* What a request presents does not change, unless it sends the cookie now.
SameToken(q) ==
    \/ requests'[q].token = None
    \/ requests'[q].token = requests[q].token /\ requests'[q].sentAt = requests[q].sentAt
    \/ requests'[q].token = cookie[Browser(q)].token /\ requests'[q].sentAt = now

LEMMA KeptTokenInv ==
    ASSUME IInv, HeldInv, TokenInv, RowsKept, issued' = issued,
           disturbed \subseteq disturbed', \A q \in Requests : SameToken(q)
    PROVE  TokenInv'
<1>1. SUFFICES ASSUME NEW q \in Requests, NEW t \in DOMAIN issued, requests'[q].token = t
               PROVE  Good(t, requests[q].sentAt)'
  BY DEF TokenInv, Good
<1>2. None \notin DOMAIN issued /\ Browser(q) \in Browsers /\ TokenSessions
  BY TokenFacts DEF HeldInv
<1>3. CASE requests[q].token = t /\ requests'[q].sentAt = requests[q].sentAt
  <2> DEFINE at == requests[q].sentAt
  <2>1. PICK a : a = at
    OBVIOUS
  <2>2. Good(t, a)
    BY <1>3, <2>1 DEF TokenInv, Good, Replaced
  <2>3. Good(t, a)'
    BY <1>2, <2>2, KeptGood
  <2> QED
    BY <1>3, <2>1, <2>3 DEF Good, Replaced, Over, Current, RowOf, SessionOf
<1>4. CASE cookie[Browser(q)].token = t /\ requests'[q].sentAt = now
  <2>1. PICK a : a = now
    OBVIOUS
  <2>2. Good(t, a)
    BY <1>2, <1>4, <2>1, CookieGood DEF Good, Replaced
  <2>3. Good(t, a)'
    BY <1>2, <2>2, KeptGood
  <2> QED
    BY <1>4, <2>1, <2>3 DEF Good, Replaced, Over, Current, RowOf, SessionOf
<1> QED
  BY <1>1, <1>2, <1>3, <1>4 DEF SameToken

\* One request goes on and presents what it did.
LEMMA LocalToken ==
    ASSUME IInv, HeldInv, TokenInv, NEW p \in Requests,
           \A q \in Requests \ {p} : requests'[q] = requests[q],
           RowsKept, issued' = issued, disturbed \subseteq disturbed', SameToken(p)
    PROVE  TokenInv'
<1>1. ASSUME NEW q \in Requests PROVE SameToken(q)
  <2>1. CASE q = p
    BY <2>1
  <2>2. CASE q # p
    BY <2>2 DEF SameToken
  <2> QED
    BY <2>1, <2>2
<1> QED
  BY <1>1, KeptTokenInv

\* The steps of a request that mint nothing.
LEMMA QuietToken ==
    ASSUME IInv, HeldInv, TokenInv, NEW p \in Requests,
           \/ \E kind \in Kinds : Send(p, kind)
           \/ Receive(p)
           \/ \E u \in Users : VerifyPassword(p, u)
           \/ FindMissing(p)
           \/ \E s \in SessionIds : Find(p, s)
           \/ RotateLoses(p) \/ Reread(p) \/ CheckUser(p) \/ Revoke(p)
           \/ Fail(p) \/ ViewFails(p) \/ Lose(p) \/ Deliver(p)
    PROVE  TokenInv'
<1>1. issued' = issued /\ disturbed \subseteq disturbed'
  BY DEF Send, Receive, VerifyPassword, FindMissing, Find, RotateLoses, Reread,
         CheckUser, Revoke, Fail, ViewFails, Lose, Deliver
<1>2. RowsKept
  <2>1. CASE UNCHANGED sessions
    BY <2>1, SameRows
  <2>2. CASE Revoke(p)
    BY <2>2 DEF Revoke, RowsKept, IInv, TypeOK, Row
  <2> QED
    BY <2>1, <2>2 DEF Send, Receive, VerifyPassword, FindMissing, Find, RotateLoses, Reread,
                      CheckUser, Fail, ViewFails, Lose, Deliver
<1>3. requests[p] \in RequestRecord
  BY RequestTypes
<1>4. ASSUME NEW r, Goto(p, r), r.token = requests[p].token, r.sentAt = requests[p].sentAt
      PROVE  TokenInv'
  BY <1>1, <1>2, <1>4, Went, LocalToken DEF SameToken
<1>5. CASE Refuse(p)
  BY <1>3, <1>4, <1>5 DEF Refuse, RequestRecord
<1>6. ASSUME NEW ph, Goto(p, [requests[p] EXCEPT !.phase = ph]) PROVE TokenInv'
  BY <1>3, <1>4, <1>6 DEF RequestRecord
<1>7. ASSUME NEW kind \in Kinds, Send(p, kind) PROVE TokenInv'
  <2> DEFINE r == [Idle EXCEPT !.phase = "sent", !.kind = kind, !.sentAt = now,
                               !.token = IF kind = "login" THEN None
                                         ELSE cookie[Browser(p)].token]
  <2>1. Goto(p, r)
    BY <1>7 DEF Send
  <2>2. r.sentAt = now /\ r.token \in {None, cookie[Browser(p)].token}
    BY DEF Idle
  <2> HIDE DEF r
  <2> QED
    BY <1>1, <1>2, <2>1, <2>2, Went, LocalToken DEF SameToken
<1>8. CASE Receive(p)
  <2> DEFINE ph == IF requests[p].kind = "login" THEN "verify" ELSE "find"
  <2>1. Goto(p, [requests[p] EXCEPT !.phase = ph, !.checkedAt = now])
    BY <1>8 DEF Receive
  <2> HIDE DEF ph
  <2> QED
    BY <1>3, <1>4, <2>1 DEF RequestRecord
<1>9. ASSUME NEW u \in Users, VerifyPassword(p, u) PROVE TokenInv'
  <2>1. CASE Goto(p, [requests[p] EXCEPT !.phase = "create", !.user = u])
    BY <1>3, <1>4, <2>1 DEF RequestRecord
  <2> QED
    BY <1>6, <1>9, <2>1 DEF VerifyPassword
<1>10. ASSUME NEW s \in SessionIds, Find(p, s) PROVE TokenInv'
  <2> DEFINE ph == IF /\ sessions[s].token = HashOf[requests[p].token]
                      /\ sessions[s].expires - requests[p].checkedAt <= RenewalWindow
                   THEN "rotate" ELSE "user"
  <2>1. Goto(p, [requests[p] EXCEPT !.session = s, !.phase = ph])
    BY <1>10 DEF Find
  <2> HIDE DEF ph
  <2> QED
    BY <1>3, <1>4, <2>1 DEF RequestRecord
<1>11. CASE ViewFails(p)
  BY <1>3, <1>4, <1>11 DEF ViewFails, RequestRecord
<1>12. CASE Goto(p, Idle)
  BY <1>1, <1>2, <1>12, Went, LocalToken DEF SameToken, Idle
<1>13. CASE FindMissing(p) \/ Revoke(p)
  BY <1>5, <1>13 DEF FindMissing, Revoke
<1>14. CASE RotateLoses(p)
  BY <1>6, <1>14 DEF RotateLoses
<1>15. CASE Reread(p)
  BY <1>5, <1>6, <1>15 DEF Reread
<1>16. CASE CheckUser(p)
  BY <1>5, <1>6, <1>16 DEF CheckUser, Served
<1>17. CASE Fail(p)
  BY <1>5, <1>6, <1>17 DEF Fail
<1>18. CASE Lose(p) \/ Deliver(p)
  BY <1>12, <1>18 DEF Lose, Deliver
<1> QED
  BY <1>7, <1>8, <1>9, <1>10, <1>11, <1>13, <1>14, <1>15, <1>16, <1>17, <1>18


\* The token the rotating request replaces is good for the requests in flight;
\* one already replaced cannot be near its end while they last.
LEMMA MintedToken ==
    ASSUME IInv, HeldInv, TokenInv, NEW p \in Requests, NEW s, NEW t,
           MintedBy(p, s, t), Follows(p, s), Timely(p)',
           requests'[p].sentAt = requests[p].sentAt,
           s \in DOMAIN sessions =>
              /\ requests[p].phase = "rotate"
              /\ requests'[p].checkedAt = requests[p].checkedAt
    PROVE  TokenInv'
<1>1. SUFFICES ASSUME NEW q \in Requests, NEW u \in DOMAIN issued', requests'[q].token = u
               PROVE  Good(u, requests[q].sentAt)'
  BY DEF TokenInv, Good
<1>2. /\ requests[q].token \in DOMAIN issued \cup {None}
      /\ None \notin DOMAIN issued /\ t # None
  BY TokenFacts, PolicyAssumption DEF MintedBy, Unminted
<1>3. /\ requests'[q].token = requests[q].token
      /\ requests'[q].sentAt = requests[q].sentAt
  BY DEF MintedBy
<1>4. u \in DOMAIN issued /\ u # t
  BY <1>1, <1>2, <1>3 DEF MintedBy, Unminted
<1>5. PICK at : at = requests[q].sentAt
  OBVIOUS
<1>6. Good(u, at)
  BY <1>1, <1>3, <1>4, <1>5 DEF TokenInv, Good, Replaced
<1>7. /\ SessionOf(u)' = SessionOf(u)
      /\ SessionOf(u) # s =>
            /\ RowOf(u)' = RowOf(u)
            /\ Current(u)' <=> Current(u)
            /\ Over(u)' <=> Over(u)
      /\ SessionOf(u) \in DOMAIN sessions
  BY <1>4, MintedElsewhere
<1>8. Good(u, at)'
  <2>1. CASE SessionOf(u) # s
    BY <1>6, <1>7, <2>1 DEF Good, Replaced
  <2>2. CASE SessionOf(u) = s
    <3>1. PICK tok \in DOMAIN issued :
            /\ requests[p].token = tok
            /\ SessionOf(tok) = s
            /\ Current(tok)
            /\ ~RowOf(tok).revoked
            /\ sessions'[s].previous = HashOf[tok]
            /\ sessions'[s].graceUntil = requests'[p].checkedAt + RotationGrace
            /\ sessions'[s].expires = requests'[p].checkedAt + Ttl
      BY <1>7, <2>2 DEF Follows
    <3>2. PICK c : c = requests[p].checkedAt
      OBVIOUS
    <3>3. /\ requests[p].phase = "rotate" /\ requests'[p].checkedAt = c
      BY <1>7, <2>2, <3>2
    <3>4. PICK a : a = requests[p].sentAt
      OBVIOUS
    <3>5. /\ {a, c, at, now, RoundTrip, RotationGrace, Ttl, RenewalWindow} \subseteq Nat
          /\ a <= c /\ now <= a + RoundTrip /\ c <= now
      BY <1>5, <3>2, <3>3, <3>4, PolicyAssumption DEF IInv, TypeOK, HeldInv, Timely
    <3>6. at <= now /\ now <= at + RoundTrip
      <4>1. requests[q].token = u
        BY <1>1, <1>3
      <4>2. requests[q].phase # "idle"
        BY <1>2, <1>4, <4>1 DEF HeldInv, FreshLocal
      <4> QED
        BY <1>5, <4>2 DEF HeldInv, Timely
    <3>7. at <= c + RoundTrip
      BY <3>5, <3>6
    <3>8. RowOf(u)' = sessions'[s] /\ RowOf(u) = RowOf(tok)
      BY <1>7, <2>2, <3>1 DEF RowOf
    <3>9. CASE Over(u)
      <4>1. SessionOf(u) \in disturbed
        BY <2>2, <3>1, <3>9 DEF Over, RowOf
      <4> QED
        BY <1>7, <4>1 DEF Good, Over, MintedBy
    <3>10. CASE Current(u)
      <4>1. u = tok
        BY <1>4, <2>2, <3>1, <3>10, OneToken DEF Current, RowOf
      <4>2. /\ at + RotationGrace <= (c + RotationGrace) + RoundTrip
            /\ at + Ttl <= (c + Ttl) + RoundTrip
        BY <3>5, <3>7
      <4>3. Replaced(u, at)'
        BY <3>1, <3>3, <3>8, <4>1, <4>2 DEF Replaced
      <4> QED
        BY <4>3 DEF Good
    <3>11. CASE Replaced(u, at)
      <4>1. PICK e : e = RowOf(tok).expires
        OBVIOUS
      <4>2. at + Ttl <= e + RoundTrip
        BY <3>8, <3>11, <4>1 DEF Replaced
      <4>3. e - c <= RenewalWindow
        <5>1. SessionLocal(requests[p], tok)
          BY <3>1 DEF HeldInv, Knows
        <5> QED
          BY <3>1, <3>2, <3>3, <4>1, <5>1 DEF SessionLocal
      <4>4. e \in Nat
        <5>1. RowOf(tok) \in Row
          BY <2>2, <1>7, <3>1 DEF RowOf, IInv, TypeOK
        <5> QED
          BY <4>1, <5>1 DEF Row
      <4>5. Ttl <= RenewalWindow + 2 * RoundTrip
        BY <3>5, <3>6, <4>2, <4>3, <4>4
      <4> QED
        BY <3>5, <4>5, GraceAssumption
    <3> QED
      BY <1>6, <3>9, <3>10, <3>11 DEF Good
  <2> QED
    BY <2>1, <2>2
<1> QED
  BY <1>3, <1>5, <1>8 DEF Good, Replaced, Over, Current, RowOf, SessionOf

\* Every step keeps the tokens of requests good.
LEMMA NextToken == IInv /\ HeldInv /\ TokenInv /\ [Next]_vars => TokenInv'
<1> SUFFICES ASSUME IInv, HeldInv, TokenInv, [Next]_vars PROVE TokenInv'
  OBVIOUS
<1>1. ASSUME NEW u \in Users, RevokeAll(u) PROVE TokenInv'
  <2>1. \A s \in DOMAIN sessions : sessions[s] \in Row
    BY DEF IInv, TypeOK
  <2>2. RowsKept
    BY <1>1, <2>1 DEF RevokeAll, RowsKept, Row
  <2>3. /\ UNCHANGED <<requests, issued, disturbed>>
        /\ \A q \in Requests : SameToken(q)
    BY <1>1 DEF RevokeAll, SameToken
  <2> QED
    BY <2>2, <2>3, KeptTokenInv
<1>2. CASE UNCHANGED vars \/ Tick \/ \E u \in Users : SetStatus(u)
  <2>1. UNCHANGED <<sessions, requests, issued, disturbed>>
    BY <1>2 DEF vars, Tick, SetStatus
  <2>2. \A q \in Requests : SameToken(q)
    BY <2>1 DEF SameToken
  <2> QED
    BY <2>1, <2>2, SameRows, KeptTokenInv
<1>3. ASSUME NEW p \in Requests, NEW u \in Users, CreateSession(p, u) PROVE TokenInv'
  BY <1>3, CreateMints, MintedToken
<1>4. ASSUME NEW p \in Requests, Rotate(p) PROVE TokenInv'
  BY <1>4, RotateMints, MintedToken
<1>5. ASSUME NEW p \in Requests,
             \/ \E kind \in Kinds : Send(p, kind)
             \/ Receive(p)
             \/ \E u \in Users : VerifyPassword(p, u)
             \/ FindMissing(p)
             \/ \E s \in SessionIds : Find(p, s)
             \/ RotateLoses(p) \/ Reread(p) \/ CheckUser(p) \/ Revoke(p)
             \/ Fail(p) \/ ViewFails(p) \/ Lose(p) \/ Deliver(p)
      PROVE  TokenInv'
  BY <1>5, QuietToken
<1> QED
  BY <1>1, <1>2, <1>3, <1>4, <1>5 DEF Next

LEMMA InitToken == Init => TokenInv
BY DEF Init, TokenInv

\* A good token that does not resolve belongs to a session that is over: the
\* grace of a replaced one lasts longer than the request.
LEMMA GoodResolves ==
    ASSUME IInv, HeldInv, TokenInv, NEW p \in Requests, NEW t \in DOMAIN issued,
           requests[p].token = t, requests[p].phase \in {"find", "reread"},
           ~Resolves(RowOf(t), HashOf[t], requests[p].checkedAt)
    PROVE  Over(t) \/ RowOf(t).expires <= now
<1>1. SUFFICES ASSUME ~Over(t) PROVE RowOf(t).expires <= requests[p].checkedAt
  <2>1. requests[p].checkedAt <= now
    BY DEF HeldInv, Timely
  <2>2. RowOf(t) \in Row
    BY DEF RowOf, HeldInv, TokenSessions, IInv, TypeOK
  <2>3. RowOf(t).expires \in Nat /\ requests[p].checkedAt \in Nat /\ now \in Nat
    BY <2>2 DEF Row, IInv, TypeOK
  <2> QED
    BY <1>1, <2>1, <2>3
<1>2. Current(t) \/ Replaced(t, requests[p].sentAt)
  BY <1>1 DEF TokenInv
<1>3. RowOf(t) \in Row
  BY DEF RowOf, HeldInv, TokenSessions, IInv, TypeOK
<1>4. PICK c, a, g : c = requests[p].checkedAt /\ a = requests[p].sentAt /\ g = RowOf(t).graceUntil
  OBVIOUS
<1>5. /\ {a, c, g, now, RoundTrip, RotationGrace} \subseteq Nat /\ RowOf(t).expires \in Nat
      /\ c <= now /\ now <= a + RoundTrip
  BY <1>3, <1>4, PolicyAssumption DEF Row, IInv, TypeOK, HeldInv, Timely
<1>6. RowOf(t).token = HashOf[t] \/ (RowOf(t).previous = HashOf[t] /\ g > c)
  <2>1. CASE Current(t)
    BY <2>1 DEF Current
  <2>2. CASE Replaced(t, requests[p].sentAt)
    <3>1. RowOf(t).previous = HashOf[t] /\ a + RotationGrace <= g + RoundTrip
      BY <1>4, <2>2 DEF Replaced
    <3>2. g > c
      BY <1>5, <3>1, GraceAssumption
    <3> QED
      BY <3>1, <3>2
  <2> QED
    BY <1>2, <2>1, <2>2
<1>7. ~RowOf(t).revoked
  BY <1>1 DEF Over
<1>8. ~(RowOf(t).expires > c)
  BY <1>4, <1>6, <1>7 DEF Resolves
<1> QED
  BY <1>4, <1>5, <1>8

\* A request is refused because its session is over.
LEMMA RefusedOver ==
    ASSUME IInv, HeldInv, TokenInv, [Next]_vars, NEW p \in Requests,
           requests[p].reply # "expire", requests'[p].reply = "expire"
    PROVE  \/ SessionOf(requests[p].token) \in disturbed'
           \/ sessions'[SessionOf(requests[p].token)].revoked
           \/ sessions[SessionOf(requests[p].token)].expires <= now
           \/ sessions[SessionOf(requests[p].token)].user \notin active
<1>1. requests[p] \in RequestRecord /\ requests \in [Requests -> RequestRecord]
  BY RequestTypes DEF IInv, TypeOK, RequestRecord
<1>2. ASSUME NEW r, r.reply # "expire" PROVE ~Goto(p, r)
  BY <1>2, Went
<1>3. \/ FindMissing(p) \/ Reread(p) \/ CheckUser(p) \/ Revoke(p) \/ Fail(p)
  <2>1. ASSUME NEW q \in Requests, q # p, NEW r, Goto(q, r) PROVE FALSE
    BY <2>1, Went
  <2>2. requests' # requests
    OBVIOUS
  <2>3. PICK q \in Requests :
             \/ \E kind \in Kinds : Send(q, kind)
             \/ Receive(q)
             \/ \E u \in Users : VerifyPassword(q, u) \/ CreateSession(q, u)
             \/ FindMissing(q)
             \/ \E s \in SessionIds : Find(q, s)
             \/ Rotate(q) \/ RotateLoses(q) \/ Reread(q) \/ CheckUser(q) \/ Revoke(q)
             \/ Fail(q) \/ ViewFails(q) \/ Lose(q) \/ Deliver(q)
    BY <2>2 DEF Next, vars, RevokeAll, SetStatus, Tick
  <2>4. \E r : Goto(q, r)
    BY <2>3 DEF Send, Receive, VerifyPassword, CreateSession, FindMissing, Find, Rotate,
                RotateLoses, Reread, CheckUser, Served, Revoke, Fail, ViewFails, Lose,
                Deliver, Refuse
  <2>5. q = p
    BY <2>1, <2>4
  <2>6. ASSUME NEW ph PROVE ~Goto(p, [requests[p] EXCEPT !.phase = ph])
    BY <1>1, <1>2 DEF RequestRecord
  <2>7. ~Goto(p, Idle) /\ \A kind \in Kinds : ~Send(p, kind)
    <3>1. ~Goto(p, Idle)
      BY <1>2 DEF Idle
    <3>2. ASSUME NEW kind \in Kinds PROVE ~Send(p, kind)
      <4> DEFINE r == [Idle EXCEPT !.phase = "sent", !.kind = kind, !.sentAt = now,
                                   !.token = IF kind = "login" THEN None
                                             ELSE cookie[Browser(p)].token]
      <4>1. r.reply # "expire"
        BY DEF Idle
      <4> HIDE DEF r
      <4>2. ~Goto(p, r)
        BY <1>2, <4>1
      <4> QED
        BY <4>2 DEF Send, r
    <3> QED
      BY <3>1, <3>2
  <2>8. ~Receive(p)
    <3> DEFINE r == [requests[p] EXCEPT
                       !.phase = IF requests[p].kind = "login" THEN "verify" ELSE "find",
                       !.checkedAt = now]
    <3>1. r.reply # "expire"
      BY <1>1 DEF RequestRecord
    <3> HIDE DEF r
    <3>2. ~Goto(p, r)
      BY <1>2, <3>1
    <3> QED
      BY <3>2 DEF Receive, r
  <2>9. ASSUME NEW u \in Users PROVE ~VerifyPassword(p, u)
    <3> DEFINE r == [requests[p] EXCEPT !.phase = "create", !.user = u]
    <3>1. r.reply # "expire"
      BY <1>1 DEF RequestRecord
    <3> HIDE DEF r
    <3>2. ~Goto(p, r)
      BY <1>2, <3>1
    <3> QED
      BY <2>6, <3>2 DEF VerifyPassword, r
  <2>10. ASSUME NEW u \in Users PROVE ~CreateSession(p, u)
    <3> DEFINE r == [requests[p] EXCEPT !.phase = "answered", !.checkedAt = now,
                                        !.session = NewSessionId, !.fresh = NewToken,
                                        !.reply = "set"]
    <3>1. r.reply # "expire"
      BY <1>1 DEF RequestRecord
    <3> HIDE DEF r
    <3>2. ~Goto(p, r)
      BY <1>2, <3>1
    <3> QED
      BY <3>2 DEF CreateSession, r
  <2>11. ASSUME NEW s \in SessionIds PROVE ~Find(p, s)
    <3> DEFINE r == [requests[p] EXCEPT
                       !.session = s,
                       !.phase = IF /\ sessions[s].token = HashOf[requests[p].token]
                                    /\ sessions[s].expires - requests[p].checkedAt
                                          <= RenewalWindow
                                 THEN "rotate" ELSE "user"]
    <3>1. r.reply # "expire"
      BY <1>1 DEF RequestRecord
    <3> HIDE DEF r
    <3>2. ~Goto(p, r)
      BY <1>2, <3>1
    <3> QED
      BY <3>2 DEF Find, r
  <2>12. ~Rotate(p)
    <3>1. Rotated(p, NewToken).reply # "expire"
      BY <1>1 DEF Rotated, RequestRecord
    <3>2. ~Goto(p, Rotated(p, NewToken))
      BY <1>2, <3>1
    <3> QED
      BY <3>2 DEF Rotate
  <2>13. ~ViewFails(p)
    <3> DEFINE r == [requests[p] EXCEPT !.phase = "answered", !.fresh = None, !.reply = "keep"]
    <3>1. r.reply # "expire"
      BY <1>1 DEF RequestRecord
    <3> HIDE DEF r
    <3>2. ~Goto(p, r)
      BY <1>2, <3>1
    <3> QED
      BY <3>2 DEF ViewFails, r
  <2>14. ~RotateLoses(p) /\ ~Lose(p) /\ ~Deliver(p)
    BY <2>6, <2>7 DEF RotateLoses, Lose, Deliver
  <2> QED
    BY <2>3, <2>5, <2>7, <2>8, <2>9, <2>10, <2>11, <2>12, <2>13, <2>14
<1>4. requests[p].token # None => requests[p].token \in DOMAIN issued
  BY TokenFacts
<1>5. CASE FindMissing(p)
  <2>1. requests[p].phase = "find" /\ UNCHANGED <<sessions, disturbed>>
    BY <1>5 DEF FindMissing, Phase
  <2>2. PICK t \in DOMAIN issued : requests[p].token = t
    BY <2>1, TokenFacts
  <2>3. SessionOf(t) \in DOMAIN sessions
    BY DEF HeldInv, TokenSessions
  <2>4. ~Resolves(RowOf(t), HashOf[t], requests[p].checkedAt)
    BY <1>5, <2>2, <2>3 DEF FindMissing, Found, RowOf
  <2>5. Over(t) \/ RowOf(t).expires <= now
    BY <2>1, <2>2, <2>4, GoodResolves
  <2> QED
    BY <2>1, <2>2, <2>5 DEF Over, RowOf
<1>6. CASE \/ Reread(p) \/ CheckUser(p) \/ Revoke(p)
  <2>1. requests[p].phase \in {"reread", "user", "adminUser", "revoke"}
    BY <1>6 DEF Reread, CheckUser, Revoke, Phase
  <2>2. PICK t \in DOMAIN issued : requests[p].token = t
    BY <2>1, TokenFacts
  <2>3. SessionLocal(requests[p], t)
    BY <2>2 DEF HeldInv, Knows
  <2>4. requests[p].session = SessionOf(t) /\ SessionOf(t) \in DOMAIN sessions
    BY <2>1, <2>3 DEF SessionLocal, HeldInv, TokenSessions
  <2>5. CASE Reread(p)
    <3>1. requests[p].phase = "reread" /\ UNCHANGED <<sessions, disturbed>>
      BY <2>5 DEF Reread, Phase
    <3>2. ~(/\ RowOf(t).previous = HashOf[t]
            /\ Resolves(RowOf(t), HashOf[t], requests[p].checkedAt))
      <4>1. ~Goto(p, [requests[p] EXCEPT !.phase = "user"])
        BY <1>1, <1>2 DEF RequestRecord
      <4> QED
        BY <2>2, <2>4, <2>5, <4>1 DEF Reread, RowOf
    <3>3. ~MayRotate(RowOf(t), HashOf[t], requests[p].checkedAt)
      BY <2>3, <3>1 DEF SessionLocal
    <3>4. ~Resolves(RowOf(t), HashOf[t], requests[p].checkedAt)
      BY <3>2, <3>3 DEF Resolves, MayRotate
    <3>5. Over(t) \/ RowOf(t).expires <= now
      BY <2>2, <3>1, <3>4, GoodResolves
    <3> QED
      BY <2>2, <3>1, <3>5 DEF Over, RowOf
  <2>6. CASE CheckUser(p)
    <3>1. ~Goto(p, [requests[p] EXCEPT !.phase = "adminUser"]) /\ ~Served(p)
      <4>1. ASSUME NEW ph PROVE ~Goto(p, [requests[p] EXCEPT !.phase = ph])
        BY <1>1, <1>2 DEF RequestRecord
      <4> QED
        BY <4>1 DEF Served
    <3> QED
      BY <2>2, <2>4, <2>6, <3>1 DEF CheckUser
  <2>7. CASE Revoke(p)
    <3>1. sessions[SessionOf(t)] \in Row
      BY <2>4 DEF IInv, TypeOK
    <3>2. sessions'[SessionOf(t)].revoked
      BY <2>4, <2>7, <3>1 DEF Revoke, Row
    <3> QED
      BY <2>2, <3>2
  <2> QED
    BY <1>6, <2>5, <2>6, <2>7
<1>7. CASE Fail(p)
  <2>1. Phase(p) \notin {"verify", "create", "revoke"}
    <3>1. ~Goto(p, [requests[p] EXCEPT !.phase = "answered"])
      BY <1>1, <1>2 DEF RequestRecord
    <3> QED
      BY <1>7, <3>1 DEF Fail
  <2>2. requests[p].phase \in {"find", "rotate", "reread", "user", "adminUser", "revoke"}
    BY <1>7, <2>1 DEF Fail, Phase, Phases
  <2>3. requests[p].token # None
    BY <2>2, TokenFacts
  <2>4. SessionOf(requests[p].token) \in Disturbs(p)
    BY <2>3 DEF Disturbs
  <2> QED
    BY <1>7, <2>4 DEF Fail
<1> QED
  BY <1>3, <1>5, <1>6, <1>7

\* Whatever races with its rotation, a request is refused only when its session
\* is over, if the grace is longer than two round trips.
THEOREM RefusedWhenOver == Spec => RefusedOnlyWhenOver
<1>1. Spec => [](IInv /\ HeldInv /\ TokenInv)
  BY InitInv, NextInv, InitHeld, NextHeld, InitToken, NextToken, PTL DEF Spec
<1>2. IInv /\ HeldInv /\ TokenInv /\ [Next]_vars =>
        [\A p \in Requests :
            LET s == SessionOf(requests[p].token)
            IN  requests[p].reply # "expire" /\ requests'[p].reply = "expire" =>
                    \/ s \in disturbed'
                    \/ sessions'[s].revoked
                    \/ sessions[s].expires <= now
                    \/ sessions[s].user \notin active]_vars
  BY RefusedOver
<1> QED
  BY <1>1, <1>2, PTL DEF Spec, RefusedOnlyWhenOver

=============================================================================
