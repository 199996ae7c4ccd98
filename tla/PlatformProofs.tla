--------------------------- MODULE PlatformProofs ---------------------------
(***************************************************************************)
(* Theorems about the two platforms an organisation is connected to.       *)
(*                                                                         *)
(* WechatAuth, for any organisations, sessions and callers and any number  *)
(* of seconds, rotations and losses: rows have their types, a revocation   *)
(* that was filed wins over every callback and renewal, and the refresh    *)
(* token that WeChat issued last is never dropped.  Two arguments carry    *)
(* the proofs.  A row authorised after a notice was filed owes that to a   *)
(* session opened in a later second, and when nothing stands no session is *)
(* younger than the last revocation.  And a grant belongs to the one       *)
(* organisation whose session obtained it, so the lock of that account     *)
(* orders everyone who could rotate its refresh token.                     *)
(*                                                                         *)
(* PublishJobs (Douyin), for any jobs, handlers and shares: the platform   *)
(* is asked for approved packages only, a job is bound to a work of its    *)
(* own share, and a job that says it is bound names the work.  No handler  *)
(* locks the job, so what a handler read may be stale when it commits.     *)
(* The argument is therefore about what a handler carries: the approval it *)
(* saw cannot be withdrawn, and the share or work it carries was issued    *)
(* for its own job, which no later step changes.                           *)
(***************************************************************************)
EXTENDS WechatAuth, PublishJobs, FiniteSetTheorems, TLAPS

Pending   == {"consented", "exchange", "upsert"}
Consented == {s \in Sessions : session[s].at \notin {"new", "open"}}
Grants    == 0 .. Cardinality(Sessions)

States  == [at: {"new", "open", "consented", "exchange", "upsert", "done"},
            org: Orgs \cup {None}, issued: 0 .. MaxTime, opened: 0 .. MaxTime, grant: Grants]
Callers == [at: {"idle", "waits", "calls", "answered"}, org: Orgs \cup {None},
            seen: Rows, answer: Tokens]

\* The two stamps of a session: the server's is not further ahead than its clock may be.
Stamps(one) == one.issued \in 1 .. now /\ one.opened \in 1 .. wechatNow /\ one.issued <= one.opened + Ahead

\* Every consent is a grant of its own, the one WeChat gave last being the highest.
SessionOk(s) ==
  /\ session[s].grant = 0 <=> session[s].at \in {"new", "open"}
  /\ session[s].at # "new" => session[s].org \in Orgs /\ Stamps(session[s])
  /\ session[s].grant <= wechat.token.grant
OneSession == \A r, s \in Sessions : session[r].grant = session[s].grant /\ session[s].grant # 0 => r = s

SessionInv ==
  /\ now \in 1 .. MaxTime /\ wechatNow \in 1 .. MaxTime /\ now <= wechatNow + Ahead
  /\ wechat \in [token: Tokens, stands: BOOLEAN]
  /\ session \in [Sessions -> States]
  /\ wechat.token.grant = Cardinality(Consented)
  /\ \A s \in Sessions : SessionOk(s)
  /\ OneSession

\* The session that obtained the grant is over and was the organisation's.
Obtained(s, o, grant) ==
  session[s].at = "done" /\ session[s].org = o /\ session[s].grant = grant /\ grant # 0
Owns(o, grant) == \E s \in Sessions : Obtained(s, o, grant)

RowInv ==
  /\ auth \in [Orgs -> Rows]
  /\ \A o \in Orgs : auth[o].status = "authorized" => Owns(o, auth[o].token.grant)

\* Who holds the lock read the row as it still is, unless it was taken off that grant.
Holds(w) == worker[w].at \in {"calls", "answered"}
CallOk(w) ==
  LET o == worker[w].org  seen == worker[w].seen  answer == worker[w].answer IN
  /\ worker[w].at # "idle" => o \in Orgs
  /\ Holds(w) => /\ seen.status = "authorized" /\ ~seen.fresh
                 /\ Owns(o, seen.token.grant)
                 /\ auth[o] = seen \/ auth[o].token.grant # seen.token.grant
  /\ worker[w].at = "answered" =>
       /\ answer.grant = seen.token.grant
       /\ answer.grant = wechat.token.grant => answer = wechat.token
OneCall == \A v, w \in Workers : Holds(v) /\ Holds(w) /\ worker[v].org = worker[w].org => v = w

CallInv ==
  /\ worker \in [Workers -> Callers]
  /\ \A w \in Workers : CallOk(w)
  /\ OneCall

\* When nothing stands, every grant is as old as a revocation.
RevokedAt(opened) == \E t \in revoked : opened <= t
OldGrants == ~wechat.stands => \A s \in Sessions : session[s].grant # 0 => RevokedAt(session[s].opened)
\* Who completed: a session that is over.
CompletedBy(c, s) == /\ session[s].at = "done" /\ session[s].grant # 0
                     /\ session[s].org = c.org /\ session[s].issued = c.time
\* A row that is authorised in spite of a notice is so by a younger session.
FiledLast == \A e \in events : \A o \in e.orgs : auth[o].status = "authorized" => Outdated(o, e.time)

NoticeInv ==
  /\ revoked \subseteq 1 .. MaxTime
  /\ events \subseteq [time: 1 .. MaxTime, orgs: SUBSET Orgs]
  /\ completed \subseteq [org: Orgs, time: 1 .. MaxTime]
  /\ \A c \in completed : \E s \in Sessions : CompletedBy(c, s)
  /\ OldGrants /\ FiledLast

\* A refresh token is not rotated before its grant is in a row.
FirstTurn == \A s \in Sessions :
  session[s].at \in Pending /\ session[s].grant = wechat.token.grant => wechat.token.turn = 0
RotationInv ==
  /\ losses \in 0 .. MaxLosses
  /\ wechat.stands => wechat.token.grant # 0
  /\ FirstTurn /\ RotationKept

Inv == SessionInv /\ RowInv /\ CallInv /\ NoticeInv /\ RotationInv

------------------------------------------------------------------------------
\* No token, and what has none.
LEMMA NoTokenTypes ==
  /\ Cardinality(Sessions) \in Nat
  /\ NoToken \in Tokens /\ NoToken.grant = 0 /\ NoAuth \in Rows
  /\ NoCall \in Callers /\ Closed \in States
<1>1. Cardinality(Sessions) \in Nat
  BY SessionsAssumption, FS_CardinalityType
<1>2. NoToken \in Tokens /\ NoToken.grant = 0
  BY <1>1, BoundsAssumption DEF NoToken, Tokens
<1>3. NoAuth \in Rows
  BY <1>2 DEF NoAuth, Rows
<1>4. NoCall \in Callers
  BY <1>2, <1>3 DEF NoCall, Callers
<1>5. Closed \in States
  BY <1>1, BoundsAssumption DEF Closed, States, Grants
<1> QED BY <1>1, <1>2, <1>3, <1>4, <1>5

\* A grant was obtained by one session only.
LEMMA OneOwner ==
  ASSUME SessionInv, NEW o \in Orgs, NEW p \in Orgs, NEW grant, Owns(o, grant), Owns(p, grant)
  PROVE  o = p
BY DEF SessionInv, OneSession, Owns, Obtained

\* Steps that leave the sessions and the grant alone, though time may pass.
LEMMA SameSessions ==
  ASSUME SessionInv, UNCHANGED session, wechat'.token.grant = wechat.token.grant,
         wechat' \in [token: Tokens, stands: BOOLEAN],
         now' \in 1 .. MaxTime, now <= now', wechatNow' \in 1 .. MaxTime, wechatNow <= wechatNow',
         now' <= wechatNow' + Ahead
  PROVE  SessionInv'
<1>1. \A s \in Sessions : SessionOk(s)'
  <2> SUFFICES ASSUME NEW s \in Sessions PROVE SessionOk(s)'
    OBVIOUS
  <2>1. SessionOk(s) /\ session[s] \in States
    BY DEF SessionInv
  <2> QED BY <2>1, BoundsAssumption DEF SessionInv, SessionOk, Stamps, States
<1> QED BY <1>1 DEF SessionInv, OneSession, Consented

\* A session goes on without a new grant.
LEMMA SessionGoesOn ==
  ASSUME SessionInv, UNCHANGED <<now, wechatNow, wechat>>, NEW s \in Sessions,
         NEW next \in States, session' = [session EXCEPT ![s] = next],
         next.grant = session[s].grant,
         next.at \in {"new", "open"} <=> session[s].at \in {"new", "open"},
         next.at # "new" => next.org \in Orgs /\ Stamps(next)
  PROVE  SessionInv'
<1>1. session' \in [Sessions -> States]
  BY DEF SessionInv
<1>2. Consented' = Consented
  BY DEF Consented, SessionInv
<1>3. \A r \in Sessions : SessionOk(r)'
  BY DEF SessionOk, Stamps, SessionInv
<1>4. OneSession'
  BY DEF OneSession, SessionInv
<1> QED BY <1>1, <1>2, <1>3, <1>4 DEF SessionInv

\* A consent is a grant of its own.
LEMMA ConsentKeepsSessions ==
  ASSUME SessionInv, NEW s \in Sessions, Consent(s)
  PROVE  SessionInv'
<1> PICK grant : grant = wechat.token.grant + 1
  OBVIOUS
<1>1. /\ session[s].at = "open" /\ session[s] \in States /\ UNCHANGED <<now, wechatNow>>
      /\ session' = [session EXCEPT ![s].at = "consented", ![s].grant = grant]
      /\ wechat' = [token |-> [grant |-> grant, turn |-> 0], stands |-> TRUE]
  BY DEF Consent, SessionInv
<1>2. wechat.token.grant \in Nat
  BY NoTokenTypes DEF SessionInv, Tokens
<1>3. s \notin Consented /\ Consented' = Consented \cup {s}
  BY <1>1 DEF Consented, SessionInv
<1>4. grant = Cardinality(Consented') /\ grant <= Cardinality(Sessions)
  <2>1. IsFiniteSet(Consented) /\ IsFiniteSet(Consented')
    BY SessionsAssumption, FS_Subset DEF Consented
  <2>2. Cardinality(Consented') = Cardinality(Consented) + 1
    BY <1>3, <2>1, FS_AddElement
  <2>3. Cardinality(Consented') <= Cardinality(Sessions)
    BY SessionsAssumption, FS_Subset DEF Consented
  <2> QED BY <2>2, <2>3 DEF SessionInv
<1>5. grant \in Grants /\ grant # 0
  BY <1>2, <1>4, NoTokenTypes DEF Grants
<1>6. wechat' \in [token: Tokens, stands: BOOLEAN] /\ wechat'.token.grant = grant
  BY <1>1, <1>5, BoundsAssumption DEF Tokens, Grants
<1>7. session' \in [Sessions -> States]
  <2>1. [session[s] EXCEPT !.at = "consented", !.grant = grant] \in States
    BY <1>1, <1>5 DEF States
  <2>2. session' = [session EXCEPT ![s] = [session[s] EXCEPT !.at = "consented", !.grant = grant]]
    BY <1>1 DEF SessionInv
  <2> QED BY <2>1, <2>2 DEF SessionInv
<1>8. \A r \in Sessions : session[r].grant \in Nat /\ session[r].grant < grant
  BY <1>2 DEF SessionInv, SessionOk, States, Grants
<1>9. \A r \in Sessions \ {s} : session'[r] = session[r]
  BY <1>1 DEF SessionInv
<1>10. /\ session'[s].at = "consented" /\ session'[s].grant = grant
       /\ session'[s].org = session[s].org /\ session'[s].issued = session[s].issued
       /\ session'[s].opened = session[s].opened
  BY <1>1 DEF SessionInv, States
<1>11. \A r \in Sessions : SessionOk(r)'
  <2>1. SessionOk(s)'
    <3>1. session[s].org \in Orgs /\ Stamps(session[s])
      BY <1>1 DEF SessionOk, SessionInv
    <3>2. grant <= grant
      BY <1>2
    <3> QED BY <1>1, <1>5, <1>6, <1>10, <3>1, <3>2 DEF SessionOk, Stamps
  <2>2. \A r \in Sessions \ {s} : SessionOk(r)'
    BY <1>1, <1>2, <1>6, <1>8, <1>9 DEF SessionOk, Stamps, SessionInv
  <2> QED BY <2>1, <2>2
<1>12. OneSession'
  BY <1>8, <1>9, <1>10 DEF OneSession, SessionInv
<1> QED BY <1>1, <1>4, <1>6, <1>7, <1>11, <1>12 DEF SessionInv

\* The sessions' part of the invariant, for every step.
LEMMA SessionsKept ==
  ASSUME Inv, [Next]_vars
  PROVE  SessionInv'
<1> SessionInv /\ CallInv
  BY DEF Inv
<1>1. CASE UNCHANGED <<session, now, wechatNow, wechat>>
  BY <1>1, BoundsAssumption, SameSessions DEF SessionInv
<1>2. CASE Tick \/ TickAtWechat
  BY <1>2, SameSessions, BoundsAssumption DEF Tick, TickAtWechat, SessionInv
<1>3. CASE Withdraw
  <2>1. wechat' \in [token: Tokens, stands: BOOLEAN] /\ wechat'.token.grant = wechat.token.grant
    BY <1>3 DEF Withdraw, SessionInv
  <2> QED BY <1>3, <2>1, SameSessions, BoundsAssumption DEF Withdraw, SessionInv
<1>4. ASSUME NEW s \in Sessions, Consent(s) PROVE SessionInv'
  BY <1>4, ConsentKeepsSessions
<1>5. ASSUME NEW s \in Sessions, Consume(s) \/ Exchange(s) \/ Upsert(s) PROVE SessionInv'
  <2>1. PICK at \in {"exchange", "upsert", "done"} :
          session' = [session EXCEPT ![s] = [session[s] EXCEPT !.at = at]]
    BY <1>5 DEF Consume, Exchange, Upsert, SessionInv
  <2>2. session[s] \in States /\ session[s].at \in Pending /\ SessionOk(s)
       /\ UNCHANGED <<now, wechatNow, wechat>>
    BY <1>5 DEF Consume, Exchange, Upsert, SessionInv, Pending
  <2>3. [session[s] EXCEPT !.at = at] \in States
    BY <2>2 DEF States
  <2>4. PICK next \in States : next = [session[s] EXCEPT !.at = at]
    BY <2>3
  <2>5. next.grant = session[s].grant /\ next.org = session[s].org
        /\ next.issued = session[s].issued /\ next.opened = session[s].opened /\ next.at = at
    BY <2>2, <2>4 DEF States
  <2>6. session' = [session EXCEPT ![s] = next]
    BY <2>1, <2>4
  <2>7. session[s].at # "new" /\ session[s].at # "open" /\ at # "new" /\ at # "open"
    BY <2>2 DEF Pending
  <2>8. next.org \in Orgs /\ Stamps(next)
    BY <2>2, <2>5, <2>7 DEF SessionOk, Stamps
  <2>9. /\ next.at \in {"new", "open"} <=> session[s].at \in {"new", "open"}
        /\ next.at # "new" => next.org \in Orgs /\ Stamps(next)
        /\ UNCHANGED <<now, wechatNow, wechat>> /\ next.grant = session[s].grant
    BY <2>2, <2>5, <2>7, <2>8
  <2> QED BY <2>6, <2>9, SessionGoesOn
<1>6. ASSUME NEW s \in Sessions, NEW o \in Orgs, Open(s, o) PROVE SessionInv'
  <2>1. [at |-> "open", org |-> o, issued |-> now, opened |-> wechatNow, grant |-> 0] \in States
    BY BoundsAssumption, NoTokenTypes DEF States, Grants, SessionInv
  <2>2. PICK next \in States : next = [at |-> "open", org |-> o, issued |-> now, opened |-> wechatNow, grant |-> 0]
    BY <2>1
  <2>3. session' = [session EXCEPT ![s] = next] /\ UNCHANGED <<now, wechatNow, wechat>>
    BY <1>6, <2>2 DEF Open
  <2>4. session[s].at = "new" /\ session[s].grant = 0
    BY <1>6 DEF Open, SessionInv, SessionOk
  <2>5. Stamps(next)
    BY <2>2, BoundsAssumption DEF SessionInv, Stamps
  <2>6. /\ next.at \in {"new", "open"} <=> session[s].at \in {"new", "open"}
        /\ next.at # "new" => next.org \in Orgs /\ Stamps(next)
        /\ next.grant = session[s].grant
    BY <2>2, <2>4, <2>5
  <2> QED BY <2>3, <2>6, SessionGoesOn
<1>7. ASSUME NEW w \in Workers, Renew(w) PROVE SessionInv'
  <2>1. wechat' \in [token: Tokens, stands: BOOLEAN] /\ wechat'.token.grant = wechat.token.grant
    BY <1>7 DEF Renew, SessionInv, Tokens
  <2> QED BY <1>7, <2>1, SameSessions, BoundsAssumption DEF Renew, SessionInv
<1>8. ASSUME NEW w \in Workers, Call(w) PROVE SessionInv'
  BY <1>1, <1>7, <1>8 DEF Call, GiveUp, Enter, Lose, Store, Ask
<1> QED BY <1>1, <1>2, <1>3, <1>4, <1>5, <1>6, <1>8 DEF Next, Authorise, Revoke, Age, vars

\* A session that is over stays as it is.
LEMMA OwnersStay ==
  ASSUME Inv, [Next]_vars, NEW o, NEW grant, Owns(o, grant)
  PROVE  Owns(o, grant)'
<1>1. PICK s \in Sessions : Obtained(s, o, grant)
  BY DEF Owns
<1>2. session'[s] = session[s]
  <2> SessionInv /\ session[s].at = "done"
    BY <1>1 DEF Inv, Obtained
  <2>1. CASE UNCHANGED session
    BY <2>1
  <2>2. ASSUME NEW r \in Sessions, Authorise(r) PROVE session'[s] = session[s]
    <3>1. s # r => session'[s] = session[s]
      BY <2>2 DEF Authorise, Consent, Consume, Exchange, Upsert, Open, SessionInv
    <3>2. s # r
      BY <2>2 DEF Authorise, Consent, Consume, Exchange, Upsert, Open
    <3> QED BY <3>1, <3>2
  <2> QED BY <2>1, <2>2 DEF Next, Tick, TickAtWechat, Withdraw, Revoke, Age, Call, GiveUp, Enter, Renew,
                            Lose, Store, Ask, vars
<1> QED BY <1>1, <1>2 DEF Owns, Obtained

\* The lock: while a caller stores, no other one holds the account.
LEMMA StoredRow ==
  ASSUME RowInv, CallInv, NEW w \in Workers, Store(w), auth' # auth
  PROVE  LET o == worker[w].org  row == auth'[o] IN
         /\ o \in Orgs /\ auth' = [auth EXCEPT ![o] = row]
         /\ auth[o] = worker[w].seen /\ auth[o].status = "authorized"
         /\ row \in Rows /\ row.status = "authorized" /\ row.token = worker[w].answer
         /\ worker[w].answer.grant = auth[o].token.grant
<1>1. CallOk(w) /\ worker[w] \in Callers /\ worker[w].at = "answered"
  BY DEF CallInv, Store
<1>2. PICK o, answer : o = worker[w].org /\ answer = worker[w].answer
  OBVIOUS
<1>3. o \in Orgs /\ answer \in Tokens
  BY <1>1, <1>2 DEF CallOk, Callers
<1>4. PICK row \in Rows : row = auth[o]
  BY <1>3 DEF RowInv
<1>5. row = worker[w].seen
  BY <1>2, <1>4 DEF Store, Unchanged
<1>6. row.status = "authorized" /\ answer.grant = row.token.grant
  BY <1>1, <1>2, <1>5 DEF CallOk, Holds
<1>7. auth' = [auth EXCEPT ![o] = [row EXCEPT !.token = answer, !.fresh = TRUE]]
  BY <1>2, <1>3, <1>4 DEF Store, RowInv
<1>8. /\ [row EXCEPT !.token = answer, !.fresh = TRUE] \in Rows
      /\ [row EXCEPT !.token = answer, !.fresh = TRUE].status = "authorized"
      /\ [row EXCEPT !.token = answer, !.fresh = TRUE].token = answer
  BY <1>3, <1>6 DEF Rows
<1>9. auth'[o] = [row EXCEPT !.token = answer, !.fresh = TRUE]
  BY <1>3, <1>7 DEF RowInv
<1> QED BY <1>2, <1>3, <1>4, <1>5, <1>6, <1>7, <1>8, <1>9

\* What a step makes of a row: an older one, a cleared one, one of a session that is over
\* now, or the row with the token renewed.
Same(o)      == auth'[o] = auth[o]
Aged(o)      == auth[o].fresh /\ auth'[o] = [auth[o] EXCEPT !.fresh = FALSE]
Taken(o)     == auth[o].status # "absent" /\ auth'[o] = Cleared(auth[o])
Given(s, o)  == /\ Upsert(s) /\ o = session[s].org /\ ~Superseded(o, session[s].issued)
                /\ auth'[o] = [status |-> "authorized", fresh |-> TRUE,
                               token |-> [grant |-> session[s].grant, turn |-> 0]]
Renewed(w, o) == /\ Store(w) /\ worker[w].org = o /\ auth[o] = worker[w].seen
                 /\ auth'[o] \in Rows
                 /\ auth[o].status = "authorized" /\ auth'[o].status = "authorized"
                 /\ auth'[o].token = worker[w].answer
                 /\ worker[w].answer.grant = auth[o].token.grant

\* Every step does one of these to every row.
LEMMA RowMoves ==
  ASSUME Inv, [Next]_vars
  PROVE  /\ DOMAIN auth' = Orgs /\ auth' = [o \in Orgs |-> auth'[o]]
         /\ \A o \in Orgs : \/ Same(o) \/ Aged(o) \/ Taken(o)
                            \/ \E s \in Sessions : Given(s, o)
                            \/ \E w \in Workers : Renewed(w, o)
<1> DEFINE Moves == /\ DOMAIN auth' = Orgs /\ auth' = [o \in Orgs |-> auth'[o]]
                    /\ \A o \in Orgs : \/ Same(o) \/ Aged(o) \/ Taken(o)
                                       \/ \E s \in Sessions : Given(s, o)
                                       \/ \E w \in Workers : Renewed(w, o)
<1> RowInv /\ SessionInv /\ CallInv
  BY DEF Inv
<1>1. CASE UNCHANGED auth
  BY <1>1 DEF Same, RowInv
<1>2. ASSUME NEW s \in Sessions, Upsert(s) PROVE Moves
  <2>1. session[s].org \in Orgs
    BY <1>2 DEF SessionInv, SessionOk, Upsert
  <2>2. CASE Superseded(session[s].org, session[s].issued)
    BY <1>1, <1>2, <2>2 DEF Upsert
  <2>3. CASE ~Superseded(session[s].org, session[s].issued)
    <3>1. auth' = [auth EXCEPT ![session[s].org] =
                    [status |-> "authorized", fresh |-> TRUE,
                     token |-> [grant |-> session[s].grant, turn |-> 0]]]
      BY <1>2, <2>3 DEF Upsert
    <3>2. Given(s, session[s].org)
      BY <1>2, <2>1, <2>3, <3>1 DEF Given, RowInv
    <3> QED BY <2>1, <3>1, <3>2 DEF Same, RowInv
  <2> QED BY <2>2, <2>3
<1>3. ASSUME NEW t \in 1 .. MaxTime, Revoke(t) PROVE Moves
  BY <1>3 DEF Revoke, Same, Taken, RowInv
<1>4. ASSUME NEW o \in Orgs, Age(o) PROVE Moves
  <2>1. auth' = [auth EXCEPT ![o] = [auth[o] EXCEPT !.fresh = FALSE]] /\ auth[o].fresh
    BY <1>4 DEF Age, RowInv
  <2> QED BY <2>1 DEF Aged, Same, RowInv
<1>5. ASSUME NEW w \in Workers, Store(w) PROVE Moves
  <2>1. CASE auth' # auth
    <3>1. Renewed(w, worker[w].org) /\ worker[w].org \in Orgs
      BY <1>5, <2>1, StoredRow DEF Renewed, RowInv
    <3>2. auth' = [auth EXCEPT ![worker[w].org] = auth'[worker[w].org]]
      BY <1>5, <2>1, StoredRow DEF RowInv
    <3> QED BY <3>1, <3>2 DEF Same, RowInv
  <2> QED BY <1>1, <2>1
<1> QED BY <1>1, <1>2, <1>3, <1>4, <1>5
        DEF Next, Tick, TickAtWechat, Withdraw, Authorise, Consent, Consume, Exchange, Open, Call, GiveUp,
            Enter, Renew, Lose, Ask, vars

\* The rows' part of the invariant.
LEMMA RowsKept ==
  ASSUME Inv, [Next]_vars
  PROVE  RowInv'
<1>1. ASSUME NEW o \in Orgs
      PROVE  auth'[o] \in Rows /\ (auth[o].status = "authorized" => Owns(o, auth[o].token.grant))'
  <2>0. /\ auth[o] \in Rows /\ (auth[o].status = "authorized" => Owns(o, auth[o].token.grant))
    BY DEF Inv, RowInv
  <2>1. PICK row, grant : row \in Rows /\ row = auth[o] /\ grant = auth[o].token.grant
    BY <2>0
  <2>2. row.status = "authorized" => Owns(o, grant)'
    BY <2>0, <2>1, OwnersStay
  <2>3. /\ row \in [status: {"absent", "authorized", "unauthorized"}, token: Tokens,
                     fresh: BOOLEAN]
        /\ row.status # "authorized" => row.token = NoToken /\ ~row.fresh
    BY <2>1 DEF Rows
  <2>4. CASE Same(o)
    BY <2>1, <2>2, <2>4 DEF Same
  <2>5. CASE Aged(o)
    <3>1. /\ auth'[o] = [row EXCEPT !.fresh = FALSE]
          /\ auth'[o].status = row.status /\ auth'[o].token = row.token
      BY <2>1, <2>3, <2>5 DEF Aged
    <3>2. auth'[o] \in Rows
      BY <2>3, <3>1 DEF Rows
    <3> QED BY <2>1, <2>2, <3>1, <3>2
  <2>6. CASE Taken(o)
    BY <2>6, NoTokenTypes DEF Taken, Cleared, Rows
  <2>7. ASSUME NEW s \in Sessions, Given(s, o)
        PROVE  auth'[o] \in Rows /\ (auth[o].status = "authorized" => Owns(o, auth[o].token.grant))'
    <3>1. SessionInv /\ session[s] \in States /\ SessionOk(s) /\ session[s].at = "upsert"
      BY <2>7 DEF Inv, SessionInv, Given, Upsert
    <3>2. PICK given : given = session[s].grant
      OBVIOUS
    <3>3. given \in Grants /\ given # 0
      BY <3>1, <3>2 DEF States, SessionOk
    <3>4. auth'[o] = [status |-> "authorized", fresh |-> TRUE, token |-> [grant |-> given, turn |-> 0]]
      BY <2>7, <3>2 DEF Given
    <3>5. auth'[o] \in Rows
      BY <3>3, <3>4, BoundsAssumption DEF Rows, Tokens, Grants
    <3>6. Obtained(s, o, given)'
      <4>1. session'[s] = [session[s] EXCEPT !.at = "done"] /\ session[s].org = o
        BY <2>7, <3>1 DEF Given, Upsert, SessionInv
      <4> QED BY <3>1, <3>2, <3>3, <4>1 DEF Obtained, States
    <3> QED BY <3>4, <3>5, <3>6 DEF Owns
  <2>8. ASSUME NEW w \in Workers, Renewed(w, o)
        PROVE  auth'[o] \in Rows /\ (auth[o].status = "authorized" => Owns(o, auth[o].token.grant))'
    BY <2>1, <2>2, <2>8 DEF Renewed
  <2> QED BY <2>4, <2>5, <2>6, <2>7, <2>8, RowMoves
<1> QED BY <1>1, RowMoves DEF RowInv

\* A session that waits for its exchange has a grant that nobody holds.
LEMMA FreshGrant ==
  ASSUME SessionInv, NEW s \in Sessions, session[s].at \in Pending, NEW o \in Orgs,
         NEW grant, Owns(o, grant)
  PROVE  session[s].grant # grant
BY DEF SessionInv, OneSession, Owns, Obtained, Pending

\* While a caller holds the lock, the row is the one it read or has another grant.
LEMMA SeenStays ==
  ASSUME Inv, [Next]_vars, NEW w \in Workers, Holds(w), ~Store(w)
  PROVE  LET o == worker[w].org  seen == worker[w].seen IN
         auth'[o] = seen \/ auth'[o].token.grant # seen.token.grant
<1> PICK o, seen : o = worker[w].org /\ seen = worker[w].seen
  OBVIOUS
<1>1. /\ o \in Orgs /\ seen.status = "authorized" /\ ~seen.fresh /\ Owns(o, seen.token.grant)
      /\ auth[o] = seen \/ auth[o].token.grant # seen.token.grant
  BY DEF Inv, CallInv, CallOk, Holds
<1>2. seen.token.grant # 0
  BY <1>1 DEF Owns, Obtained
<1>3. CASE Same(o)
  BY <1>1, <1>3 DEF Same
<1>4. CASE Aged(o)
  <2>1. auth[o] \in Rows
    BY <1>1 DEF Inv, RowInv
  <2>2. auth'[o].token = auth[o].token
    BY <1>4, <2>1 DEF Aged, Rows
  <2> QED BY <1>1, <1>4, <2>2 DEF Aged
<1>5. CASE Taken(o)
  BY <1>2, <1>5, NoTokenTypes DEF Taken, Cleared
<1>6. ASSUME NEW s \in Sessions, Given(s, o) PROVE auth'[o].token.grant # seen.token.grant
  <2>1. session[s].grant # seen.token.grant
    BY <1>1, <1>6, FreshGrant DEF Inv, Given, Upsert, Pending
  <2> QED BY <1>6, <2>1 DEF Given
<1>7. ASSUME NEW v \in Workers, Renewed(v, o) PROVE FALSE
  <2>1. Holds(v) /\ worker[v].org = o
    BY <1>7 DEF Renewed, Store, Holds
  <2>2. v = w
    BY <2>1 DEF Inv, CallInv, OneCall
  <2> QED BY <1>7, <2>2 DEF Renewed
<1> QED BY <1>1, <1>3, <1>4, <1>5, <1>6, <1>7, RowMoves

\* WeChat renews only the tokens of the caller's own grant.
LEMMA RenewedGrant ==
  ASSUME Inv, NEW w \in Workers, Renew(w), wechat' # wechat
  PROVE  /\ Owns(worker[w].org, wechat.token.grant) /\ worker[w].org \in Orgs /\ Holds(w)
         /\ wechat.stands /\ wechat'.stands
         /\ wechat'.token.grant = wechat.token.grant
         /\ worker'[w] = [worker[w] EXCEPT !.at = "answered", !.answer = wechat'.token]
         /\ worker'[w].org = worker[w].org /\ worker'[w].at = "answered"
         /\ worker'[w].seen = worker[w].seen /\ worker'[w].answer = wechat'.token
         /\ worker[w].seen.token = wechat.token
<1>1. /\ wechat.stands /\ wechat.token = worker[w].seen.token /\ Holds(w)
      /\ worker' = [worker EXCEPT ![w].at = "answered", ![w].answer = wechat'.token]
  BY DEF Renew, Holds
<1>2. PICK turn : wechat' = [wechat EXCEPT !.token.turn = turn]
  BY DEF Renew
<1>3. wechat'.token.grant = wechat.token.grant /\ wechat'.stands
  BY <1>1, <1>2 DEF Inv, SessionInv, Tokens
<1>4. worker[w] \in Callers /\ CallOk(w)
  BY DEF Inv, CallInv
<1>5. worker'[w] = [worker[w] EXCEPT !.at = "answered", !.answer = wechat'.token]
  BY <1>1 DEF Inv, CallInv
<1>6. /\ worker'[w].org = worker[w].org /\ worker'[w].at = "answered"
      /\ worker'[w].seen = worker[w].seen /\ worker'[w].answer = wechat'.token
  BY <1>4, <1>5 DEF Callers
<1>7. worker[w].org \in Orgs /\ Owns(worker[w].org, worker[w].seen.token.grant)
  BY <1>1, <1>4 DEF CallOk, Holds
<1> QED BY <1>1, <1>3, <1>5, <1>6, <1>7

\* What WeChat's side becomes: the same, a new grant, the same one that falls, or one whose
\* refresh token a caller rotated.
LEMMA WechatMoves ==
  ASSUME Inv, [Next]_vars
  PROVE  \/ UNCHANGED wechat
         \/ \E s \in Sessions : Consent(s)
         \/ Withdraw
         \/ \E w \in Workers : Renew(w) /\ wechat' # wechat
BY DEF Next, Tick, TickAtWechat, Revoke, Age, Authorise, Consume, Exchange, Upsert, Open, Call, GiveUp,
       Enter, Lose, Store, Ask, vars

\* A token that is owned has one of the grants so far.
LEMMA OwnedIsOld ==
  ASSUME SessionInv, NEW o \in Orgs, NEW grant, Owns(o, grant)
  PROVE  grant \in Nat /\ grant <= wechat.token.grant
<1>1. PICK s \in Sessions : session[s].grant = grant
  BY DEF Owns, Obtained
<1>2. SessionOk(s) /\ session[s] \in States
  BY DEF SessionInv
<1> QED BY <1>1, <1>2, NoTokenTypes DEF SessionOk, States, Grants

\* A caller that the step does not move.
LEMMA OtherCall ==
  ASSUME Inv, [Next]_vars, NEW v \in Workers, worker'[v] = worker[v]
  PROVE  CallOk(v)'
<1> PICK o, seen, answer : o = worker[v].org /\ seen = worker[v].seen /\ answer = worker[v].answer
  OBVIOUS
<1>1. /\ worker[v].at # "idle" => o \in Orgs
      /\ Holds(v) => seen.status = "authorized" /\ ~seen.fresh /\ Owns(o, seen.token.grant)
      /\ worker[v].at = "answered" =>
           /\ answer.grant = seen.token.grant
           /\ answer.grant = wechat.token.grant => answer = wechat.token
  BY DEF Inv, CallInv, CallOk
<1>2. Holds(v) => auth'[o] = seen \/ auth'[o].token.grant # seen.token.grant
  <2>1. ~(Holds(v) /\ Store(v))
    BY DEF Store, Holds, NoCall, Inv, CallInv
  <2> QED BY <2>1, SeenStays
<1>3. Holds(v) => Owns(o, seen.token.grant)'
  BY <1>1, OwnersStay
<1>4. ASSUME worker[v].at = "answered", answer.grant = wechat'.token.grant
      PROVE  answer = wechat'.token
  <2>1. Holds(v) /\ o \in Orgs /\ Owns(o, answer.grant) /\ answer.grant <= wechat.token.grant
        /\ wechat.token.grant \in Nat
    <3>1. Holds(v) /\ o \in Orgs /\ Owns(o, answer.grant)
      BY <1>1, <1>4 DEF Holds
    <3> QED BY <3>1, OwnedIsOld, NoTokenTypes DEF Inv, SessionInv, Tokens
  <2>2. CASE UNCHANGED wechat
    BY <1>1, <1>4, <2>2
  <2>3. CASE \E s \in Sessions : Consent(s)
    <3>1. wechat'.token.grant = wechat.token.grant + 1
      BY <2>3 DEF Consent
    <3> QED BY <1>4, <2>1, <3>1
  <2>4. CASE Withdraw
    <3>1. wechat'.token = wechat.token
      BY <2>4 DEF Withdraw, Inv, SessionInv
    <3> QED BY <1>1, <1>4, <3>1
  <2>5. ASSUME NEW w \in Workers, Renew(w), wechat' # wechat PROVE FALSE
    <3>1. /\ Owns(worker[w].org, wechat.token.grant) /\ worker[w].org \in Orgs /\ Holds(w)
          /\ wechat'.token.grant = wechat.token.grant
      BY <2>5, RenewedGrant
    <3>2. worker[w].org = worker[v].org
      BY <1>4, <2>1, <3>1, OneOwner DEF Inv
    <3>3. w = v
      BY <2>1, <3>1, <3>2 DEF Inv, CallInv, OneCall
    <3>4. worker'[v].at = "answered" /\ worker[v].at = "calls"
      BY <2>5, <3>3, RenewedGrant DEF Renew
    <3> QED BY <3>4
  <2> QED BY <2>2, <2>3, <2>4, <2>5, WechatMoves
<1> QED BY <1>1, <1>2, <1>3, <1>4 DEF CallOk, Holds

\* The caller that a step moves: the others keep what they do.
LEMMA CallMoves ==
  ASSUME Inv, NEW w \in Workers, Call(w)
  PROVE  /\ worker' = [worker EXCEPT ![w] = worker'[w]]
         /\ \/ worker'[w] = NoCall
            \/ \E o \in Orgs : worker'[w] = [worker[w] EXCEPT !.at = "waits", !.org = o]
            \/ /\ Enter(w) /\ Renewable(auth[worker[w].org]) /\ worker[w].at = "waits"
               /\ worker'[w] = [at |-> "calls", org |-> worker[w].org,
                                seen |-> auth[worker[w].org], answer |-> NoToken]
            \/ /\ Renew(w) /\ worker'[w] = [worker[w] EXCEPT !.at = "answered", !.answer = wechat'.token]
               /\ worker[w].at = "calls" /\ wechat'.token.grant = wechat.token.grant
               /\ wechat.token = worker[w].seen.token
<1>0. worker \in [Workers -> Callers] /\ wechat \in [token: Tokens, stands: BOOLEAN]
  BY DEF Inv, CallInv, SessionInv
<1>1. CASE GiveUp(w) \/ Lose(w) \/ Store(w)
  BY <1>0, <1>1 DEF GiveUp, Lose, Store
<1>2. ASSUME NEW o \in Orgs, Ask(w, o)
      PROVE  /\ worker' = [worker EXCEPT ![w] = worker'[w]]
             /\ worker'[w] = [worker[w] EXCEPT !.at = "waits", !.org = o]
  BY <1>0, <1>2 DEF Ask
<1>3. CASE Enter(w)
  BY <1>0, <1>3 DEF Enter
<1>4. CASE Renew(w)
  <2>1. CASE worker' = [worker EXCEPT ![w] = NoCall]
    BY <1>0, <2>1
  <2>2. CASE worker' = [worker EXCEPT ![w].at = "answered", ![w].answer = wechat'.token]
    <3>1. /\ worker' = [worker EXCEPT ![w] = worker'[w]]
          /\ worker'[w] = [worker[w] EXCEPT !.at = "answered", !.answer = wechat'.token]
      BY <1>0, <2>2
    <3>2. worker'[w] # NoCall
      <4>1. worker'[w].at = "answered"
        BY <1>0, <3>1 DEF Callers
      <4> QED BY <4>1 DEF NoCall
    <3>3. wechat.token = worker[w].seen.token /\ worker[w].at = "calls"
      BY <1>0, <1>4, <3>2 DEF Renew
    <3>4. wechat'.token.grant = wechat.token.grant
      BY <1>0, <1>4, <3>2 DEF Renew, Tokens
    <3> QED BY <1>4, <3>1, <3>3, <3>4
  <2> QED BY <1>4, <2>1, <2>2 DEF Renew
<1> QED BY <1>1, <1>2, <1>3, <1>4 DEF Call

\* The callers' part of the invariant.
LEMMA CallsKept ==
  ASSUME Inv, [Next]_vars
  PROVE  CallInv'
<1>0. /\ worker \in [Workers -> Callers] /\ OneCall /\ \A v \in Workers : CallOk(v)
      /\ auth \in [Orgs -> Rows] /\ wechat \in [token: Tokens, stands: BOOLEAN]
  BY DEF Inv, CallInv, RowInv, SessionInv
<1>1. CASE UNCHANGED worker
  BY <1>0, <1>1, OtherCall DEF CallInv, OneCall, Holds
<1>2. ASSUME NEW w \in Workers, Call(w)
      PROVE  CallInv'
  <2>0. worker' = [worker EXCEPT ![w] = worker'[w]] /\ worker[w] \in Callers
    BY <1>0, <1>2, CallMoves
  <2>1. \A v \in Workers \ {w} : worker'[v] = worker[v]
    BY <1>0, <2>0
  <2>2. \A v \in Workers \ {w} : CallOk(v)'
    BY <2>1, OtherCall
  <2>3. ASSUME worker'[w] \in Callers, CallOk(w)', Holds(w)' => Holds(w) /\ worker'[w].org = worker[w].org
        PROVE  CallInv'
    BY <1>0, <2>0, <2>1, <2>2, <2>3 DEF CallInv, OneCall, Holds
  <2>4. CASE worker'[w] = NoCall
    BY <2>3, <2>4, NoTokenTypes DEF CallOk, Holds, NoCall
  <2>5. ASSUME NEW o \in Orgs, worker'[w] = [worker[w] EXCEPT !.at = "waits", !.org = o]
        PROVE  CallInv'
    <3>1. worker'[w] \in Callers /\ worker'[w].at = "waits" /\ worker'[w].org = o
      BY <2>0, <2>5 DEF Callers
    <3> QED BY <2>3, <3>1 DEF CallOk, Holds
  <2>6. CASE /\ Enter(w) /\ Renewable(auth[worker[w].org]) /\ worker[w].at = "waits"
             /\ worker'[w] = [at |-> "calls", org |-> worker[w].org,
                              seen |-> auth[worker[w].org], answer |-> NoToken]
    <3> PICK o, seen : o = worker[w].org /\ seen = auth[o]
      OBVIOUS
    <3>1. o \in Orgs
      BY <1>0, <2>6 DEF CallOk
    <3>2. worker'[w] = [at |-> "calls", org |-> o, seen |-> seen, answer |-> NoToken]
      BY <2>6
    <3>3. worker'[w] \in Callers
      BY <1>0, <3>1, <3>2, NoTokenTypes DEF Callers
    <3>4. seen.status = "authorized" /\ ~seen.fresh /\ Owns(o, seen.token.grant)
      BY <2>6, <3>1 DEF Renewable, Inv, RowInv
    <3>5. Owns(o, seen.token.grant)'
      BY <3>4, OwnersStay
    <3>6. auth'[o] = seen
      BY <2>6 DEF Enter
    <3>7. CallOk(w)'
      BY <3>1, <3>2, <3>4, <3>5, <3>6 DEF CallOk, Holds
    <3>8. \A v \in Workers \ {w} : Holds(v)' => worker'[v].org # o
      BY <2>1, <2>6 DEF Enter, LockFree, Holds
    <3>9. OneCall'
      BY <1>0, <2>1, <3>2, <3>8 DEF OneCall, Holds
    <3> QED BY <1>0, <2>0, <2>2, <3>3, <3>7, <3>9 DEF CallInv
  <2>7. CASE /\ Renew(w) /\ worker'[w] = [worker[w] EXCEPT !.at = "answered", !.answer = wechat'.token]
             /\ worker[w].at = "calls" /\ wechat'.token.grant = wechat.token.grant
             /\ wechat.token = worker[w].seen.token
    <3> PICK o, seen, answer : o = worker[w].org /\ seen = worker[w].seen /\ answer = wechat'.token
      OBVIOUS
    <3>1. answer \in Tokens
      BY SessionsKept DEF SessionInv
    <3>2. /\ worker'[w] \in Callers /\ worker'[w].at = "answered" /\ worker'[w].org = o
          /\ worker'[w].seen = seen /\ worker'[w].answer = answer
      BY <2>0, <2>7, <3>1 DEF Callers
    <3>3. Holds(w) /\ ~Store(w)
      BY <2>7 DEF Holds, Store
    <3>4. o \in Orgs /\ seen.status = "authorized" /\ ~seen.fresh /\ Owns(o, seen.token.grant)
      BY <1>0, <3>3 DEF CallOk, Holds
    <3>5. Owns(o, seen.token.grant)'
      BY <3>4, OwnersStay
    <3>6. auth'[o] = seen \/ auth'[o].token.grant # seen.token.grant
      BY <3>3, SeenStays
    <3>7. answer.grant = seen.token.grant
      BY <2>7
    <3>8. CallOk(w)'
      BY <3>2, <3>4, <3>5, <3>6, <3>7 DEF CallOk, Holds
    <3> QED BY <2>3, <3>2, <3>3, <3>8
  <2> QED BY <1>2, <2>4, <2>5, <2>6, <2>7, CallMoves
<1> QED BY <1>1, <1>2 DEF Next, Tick, TickAtWechat, Withdraw, Revoke, Age, Authorise, Consent, Consume,
                          Exchange, Upsert, Open, vars

\* The notices' part of the invariant.
LEMMA NoticesKept ==
  ASSUME Inv, [Next]_vars
  PROVE  NoticeInv'
<1>0. NoticeInv /\ SessionInv
  BY DEF Inv
<1>1. revoked' \subseteq 1 .. MaxTime /\ revoked \subseteq revoked'
  BY <1>0 DEF NoticeInv, SessionInv, Next, Tick, TickAtWechat, Withdraw, Revoke, Age, Authorise, Consent,
              Consume, Exchange, Upsert, Open, Call, GiveUp, Enter, Renew, Lose, Store, Ask, vars
<1>2. \A c, s : CompletedBy(c, s) /\ s \in Sessions => CompletedBy(c, s)'
  <2> SUFFICES ASSUME NEW c, NEW s \in Sessions, CompletedBy(c, s)
               PROVE  session'[s] = session[s]
    BY DEF CompletedBy
  <2>1. CASE UNCHANGED session
    BY <2>1
  <2>2. ASSUME NEW r \in Sessions, Authorise(r) PROVE session'[s] = session[s]
    <3>1. s # r
      BY <2>2 DEF Authorise, Consent, Consume, Exchange, Upsert, Open, CompletedBy
    <3> QED BY <1>0, <2>2, <3>1 DEF Authorise, Consent, Consume, Exchange, Upsert, Open, SessionInv
  <2> QED BY <2>1, <2>2 DEF Next, Tick, TickAtWechat, Withdraw, Revoke, Age, Call, GiveUp, Enter,
                            Renew, Lose, Store, Ask, vars
<1>3. \/ UNCHANGED completed
      \/ \E s \in Sessions :
           /\ session[s].at = "upsert"
           /\ completed' = completed \cup {[org |-> session[s].org, time |-> session[s].issued]}
           /\ session' = [session EXCEPT ![s].at = "done"]
  BY DEF Next, Tick, TickAtWechat, Withdraw, Revoke, Age, Authorise, Consent, Consume, Exchange, Upsert,
         Open, Call, GiveUp, Enter, Renew, Lose, Store, Ask, vars
<1>4. \/ UNCHANGED events
      \/ \E t \in 1 .. MaxTime :
           /\ Revoke(t)
           /\ events' = events \cup {[time |-> t, orgs |-> FiledFor({o \in Orgs : auth[o].status # "absent"})]}
  BY DEF Next, Tick, TickAtWechat, Withdraw, Revoke, Age, Authorise, Consent, Consume, Exchange, Upsert,
         Open, Call, GiveUp, Enter, Renew, Lose, Store, Ask, vars
<1>5. /\ completed' \subseteq [org: Orgs, time: 1 .. MaxTime]
      /\ \A c \in completed' : \E s \in Sessions : CompletedBy(c, s)'
  <2>1. CASE UNCHANGED completed
    BY <1>0, <1>2, <2>1 DEF NoticeInv
  <2>2. ASSUME NEW s \in Sessions, session[s].at = "upsert",
               completed' = completed \cup {[org |-> session[s].org, time |-> session[s].issued]},
               session' = [session EXCEPT ![s].at = "done"]
        PROVE  /\ completed' \subseteq [org: Orgs, time: 1 .. MaxTime]
               /\ \A c \in completed' : \E r \in Sessions : CompletedBy(c, r)'
    <3>1. /\ session[s].org \in Orgs /\ session[s].issued \in 1 .. MaxTime
          /\ session[s].grant # 0 /\ session[s] \in States
      BY <1>0, <2>2, BoundsAssumption DEF SessionInv, SessionOk, Stamps
    <3>2. /\ session'[s].at = "done" /\ session'[s].grant = session[s].grant
          /\ session'[s].org = session[s].org /\ session'[s].issued = session[s].issued
      BY <1>0, <2>2, <3>1 DEF SessionInv, States
    <3>3. CompletedBy([org |-> session[s].org, time |-> session[s].issued], s)'
      BY <3>1, <3>2 DEF CompletedBy
    <3>4. \A c \in completed : \E r \in Sessions : CompletedBy(c, r)'
      BY <1>0, <1>2 DEF NoticeInv
    <3> QED BY <1>0, <2>2, <3>1, <3>3, <3>4 DEF NoticeInv
  <2> QED BY <1>3, <2>1, <2>2
<1>6. events' \subseteq [time: 1 .. MaxTime, orgs: SUBSET Orgs]
  <2>1. CASE UNCHANGED events
    BY <1>0, <2>1 DEF NoticeInv
  <2>2. ASSUME NEW t \in 1 .. MaxTime, NEW filed \in SUBSET Orgs,
               events' = events \cup {[time |-> t, orgs |-> filed]}
        PROVE  events' \subseteq [time: 1 .. MaxTime, orgs: SUBSET Orgs]
    BY <1>0, <2>2 DEF NoticeInv
  <2>3. FiledFor({o \in Orgs : auth[o].status # "absent"}) \in SUBSET Orgs
    BY DEF FiledFor
  <2> QED BY <1>4, <2>1, <2>2, <2>3
<1>7. OldGrants'
  <2>0. \A opened : RevokedAt(opened) => RevokedAt(opened)'
    BY <1>1 DEF RevokedAt
  <2>1. ASSUME wechat'.stands = wechat.stands,
               \A s \in Sessions : session'[s].grant # 0 =>
                 session[s].grant # 0 /\ session'[s].opened = session[s].opened
        PROVE  OldGrants'
    <3> SUFFICES ASSUME ~wechat'.stands, NEW s \in Sessions, session'[s].grant # 0
                 PROVE  RevokedAt(session[s].opened)'
      BY DEF OldGrants
    <3> PICK opened : opened = session[s].opened
      OBVIOUS
    <3>1. RevokedAt(opened) /\ session'[s].opened = opened
      BY <1>0, <2>1 DEF NoticeInv, OldGrants
    <3> QED BY <2>0, <3>1
  <2>2. CASE Withdraw
    <3> SUFFICES ASSUME NEW s \in Sessions, session[s].grant # 0
                 PROVE  RevokedAt(session[s].opened)'
      BY <2>2 DEF Withdraw, OldGrants
    <3>1. wechatNow \in revoked' /\ UNCHANGED session
      BY <2>2 DEF Withdraw
    <3>2. session[s].opened <= wechatNow
      BY <1>0 DEF SessionInv, SessionOk, Stamps
    <3> QED BY <3>1, <3>2 DEF RevokedAt
  <2>3. ASSUME NEW s \in Sessions, Consent(s) PROVE OldGrants'
    BY <2>3 DEF Consent, OldGrants
  <2>4. ASSUME NEW s \in Sessions, Consume(s) \/ Exchange(s) \/ Upsert(s) \/ \E o \in Orgs : Open(s, o)
        PROVE  OldGrants'
    <3>1. UNCHANGED wechat
      BY <2>4 DEF Consume, Exchange, Upsert, Open
    <3>2. ASSUME NEW r \in Sessions, session'[r].grant # 0
          PROVE  session[r].grant # 0 /\ session'[r].opened = session[r].opened
      <4>1. CASE r # s
        <5>1. session'[r] = session[r]
          BY <1>0, <2>4, <4>1 DEF Consume, Exchange, Upsert, Open, SessionInv
        <5> QED BY <3>2, <5>1
      <4>2. CASE r = s /\ \E o \in Orgs : Open(s, o)
        BY <1>0, <3>2, <4>2 DEF Open, SessionInv
      <4>3. CASE r = s /\ (Consume(s) \/ Exchange(s) \/ Upsert(s))
        <5>1. session[s] \in States
          BY <1>0 DEF SessionInv
        <5>2. session'[s].grant = session[s].grant /\ session'[s].opened = session[s].opened
          BY <1>0, <4>3, <5>1 DEF Consume, Exchange, Upsert, SessionInv, States
        <5> QED BY <3>2, <4>3, <5>2
      <4> QED BY <2>4, <4>1, <4>2, <4>3
    <3> QED BY <2>1, <3>1, <3>2
  <2>5. CASE wechat'.stands = wechat.stands /\ UNCHANGED session
    BY <2>1, <2>5
  <2>6. ASSUME NEW w \in Workers, Call(w) PROVE OldGrants'
    <3>1. UNCHANGED session
      BY <2>6 DEF Call, GiveUp, Enter, Renew, Lose, Store, Ask
    <3>2. wechat'.stands = wechat.stands
      BY <1>0, <2>6 DEF Call, GiveUp, Enter, Renew, Lose, Store, Ask, SessionInv
    <3> QED BY <2>5, <3>1, <3>2
  <2> QED BY <2>2, <2>3, <2>4, <2>5, <2>6 DEF Next, Authorise, Tick, TickAtWechat, Revoke, Age, vars
<1>8. ASSUME NEW e \in events', NEW o \in e.orgs, auth'[o].status = "authorized"
      PROVE  Outdated(o, e.time)'
  <2>0. o \in Orgs /\ auth[o] \in Rows
    BY <1>6, <1>0 DEF Inv, RowInv
  <2>1. CASE e \in events
    <3>1. auth[o].status = "authorized" => Outdated(o, e.time)
      BY <1>0, <2>1 DEF NoticeInv, FiledLast
    <3>2. Outdated(o, e.time) => Outdated(o, e.time)'
      BY <1>3 DEF Outdated
    <3>3. CASE Same(o) \/ Aged(o) \/ \E w \in Workers : Renewed(w, o)
      <4>1. auth[o].status = "authorized"
        BY <1>8, <2>0, <3>3 DEF Same, Aged, Renewed, Rows
      <4> QED BY <3>1, <3>2, <4>1
    <3>4. CASE Taken(o)
      BY <1>8, <3>4 DEF Taken, Cleared
    <3>5. ASSUME NEW s \in Sessions, Given(s, o) PROVE Outdated(o, e.time)'
      <4>1. session[s].org = o /\ ~Superseded(o, session[s].issued)
        BY <3>5 DEF Given
      <4>2. session[s].issued \in Nat /\ e.time \in Nat
        <5>1. session[s].issued \in 1 .. now /\ e.time \in 1 .. MaxTime /\ now \in 1 .. MaxTime
          BY <1>0, <1>6, <3>5 DEF SessionInv, SessionOk, Stamps, Given, Upsert
        <5> QED BY <5>1, BoundsAssumption
      <4>3. e.time < session[s].issued
        BY <2>1, <4>1, <4>2 DEF Superseded
      <4>4. [org |-> o, time |-> session[s].issued] \in completed'
        BY <3>5, <4>1 DEF Given, Upsert
      <4> QED BY <4>3, <4>4 DEF Outdated
    <3> QED BY <2>0, <3>3, <3>4, <3>5, RowMoves
  <2>2. ASSUME NEW t \in 1 .. MaxTime, Revoke(t), e \notin events
        PROVE  Outdated(o, e.time)'
    <3>1. e.time = t
      BY <1>8, <2>2 DEF Revoke
    <3>2. auth[o].status # "absent"
      BY <1>8, <2>0, <2>2 DEF Revoke
    <3>3. Outdated(o, t)
      BY <1>8, <2>0, <2>2, <3>2 DEF Revoke, Cleared
    <3> QED BY <2>2, <3>1, <3>3 DEF Outdated, Revoke
  <2> QED BY <1>4, <2>1, <2>2
<1>9. FiledLast'
  BY <1>8 DEF FiledLast
<1> QED BY <1>1, <1>5, <1>6, <1>7, <1>9 DEF NoticeInv

\* The rotation's part of the invariant.
LEMMA FirstTurnKept ==
  ASSUME Inv, [Next]_vars
  PROVE  FirstTurn'
<1>0. SessionInv /\ FirstTurn
  BY DEF Inv, RotationInv
<1>1. CASE UNCHANGED <<session, wechat>>
  BY <1>0, <1>1 DEF FirstTurn
<1>2. ASSUME NEW s \in Sessions, Consent(s) PROVE FirstTurn'
  BY <1>2 DEF Consent, FirstTurn
<1>3. ASSUME NEW s \in Sessions, UNCHANGED wechat,
             Consume(s) \/ Exchange(s) \/ Upsert(s) \/ \E o \in Orgs : Open(s, o)
      PROVE  FirstTurn'
  <2>1. ASSUME NEW r \in Sessions, session'[r].at \in Pending
        PROVE  session[r].at \in Pending /\ session'[r].grant = session[r].grant
    <3>1. CASE r # s
      <4>1. session'[r] = session[r]
        BY <1>0, <1>3, <3>1 DEF Consume, Exchange, Upsert, Open, SessionInv
      <4> QED BY <2>1, <4>1
    <3>2. CASE r = s /\ (Upsert(s) \/ \E o \in Orgs : Open(s, o))
      BY <1>0, <2>1, <3>2 DEF Upsert, Open, SessionInv, Pending, States
    <3>3. CASE r = s /\ (Consume(s) \/ Exchange(s))
      <4>1. session[s].at \in Pending
        BY <3>3 DEF Consume, Exchange, Pending
      <4>2. session'[s].grant = session[s].grant
        BY <1>0, <3>3 DEF Consume, Exchange, SessionInv, States
      <4> QED BY <3>3, <4>1, <4>2
    <3> QED BY <1>3, <3>1, <3>2, <3>3
  <2> QED BY <1>0, <1>3, <2>1 DEF FirstTurn
<1>4. CASE Withdraw
  <2>1. wechat'.token = wechat.token /\ UNCHANGED session
    BY <1>0, <1>4 DEF Withdraw, SessionInv
  <2> QED BY <1>0, <2>1 DEF FirstTurn
<1>5. ASSUME NEW w \in Workers, Renew(w), wechat' # wechat PROVE FirstTurn'
  <2>1. /\ Owns(worker[w].org, wechat.token.grant) /\ worker[w].org \in Orgs
        /\ wechat'.token.grant = wechat.token.grant /\ UNCHANGED session
    BY <1>5, RenewedGrant DEF Renew
  <2>2. \A s \in Sessions : session[s].at \in Pending => session[s].grant # wechat.token.grant
    BY <1>0, <2>1, FreshGrant
  <2> QED BY <2>1, <2>2 DEF FirstTurn
<1> QED BY <1>1, <1>2, <1>3, <1>4, <1>5
        DEF Next, Tick, TickAtWechat, Revoke, Age, Authorise, Consume, Exchange, Upsert, Open, Call, GiveUp,
            Enter, Renew, Lose, Store, Ask, vars

\* The row of a grant that stands: it has the last token, or the caller that holds it stores it.
LEMMA TokenKept ==
  ASSUME Inv, [Next]_vars, NEW o \in Orgs, losses' = 0, wechat'.stands,
         auth'[o].token.grant = wechat'.token.grant
  PROVE  \/ auth'[o].token = wechat'.token
         \/ \E w \in Workers : worker'[w].org = o /\ worker'[w].at = "answered"
                               /\ worker'[w].answer = wechat'.token
<1> DEFINE Kept == \/ auth'[o].token = wechat'.token
                   \/ \E w \in Workers : worker'[w].org = o /\ worker'[w].at = "answered"
                                         /\ worker'[w].answer = wechat'.token
<1>0. /\ SessionInv /\ RowInv /\ CallInv /\ RotationInv /\ auth[o] \in Rows /\ auth'[o] \in Rows
      /\ wechat \in [token: Tokens, stands: BOOLEAN]
      /\ \A v \in Workers : CallOk(v) /\ worker[v] \in Callers
  BY RowsKept DEF Inv, RowInv, SessionInv, CallInv
<1>1. auth[o].token.grant \in Nat /\ auth[o].token.grant <= wechat.token.grant
      /\ wechat.token.grant \in Nat
      /\ (auth[o].token.grant # 0 => Owns(o, auth[o].token.grant))
  <2>1. wechat.token.grant \in Nat
    BY <1>0, NoTokenTypes DEF Tokens
  <2>2. CASE auth[o].status = "authorized"
    <3>1. Owns(o, auth[o].token.grant)
      BY <1>0, <2>2 DEF RowInv
    <3> QED BY <1>0, <2>1, <3>1, OwnedIsOld
  <2>3. CASE auth[o].status # "authorized"
    <3>1. auth[o].token.grant = 0
      BY <1>0, <2>3, NoTokenTypes DEF Rows
    <3> QED BY <2>1, <3>1
  <2> QED BY <2>2, <2>3
<1>2. ASSUME NEW s \in Sessions, Consent(s) PROVE FALSE
  <2>1. wechat'.token.grant = wechat.token.grant + 1 /\ auth' = auth
    BY <1>2 DEF Consent
  <2> QED BY <1>1, <2>1
<1>3. CASE Withdraw
  BY <1>0, <1>3 DEF Withdraw
<1>4. ASSUME NEW w \in Workers, Renew(w), wechat' # wechat PROVE Kept
  <2>1. /\ Owns(worker[w].org, wechat.token.grant) /\ worker[w].org \in Orgs /\ auth' = auth
        /\ wechat'.token.grant = wechat.token.grant
        /\ worker'[w].org = worker[w].org /\ worker'[w].at = "answered"
        /\ worker'[w].answer = wechat'.token
    BY <1>4, RenewedGrant DEF Renew
  <2>2. auth[o].token.grant # 0
    BY <2>1 DEF Owns, Obtained
  <2>3. Owns(o, wechat.token.grant)
    BY <1>1, <2>1, <2>2
  <2>4. worker[w].org = o
    BY <1>0, <2>1, <2>3, OneOwner
  <2> QED BY <2>1, <2>4
<1>5. CASE UNCHANGED wechat
  <2>0. wechat.stands /\ wechat.token.grant # 0 /\ auth'[o].token.grant = wechat.token.grant
    BY <1>0, <1>5 DEF RotationInv
  <2>1. losses = 0
    <3>1. UNCHANGED losses \/ losses' = losses + 1
      BY DEF Next, Tick, TickAtWechat, Withdraw, Revoke, Age, Authorise, Consent, Consume, Exchange, Upsert,
             Open, Call, GiveUp, Enter, Renew, Lose, Store, Ask, vars
    <3> QED BY <1>0, <3>1, BoundsAssumption DEF RotationInv
  <2>2. CASE auth'[o].token = auth[o].token
    <3>1. CASE auth[o].token = wechat.token
      BY <1>5, <2>2, <3>1
    <3>2. ASSUME NEW w \in Workers, worker[w].org = o, worker[w].at = "answered",
                 worker[w].answer = wechat.token
          PROVE  Kept
      <4>1. CASE worker'[w] = worker[w]
        BY <1>5, <3>2, <4>1
      <4>2. CASE worker'[w] # worker[w]
        <5>1. Call(w)
          <6>1. ASSUME NEW v \in Workers, Call(v) PROVE v = w
            <7>1. worker' = [worker EXCEPT ![v] = worker'[v]]
              BY <6>1, CallMoves
            <7>2. CASE v # w
              <8>1. worker'[w] = worker[w]
                BY <1>0, <7>1, <7>2 DEF CallInv
              <8> QED BY <4>2, <8>1
            <7> QED BY <7>2
          <6>2. worker' # worker
            BY <4>2
          <6> QED BY <6>1, <6>2 DEF Next, Tick, TickAtWechat, Withdraw, Revoke, Age, Authorise, Consent,
                     Consume, Exchange, Upsert, Open, vars
        <5>2. Lose(w) \/ Store(w)
          BY <3>2, <5>1 DEF Call, GiveUp, Enter, Renew, Ask
        <5>3. ~Lose(w)
          BY <1>0, <2>1, BoundsAssumption DEF Lose, RotationInv
        <5>4. worker[w].answer.grant = worker[w].seen.token.grant
          BY <1>0, <3>2 DEF CallOk
        <5>5. auth[o] = worker[w].seen
          <6>1. auth[o].token.grant = worker[w].seen.token.grant
            BY <2>0, <2>2, <3>2, <5>4
          <6>2. Holds(w)
            BY <3>2 DEF Holds
          <6> QED BY <1>0, <3>2, <6>1, <6>2 DEF CallOk
        <5>6. auth'[o].token = worker[w].answer
          <6>1. auth' = [auth EXCEPT ![o] = [auth[o] EXCEPT !.token = worker[w].answer, !.fresh = TRUE]]
            BY <1>0, <3>2, <5>2, <5>3, <5>5 DEF Store, Unchanged, RowInv
          <6>2. auth'[o] = [auth[o] EXCEPT !.token = worker[w].answer, !.fresh = TRUE]
            BY <1>0, <6>1 DEF RowInv
          <6> QED BY <1>0, <6>2 DEF Rows
        <5> QED BY <1>5, <3>2, <5>6
      <4> QED BY <4>1, <4>2
    <3> QED BY <1>0, <2>0, <2>1, <2>2, <3>1, <3>2 DEF RotationInv, RotationKept
  <2>3. CASE Same(o) \/ Aged(o)
    BY <1>0, <2>2, <2>3 DEF Same, Aged, Rows
  <2>4. CASE Taken(o)
    BY <2>0, <2>4, NoTokenTypes DEF Taken, Cleared
  <2>5. ASSUME NEW s \in Sessions, Given(s, o) PROVE Kept
    <3>1. auth'[o].token = [grant |-> session[s].grant, turn |-> 0]
      BY <2>5 DEF Given
    <3>2. session[s].at \in Pending /\ session[s].grant = wechat.token.grant
      BY <2>0, <2>5, <3>1 DEF Given, Upsert, Pending
    <3>3. wechat.token.turn = 0
      BY <1>0, <3>2 DEF RotationInv, FirstTurn
    <3>4. wechat.token = [grant |-> wechat.token.grant, turn |-> 0]
      BY <1>0, <3>3 DEF Tokens
    <3> QED BY <1>5, <3>1, <3>2, <3>4
  <2>6. ASSUME NEW w \in Workers, Renewed(w, o) PROVE Kept
    <3>1. auth'[o].token = worker[w].answer /\ worker[w].at = "answered"
      BY <2>6 DEF Renewed, Store
    <3>2. worker[w].answer = wechat.token
      BY <1>0, <2>0, <3>1 DEF CallOk
    <3> QED BY <1>5, <3>1, <3>2
  <2> QED BY <2>3, <2>4, <2>5, <2>6, RowMoves
<1> QED BY <1>2, <1>3, <1>4, <1>5, WechatMoves

\* The rotation's part of the invariant, together.
LEMMA RotationsKept ==
  ASSUME Inv, [Next]_vars
  PROVE  RotationInv'
<1>1. losses' \in 0 .. MaxLosses
  <2>1. losses \in 0 .. MaxLosses
    BY DEF Inv, RotationInv
  <2>2. CASE UNCHANGED losses
    BY <2>1, <2>2
  <2>3. ASSUME NEW w \in Workers, Lose(w) PROVE losses' \in 0 .. MaxLosses
    BY <2>1, <2>3, BoundsAssumption DEF Lose
  <2> QED BY <2>2, <2>3
      DEF Next, Tick, TickAtWechat, Withdraw, Revoke, Age, Authorise, Consent, Consume, Exchange, Upsert, Open,
          Call, GiveUp, Enter, Renew, Store, Ask, vars
<1>2. wechat'.stands => wechat'.token.grant # 0
  <2>1. wechat.stands => wechat.token.grant # 0
    BY DEF Inv, RotationInv
  <2>2. wechat.token.grant \in Nat /\ wechat \in [token: Tokens, stands: BOOLEAN]
    BY NoTokenTypes DEF Inv, SessionInv, Tokens
  <2>3. ASSUME NEW w \in Workers, Renew(w), wechat' # wechat
        PROVE  wechat'.token.grant # 0
    BY <2>1, <2>3, RenewedGrant
  <2>4. ASSUME NEW s \in Sessions, Consent(s)
        PROVE  wechat'.token.grant # 0
    BY <2>2, <2>4 DEF Consent
  <2>5. CASE Withdraw
    <3>1. wechat'.token.grant = wechat.token.grant /\ wechat.stands
      BY <2>2, <2>5 DEF Withdraw
    <3> QED BY <2>1, <3>1
  <2> QED BY <2>1, <2>3, <2>4, <2>5, WechatMoves
<1>3. RotationKept'
  BY TokenKept DEF RotationKept
<1> QED BY <1>1, <1>2, <1>3, FirstTurnKept DEF RotationInv

\* The invariant holds in every reachable state.
LEMMA InvIsKept == Spec => []Inv
<1>1. Init => Inv
  <2> SUFFICES ASSUME Init PROVE Inv
    OBVIOUS
  <2>1. SessionInv
    <3>1. Consented = {}
      BY DEF Init, Consented, Closed
    <3>2. Cardinality(Consented) = 0
      BY <3>1, FS_EmptySet
    <3>3. wechat = [token |-> NoToken, stands |-> FALSE] /\ session = [s \in Sessions |-> Closed]
          /\ now = 1 /\ wechatNow = 1
      BY DEF Init
    <3>4. \A s \in Sessions : session[s].at = "new" /\ session[s].grant = 0
      BY <3>3 DEF Closed
    <3>5. \A s \in Sessions : SessionOk(s)
      BY <3>3, <3>4, NoTokenTypes DEF SessionOk
    <3>6. OneSession
      BY <3>4 DEF OneSession
    <3>7. now \in 1 .. MaxTime /\ wechatNow \in 1 .. MaxTime /\ now <= wechatNow + Ahead
      BY <3>3, BoundsAssumption
    <3> QED BY <3>2, <3>3, <3>5, <3>6, <3>7, NoTokenTypes DEF SessionInv
  <2>2. RowInv
    BY NoTokenTypes DEF Init, RowInv, NoAuth
  <2>3. CallInv
    BY NoTokenTypes DEF Init, CallInv, CallOk, OneCall, Holds, NoCall
  <2>4. NoticeInv
    BY DEF Init, NoticeInv, OldGrants, FiledLast, Closed
  <2>5. RotationInv
    BY BoundsAssumption DEF Init, RotationInv, FirstTurn, RotationKept, Pending, Closed
  <2> QED BY <2>1, <2>2, <2>3, <2>4, <2>5 DEF Inv
<1>2. Inv /\ [Next]_vars => Inv'
  BY SessionsKept, RowsKept, CallsKept, NoticesKept, RotationsKept DEF Inv
<1> QED BY <1>1, <1>2, PTL DEF Spec

\* Every row, session, notice and call has its type, and a row without authorisation
\* holds no token.
THEOREM TypesCorrect == Spec => []TypeOK
<1>1. Inv => TypeOK
  BY DEF Inv, SessionInv, RowInv, CallInv, NoticeInv, RotationInv, TypeOK, States, Callers, Grants
<1> QED BY <1>1, InvIsKept, PTL

\* Once the notice of the last revocation was filed for an organisation, no late callback,
\* notice or renewal makes its row authorised, unless a session the owner consented to was
\* opened later than Ahead seconds before that revocation.
THEOREM RevocationsWin == Spec => []RevocationWins
<1>1. Inv => RevocationWins
  <2> SUFFICES ASSUME Inv, NEW o \in Orgs, Reached(o), auth[o].status = "authorized"
               PROVE  \E s \in Sessions : session[s].org = o /\ OpenedTooLate(s)
    BY DEF RevocationWins
  <2>1. PICK e \in events : o \in e.orgs /\ \A t \in revoked : t <= e.time
    BY DEF Reached
  <2>2. PICK c \in completed : c.org = o /\ e.time < c.time
    BY <2>1 DEF Inv, NoticeInv, FiledLast, Outdated
  <2>3. PICK s \in Sessions : CompletedBy(c, s)
    BY DEF Inv, NoticeInv
  <2>4. /\ session[s].opened \in Nat /\ c.time <= session[s].opened + Ahead
        /\ e.time \in Nat /\ c.time \in Nat
    BY <2>3, BoundsAssumption DEF Inv, NoticeInv, SessionInv, SessionOk, Stamps, CompletedBy
  <2>5. \A t \in revoked : t < session[s].opened + Ahead
    BY <2>1, <2>2, <2>4, BoundsAssumption DEF Inv, NoticeInv
  <2> QED BY <2>2, <2>3, <2>5 DEF OpenedTooLate, CompletedBy
<1> QED BY <1>1, InvIsKept, PTL

\* With a server whose clock is never ahead of WeChat's, a revocation is simply final: while
\* no grant stands, no row is authorised once the notice was filed for its organisation.
Final == \A o \in Orgs : Reached(o) /\ ~wechat.stands => auth[o].status # "authorized"
THEOREM RevocationIsFinal == Ahead = 0 => (Spec => []Final)
<1>1. Inv /\ RevocationWins /\ Ahead = 0 => Final
  <2> SUFFICES ASSUME Inv, RevocationWins, Ahead = 0, NEW o \in Orgs, Reached(o),
                      ~wechat.stands, auth[o].status = "authorized"
               PROVE  FALSE
    BY DEF Final
  <2>1. PICK s \in Sessions : OpenedTooLate(s)
    BY DEF RevocationWins
  <2>2. PICK t \in revoked : session[s].opened <= t
    BY <2>1 DEF OpenedTooLate, Inv, NoticeInv, OldGrants, RevokedAt
  <2>3. t < session[s].opened + 0 /\ session[s].opened \in Nat /\ t \in Nat
    BY <2>1, <2>2, BoundsAssumption DEF OpenedTooLate, Inv, SessionInv, States, NoticeInv
  <2> QED BY <2>2, <2>3
<1> SUFFICES ASSUME Ahead = 0
             PROVE  Spec => []Final
  OBVIOUS
<1>2. Inv /\ RevocationWins => Final
  BY <1>1
<1> QED BY <1>2, InvIsKept, RevocationsWin, PTL

\* Unless an answer of WeChat was lost, the refresh token it issued last is in the row of
\* its grant, or in the hands of the caller that holds the row.
THEOREM RotationsAreKept == Spec => []RotationKept
<1>1. Inv => RotationKept
  BY DEF Inv, RotationInv
<1> QED BY <1>1, InvIsKept, PTL
------------------------------------------------------------------------------
(* Publishing through Douyin. *)

Numbers == 0 .. MaxShares
JobRows == [status: Statuses, share: Numbers, expired: BOOLEAN, work: Numbers]
Calls   == [op: Handling, of: Jobs \cup {NoJob}, seen: JobRows, arg: Numbers]

\* What a handler carries belongs to its job.
Carries(h) ==
  handler[h].op # "idle" =>
    /\ handler[h].of \in Jobs
    /\ handler[h].op = "prepare" => decision[handler[h].of] = "approved"
    /\ handler[h].op = "check" => handler[h].arg = 0
    /\ handler[h].op = "decide" => decision[handler[h].of] = "waiting"
    /\ handler[h].op = "callback" => handler[h].arg # 0 /\ handler[h].seen.work = 0
    /\ handler[h].op \in {"prepare", "callback"} /\ handler[h].arg # 0
         => issued[handler[h].arg] = {handler[h].of}

\* What a row holds belongs to its job.
RowHolds(j) ==
  /\ job[j].share # 0 => issued[job[j].share] = {j}
  /\ job[j].work # 0 => issued[job[j].work] = {j}
  /\ job[j].status = "bound" => job[j].work # 0

HandoffTypes ==
  /\ decision \in [Jobs -> Decisions]
  /\ job \in [Jobs -> JobRows]
  /\ handler \in [Handlers -> Calls]
  /\ issued \in [Shares -> SUBSET Jobs] /\ reported \subseteq Works

HandoffInv ==
  /\ HandoffTypes
  /\ \A h \in Handlers : Carries(h)
  /\ \A j \in Jobs : RowHolds(j)
  /\ SharesAreApproved

\* The lock of the tool call: one handler decides.
OneDecides == \A g, h \in Handlers :
  handler[g].op = "decide" /\ handler[h].op = "decide" /\ handler[g].of = handler[h].of => g = h

\* What the commit of a handler may do to the decisions.
DecidedBy(h) ==
  /\ decision' \in [Jobs -> Decisions]
  /\ \A j \in Jobs : decision[j] = "approved" => decision'[j] = "approved"
  /\ \A k \in Handlers \ {h} : handler[k].op = "decide" => decision'[handler[k].of] = "waiting"

\* The numbers that occur: a share, a work, or a flag.
LEMMA NumbersFit == 0 \in Numbers /\ 1 \in Numbers /\ Shares = Numbers \ {0} /\ Works = Shares
BY MaxSharesAssumption DEF Numbers, Shares, Works

\* The types, with the sets of rows and calls named.
LEMMA HandoffTypesSplit == HandoffTypes <=> HandoffTypeOK
BY DEF HandoffTypes, HandoffTypeOK, JobRows, Calls, Numbers

\* A flush writes the columns a handler changed and keeps what the row holds in the
\* others.
LEMMA FlushedRow ==
  ASSUME NEW old \in JobRows, NEW seen \in JobRows, NEW new \in JobRows, NEW row,
         row = [c \in DOMAIN NoRow |-> IF new[c] # seen[c] THEN new[c] ELSE old[c]]
  PROVE  /\ row \in JobRows
         /\ row.status = IF new.status # seen.status THEN new.status ELSE old.status
         /\ row.share = IF new.share # seen.share THEN new.share ELSE old.share
         /\ row.work = IF new.work # seen.work THEN new.work ELSE old.work
<1>1. DOMAIN NoRow = {"status", "share", "expired", "work"}
  BY DEF NoRow
<1>2. row = [status |-> row.status, share |-> row.share, expired |-> row.expired,
             work |-> row.work]
  BY <1>1
<1>3. /\ row.status = IF new.status # seen.status THEN new.status ELSE old.status
      /\ row.share = IF new.share # seen.share THEN new.share ELSE old.share
      /\ row.expired = IF new.expired # seen.expired THEN new.expired ELSE old.expired
      /\ row.work = IF new.work # seen.work THEN new.work ELSE old.work
  BY <1>1
<1>4. /\ row.status \in Statuses /\ row.share \in Numbers
      /\ row.expired \in BOOLEAN /\ row.work \in Numbers
  BY <1>3 DEF JobRows
<1> QED BY <1>2, <1>3, <1>4 DEF JobRows

\* The row and the handler a state starts with are well typed.
LEMMA EmptyRowTypes == NoRow \in JobRows /\ Free \in Calls
BY NumbersFit DEF NoRow, Free, JobRows, Calls, Statuses, Handling

------------------------------------------------------------------------------
(* Steps. *)

\* A commit that leaves the decisions alone.
LEMMA NothingDecided ==
  ASSUME HandoffInv, NEW h \in Handlers, UNCHANGED decision
  PROVE  DecidedBy(h)
BY DEF HandoffInv, HandoffTypes, Carries, DecidedBy

\* A handler that returns carries nothing any more.
LEMMA ReturnKeeps ==
  ASSUME HandoffTypes, \A k \in Handlers : Carries(k), NEW h \in Handlers, Return(h),
         DecidedBy(h), UNCHANGED issued
  PROVE  handler' \in [Handlers -> Calls] /\ \A k \in Handlers : Carries(k)'
<1>1. handler' = [handler EXCEPT ![h] = Free]
  BY DEF Return
<1>2. handler' \in [Handlers -> Calls]
  BY <1>1, EmptyRowTypes DEF HandoffTypes
<1>3. ASSUME NEW k \in Handlers
      PROVE  Carries(k)'
  <2>1. CASE k = h
    BY <1>1, <2>1 DEF Carries, Free, HandoffTypes
  <2>2. CASE k # h
    BY <1>1, <2>2 DEF Carries, HandoffTypes, DecidedBy
  <2> QED BY <2>1, <2>2
<1> QED BY <1>2, <1>3

\* A commit writes a share or a work of the handler's own job, and "bound" only
\* together with a work; whatever was committed since its read stays sound.
LEMMA FlushRows ==
  ASSUME HandoffInv, NEW h \in Handlers, handler[h].op # "idle", NEW new \in JobRows,
         Flush(h, new), UNCHANGED issued,
         \/ new.share \in {handler[h].seen.share, 0}
         \/ issued[new.share] = {handler[h].of},
         \/ /\ new.work = handler[h].seen.work
            /\ new.status = "bound" => new.status = handler[h].seen.status
         \/ /\ new.work # handler[h].seen.work
            /\ new.work # 0 /\ issued[new.work] = {handler[h].of}
  PROVE  job' \in [Jobs -> JobRows] /\ \A i \in Jobs : RowHolds(i)'
<1> PICK j \in Jobs : j = handler[h].of
  BY DEF HandoffInv, Carries
<1> PICK seen \in JobRows : seen = handler[h].seen
  BY DEF HandoffInv, HandoffTypes, Calls
<1> PICK row : row = [c \in DOMAIN NoRow |->
                    IF new[c] # handler[h].seen[c] THEN new[c] ELSE job[handler[h].of][c]]
  OBVIOUS
<1>1. job[j] \in JobRows /\ RowHolds(j) /\ job \in [Jobs -> JobRows]
  BY DEF HandoffInv, HandoffTypes
<1>2. /\ row \in JobRows
      /\ row.status = IF new.status # seen.status THEN new.status ELSE job[j].status
      /\ row.share = IF new.share # seen.share THEN new.share ELSE job[j].share
      /\ row.work = IF new.work # seen.work THEN new.work ELSE job[j].work
  <2> PICK old \in JobRows : old = job[j]
    BY <1>1
  <2>1. row = [c \in DOMAIN NoRow |-> IF new[c] # seen[c] THEN new[c] ELSE old[c]]
    OBVIOUS
  <2>2. old \in JobRows /\ seen \in JobRows /\ new \in JobRows
    OBVIOUS
  <2>3. /\ row \in JobRows
        /\ row.status = IF new.status # seen.status THEN new.status ELSE old.status
        /\ row.share = IF new.share # seen.share THEN new.share ELSE old.share
        /\ row.work = IF new.work # seen.work THEN new.work ELSE old.work
    BY ONLY <2>1, <2>2, FlushedRow
  <2> QED BY <2>3
<1>3. job' = [job EXCEPT ![j] = row]
  BY DEF Flush
<1>4. job' \in [Jobs -> JobRows]
  BY <1>1, <1>2, <1>3
<1>5. ASSUME NEW i \in Jobs
      PROVE  RowHolds(i)'
  <2>1. CASE i = j
    <3>1. row.share # 0 => issued[row.share] = {j}
      BY <1>1, <1>2 DEF RowHolds
    <3>2. /\ row.work # 0 => issued[row.work] = {j}
          /\ row.status = "bound" => row.work # 0
      BY <1>1, <1>2 DEF RowHolds
    <3> QED BY <1>1, <1>3, <2>1, <3>1, <3>2 DEF RowHolds
  <2>2. CASE i # j
    BY <1>1, <1>3, <2>2 DEF RowHolds, HandoffInv
  <2> QED BY <2>1, <2>2
<1> QED BY <1>4, <1>5

\* ... and its handler carries nothing then.
LEMMA FlushKeeps ==
  ASSUME HandoffInv, NEW h \in Handlers, handler[h].op # "idle", NEW new \in JobRows,
         Flush(h, new), Return(h), DecidedBy(h), UNCHANGED <<issued, reported>>,
         \/ new.share \in {handler[h].seen.share, 0}
         \/ issued[new.share] = {handler[h].of},
         \/ /\ new.work = handler[h].seen.work
            /\ new.status = "bound" => new.status = handler[h].seen.status
         \/ /\ new.work # handler[h].seen.work
            /\ new.work # 0 /\ issued[new.work] = {handler[h].of}
  PROVE  HandoffInv'
<1>1. job' \in [Jobs -> JobRows] /\ \A i \in Jobs : RowHolds(i)'
  BY FlushRows
<1>2. handler' \in [Handlers -> Calls] /\ \A k \in Handlers : Carries(k)'
  BY ReturnKeeps DEF HandoffInv
<1>3. SharesAreApproved'
  BY DEF HandoffInv, HandoffTypes, SharesAreApproved, DecidedBy
<1> QED BY <1>1, <1>2, <1>3 DEF HandoffInv, HandoffTypes, DecidedBy

\* A handler begins with what its job holds now.
LEMMA BeginKeeps ==
  ASSUME HandoffInv, NEW h \in Handlers, NEW j \in Jobs, NEW op \in Handling \ {"idle", "prepare"},
         NEW arg \in Numbers, Begin(h, j, op, arg),
         op = "callback" => arg # 0 /\ issued[arg] = {j} /\ job[j].work = 0,
         op = "decide" => decision[j] = "waiting", op = "check" => arg = 0,
         UNCHANGED <<decision, job, issued, reported>>
  PROVE  HandoffInv'
<1>1. handler' = [handler EXCEPT ![h] = [op |-> op, of |-> j, seen |-> job[j], arg |-> arg]]
  BY DEF Begin
<1>2. HandoffTypes'
  <2>1. [op |-> op, of |-> j, seen |-> job[j], arg |-> arg] \in Calls
    BY DEF Calls, HandoffInv, HandoffTypes
  <2> QED BY <1>1, <2>1 DEF HandoffInv, HandoffTypes
<1>3. ASSUME NEW k \in Handlers
      PROVE  Carries(k)'
  <2>1. CASE k = h
    BY <1>1, <2>1 DEF Carries, HandoffInv, HandoffTypes
  <2>2. CASE k # h
    BY <1>1, <2>2 DEF Carries, HandoffInv, HandoffTypes
  <2> QED BY <2>1, <2>2
<1>4. (\A i \in Jobs : RowHolds(i)') /\ SharesAreApproved'
  BY DEF HandoffInv, RowHolds, SharesAreApproved
<1> QED BY <1>2, <1>3, <1>4 DEF HandoffInv

\* A row whose status alone is set, to something that is not "bound".
LEMMA RowKeeps ==
  ASSUME HandoffInv, NEW j \in Jobs, NEW row \in JobRows, job' = [job EXCEPT ![j] = row],
         row.share = job[j].share, row.work = job[j].work,
         row.status = "bound" => row.status = job[j].status,
         UNCHANGED issued
  PROVE  job' \in [Jobs -> JobRows] /\ \A i \in Jobs : RowHolds(i)'
<1>1. job \in [Jobs -> JobRows] /\ \A i \in Jobs : RowHolds(i)
  BY DEF HandoffInv, HandoffTypes
<1>2. job' \in [Jobs -> JobRows]
  BY <1>1
<1>3. ASSUME NEW i \in Jobs
      PROVE  RowHolds(i)'
  <2>1. CASE i = j
    BY <1>1, <2>1 DEF RowHolds
  <2>2. CASE i # j
    BY <1>1, <2>2 DEF RowHolds
  <2> QED BY <2>1, <2>2
<1> QED BY <1>2, <1>3

\* A new job has no share and no work.
LEMMA CreateKeeps ==
  ASSUME HandoffInv, NEW h \in Handlers, NEW j \in Jobs, Create(h, j)
  PROVE  HandoffInv'
<1>1. (IF decision[j] = "approved" THEN 1 ELSE 0) \in Numbers
  BY NumbersFit
<1> QED BY <1>1, BeginKeeps DEF Create, Handling

\* A handler that reads a job carries the row as it is then.
LEMMA ReadKeeps ==
  ASSUME HandoffInv, NEW h \in Handlers, NEW j \in Jobs, NEW op \in {"check", "launch", "retry", "cancel"},
         Read(h, j, op)
  PROVE  HandoffInv'
BY NumbersFit, BeginKeeps DEF Read, Handling

\* A callback carries the share its work was issued for.
LEMMA CallbackKeeps ==
  ASSUME HandoffInv, NEW h \in Handlers, NEW w \in Works, Callback(h, w)
  PROVE  HandoffInv'
<1>1. PICK j \in Jobs : job[j].share = w /\ job[j].work = 0 /\ Begin(h, j, "callback", w)
  BY DEF Callback, SharedBy
<1>2. w \in Numbers /\ w # 0
  BY NumbersFit
<1>3. issued[w] = {j}
  BY <1>1, <1>2 DEF HandoffInv, RowHolds
<1> QED BY <1>1, <1>2, <1>3, BeginKeeps DEF Callback, Handling

\* A commit of a new job keeps every other one.
LEMMA InsertKeeps ==
  ASSUME HandoffInv, NEW h \in Handlers, Insert(h)
  PROVE  HandoffInv'
<1>1. PICK j \in Jobs : j = handler[h].of
  BY DEF HandoffInv, Carries, Insert, Serving
<1>2. HandoffTypes /\ \A k \in Handlers : Carries(k)
  BY DEF HandoffInv
<1>3. handler' \in [Handlers -> Calls] /\ \A k \in Handlers : Carries(k)'
  BY <1>2, NothingDecided, ReturnKeeps DEF Insert
<1>4. job' \in [Jobs -> JobRows] /\ \A i \in Jobs : RowHolds(i)'
  <2>1. CASE UNCHANGED job
    BY <1>2, <2>1 DEF HandoffInv, RowHolds, Insert, HandoffTypes
  <2>2. ASSUME NEW s \in {"task_created", "pending_approval"},
               job' = [job EXCEPT ![j].status = s]
        PROVE  job' \in [Jobs -> JobRows] /\ \A i \in Jobs : RowHolds(i)'
    <3> PICK row : row = [job[j] EXCEPT !.status = s]
      OBVIOUS
    <3>1. /\ row \in JobRows /\ row.status = s
          /\ row.share = job[j].share /\ row.work = job[j].work
      BY <1>2 DEF HandoffTypes, JobRows, Statuses
    <3>2. job' = [job EXCEPT ![j] = row]
      BY <2>2
    <3> QED BY <3>1, <3>2, RowKeeps DEF Insert
  <2> QED BY <1>1, <2>1, <2>2 DEF Insert
<1>5. SharesAreApproved'
  BY DEF HandoffInv, SharesAreApproved, Insert
<1> QED BY <1>2, <1>3, <1>4, <1>5 DEF HandoffInv, HandoffTypes, Insert

\* Who decides finds the tool call undecided.
LEMMA DecideKeeps ==
  ASSUME HandoffInv, NEW h \in Handlers, NEW j \in Jobs, NEW approved \in BOOLEAN, Decide(h, j, approved)
  PROVE  HandoffInv'
<1>1. (IF approved THEN 1 ELSE 0) \in Numbers
  BY NumbersFit
<1> QED BY <1>1, BeginKeeps DEF Decide, Undecided, Handling

\* A decision is made once: what was approved stays approved.
LEMMA SyncKeeps ==
  ASSUME HandoffInv, OneDecides, NEW h \in Handlers, Sync(h)
  PROVE  HandoffInv'
<1> PICK verdict \in {"approved", "rejected"} :
      verdict = IF handler[h].arg = 1 THEN "approved" ELSE "rejected"
  OBVIOUS
<1> PICK seen \in JobRows : seen = handler[h].seen
  BY DEF HandoffInv, HandoffTypes, Calls
<1>1. /\ handler[h].op = "decide" /\ Return(h) /\ UNCHANGED <<issued, reported>>
      /\ decision' = [decision EXCEPT ![handler[h].of] = verdict]
      /\ \/ UNCHANGED job
         \/ Flush(h, [seen EXCEPT !.status = AfterDecision(verdict)])
  BY DEF Sync, Serving
<1>2. handler[h].of \in Jobs /\ decision[handler[h].of] = "waiting"
  BY <1>1 DEF HandoffInv, Carries
<1>3. DecidedBy(h)
  <2>1. decision' \in [Jobs -> Decisions]
    BY <1>1, <1>2 DEF HandoffInv, HandoffTypes, Decisions
  <2>2. \A i \in Jobs : decision[i] = "approved" => decision'[i] = "approved"
    BY <1>1, <1>2 DEF HandoffInv, HandoffTypes
  <2>3. ASSUME NEW k \in Handlers \ {h}, handler[k].op = "decide"
        PROVE  decision'[handler[k].of] = "waiting"
    <3>1. handler[k].of # handler[h].of
      BY <1>1, <2>3 DEF OneDecides
    <3>2. handler[k].of \in Jobs /\ decision[handler[k].of] = "waiting"
      BY <2>3 DEF HandoffInv, Carries
    <3> QED BY <1>1, <3>1, <3>2 DEF HandoffInv, HandoffTypes
  <2> QED BY <2>1, <2>2, <2>3 DEF DecidedBy
<1>4. CASE UNCHANGED job
  <2>1. handler' \in [Handlers -> Calls] /\ \A k \in Handlers : Carries(k)'
    BY <1>1, <1>3, ReturnKeeps DEF HandoffInv
  <2>2. SharesAreApproved'
    BY <1>1, <1>3 DEF HandoffInv, HandoffTypes, SharesAreApproved, DecidedBy
  <2> QED BY <1>1, <1>3, <1>4, <2>1, <2>2 DEF HandoffInv, HandoffTypes, RowHolds, DecidedBy
<1>5. CASE Flush(h, [seen EXCEPT !.status = AfterDecision(verdict)])
  <2> PICK new : new = [seen EXCEPT !.status = AfterDecision(verdict)]
    OBVIOUS
  <2>1. /\ new \in JobRows /\ new.status # "bound"
        /\ new.share = seen.share /\ new.work = seen.work
    BY DEF JobRows, Statuses, AfterDecision
  <2> QED BY <1>1, <1>3, <1>5, <2>1, FlushKeeps
<1> QED BY <1>1, <1>4, <1>5

\* Nor does an interrupt take an approval back, or overtake a handler that decides.
LEMMA InterruptKeeps ==
  ASSUME HandoffInv, NEW j \in Jobs, DecideByInterrupt(j)
  PROVE  HandoffInv'
<1>1. /\ decision[j] = "waiting" /\ decision' = [decision EXCEPT ![j] = "interrupt"]
      /\ UNCHANGED <<job, handler, issued, reported>>
      /\ \A k \in Handlers : handler[k].op = "decide" => handler[k].of # j
  BY DEF DecideByInterrupt, Undecided, Serving
<1>2. /\ decision' \in [Jobs -> Decisions]
      /\ \A i \in Jobs : i # j => decision'[i] = decision[i]
  BY <1>1 DEF HandoffInv, HandoffTypes, Decisions
<1>3. \A k \in Handlers : Carries(k)'
  BY <1>1, <1>2 DEF HandoffInv, Carries
<1>4. SharesAreApproved'
  BY <1>1, <1>2 DEF HandoffInv, HandoffTypes, SharesAreApproved
<1> QED BY <1>1, <1>2, <1>3, <1>4 DEF HandoffInv, HandoffTypes, RowHolds

\* A handoff begins for an approved package only.
LEMMA PrepareKeeps ==
  ASSUME HandoffInv, NEW h \in Handlers, Prepare(h)
  PROVE  HandoffInv'
<1> PICK j, seen : j = handler[h].of /\ seen = handler[h].seen
  OBVIOUS
<1>1. /\ HandoffTypes /\ \A k \in Handlers : Carries(k)
      /\ handler[h] \in Calls /\ seen \in JobRows /\ j \in Jobs
      /\ handler[h].op = "check" /\ UNCHANGED <<decision, issued, reported>>
  BY DEF HandoffInv, HandoffTypes, Carries, Prepare, Serving, Calls
<1>2. CASE Return(h) /\ UNCHANGED job
  <2>1. handler' \in [Handlers -> Calls] /\ \A k \in Handlers : Carries(k)'
    BY <1>1, <1>2, NothingDecided, ReturnKeeps
  <2> QED BY <1>1, <1>2, <2>1 DEF HandoffInv, HandoffTypes, RowHolds, SharesAreApproved
<1>3. ASSUME NEW s \in Statuses, s = "expired" \/ s = seen.status, decision[j] = "approved",
             Flush(h, [seen EXCEPT !.status = s]),
             handler' = [handler EXCEPT ![h] = [@ EXCEPT !.op = "prepare", !.seen = [seen EXCEPT !.status = s]]]
      PROVE  HandoffInv'
  <2> PICK new : new = [seen EXCEPT !.status = s]
    OBVIOUS
  <2>1. /\ new \in JobRows /\ new.status = s
        /\ new.share = seen.share /\ new.work = seen.work
    BY <1>1 DEF JobRows
  <2>2. job' \in [Jobs -> JobRows] /\ \A i \in Jobs : RowHolds(i)'
    BY <1>1, <1>3, <2>1, FlushRows
  <2>3. handler' = [handler EXCEPT ![h] = [handler[h] EXCEPT !.op = "prepare", !.seen = new]]
    BY <1>1, <1>3 DEF HandoffTypes
  <2>4. handler' \in [Handlers -> Calls]
    BY <1>1, <2>1, <2>3 DEF HandoffTypes, Calls, Handling
  <2>5. ASSUME NEW k \in Handlers
        PROVE  Carries(k)'
    <3>1. CASE k = h
      <4>1. /\ handler'[k].op = "prepare" /\ handler'[k].of = j
            /\ handler'[k].arg = handler[h].arg
        BY <1>1, <2>3, <3>1 DEF HandoffTypes, Calls
      <4>2. handler[h].arg = 0
        BY <1>1 DEF Carries
      <4> QED BY <1>1, <1>3, <4>1, <4>2 DEF Carries
    <3>2. CASE k # h
      BY <1>1, <2>3, <3>2 DEF Carries, HandoffTypes
    <3> QED BY <3>1, <3>2
  <2>6. SharesAreApproved'
    BY <1>1 DEF HandoffInv, SharesAreApproved
  <2> QED BY <1>1, <2>2, <2>4, <2>5, <2>6 DEF HandoffInv, HandoffTypes
<1>4. PICK late \in BOOLEAN :
        \/ Return(h) /\ UNCHANGED job
        \/ /\ decision[j] = "approved"
           /\ Flush(h, [seen EXCEPT !.status = IF late THEN "expired" ELSE @])
           /\ handler' = [handler EXCEPT ![h] =
                [@ EXCEPT !.op = "prepare", !.seen = [seen EXCEPT !.status = IF late THEN "expired" ELSE @]]]
  BY <1>1 DEF Prepare, Approved, Late, JobRows
<1>5. seen.status \in Statuses /\ "expired" \in Statuses
  BY <1>1 DEF JobRows, Statuses
<1>6. CASE late
  BY <1>2, <1>3, <1>4, <1>5, <1>6
<1>7. CASE ~late
  BY <1>2, <1>3, <1>4, <1>5, <1>7
<1> QED BY <1>6, <1>7

\* A share is issued once, for the job of the handler that asks for it.
LEMMA IssueKeeps ==
  ASSUME HandoffInv, NEW h \in Handlers, Issue(h)
  PROVE  HandoffInv'
<1>1. PICK s \in Shares : /\ issued[s] = {}
                          /\ issued' = [issued EXCEPT ![s] = {handler[h].of}]
                          /\ handler' = [handler EXCEPT ![h].arg = s]
  BY DEF Issue
<1> PICK j \in Jobs : j = handler[h].of /\ decision[j] = "approved"
  BY DEF HandoffInv, Carries, Issue, Serving
<1>2. /\ HandoffTypes /\ (\A k \in Handlers : Carries(k)) /\ s \in Numbers /\ s # 0
      /\ handler[h].op = "prepare" /\ UNCHANGED <<decision, job, reported>>
  BY NumbersFit DEF HandoffInv, Issue, Serving
<1>3. /\ issued' \in [Shares -> SUBSET Jobs] /\ issued'[s] = {j}
      /\ \A t \in Shares \ {s} : issued'[t] = issued[t]
      /\ \A n \in Shares, i \in Jobs : issued[n] = {i} => issued'[n] = {i}
  BY <1>1, <1>2 DEF HandoffTypes
<1>4. handler' \in [Handlers -> Calls]
  BY <1>1, <1>2 DEF HandoffTypes, Calls
<1>5. ASSUME NEW k \in Handlers
      PROVE  Carries(k)'
  <2>1. CASE k = h
    <3>1. handler'[h].op = "prepare" /\ handler'[h].of = j /\ handler'[h].arg = s
      BY <1>1, <1>2 DEF HandoffTypes, Calls
    <3> QED BY <1>2, <1>3, <2>1, <3>1 DEF Carries
  <2>2. CASE k # h
    <3>1. handler'[k] = handler[k] /\ handler[k].arg \in Numbers
      BY <1>1, <1>2, <2>2 DEF HandoffTypes, Calls
    <3>2. handler[k].op # "idle" => handler[k].of \in Jobs
      BY <1>2 DEF Carries
    <3>3. handler[k].arg # 0 /\ handler[k].of \in Jobs /\ issued[handler[k].arg] = {handler[k].of}
            => issued'[handler[k].arg] = {handler[k].of}
      BY <1>3, <3>1, NumbersFit
    <3> QED BY <1>2, <3>1, <3>2, <3>3 DEF Carries
  <2> QED BY <2>1, <2>2
<1>6. ASSUME NEW i \in Jobs
      PROVE  RowHolds(i)'
  <2>1. RowHolds(i) /\ job[i].share \in Numbers /\ job[i].work \in Numbers
    BY <1>2 DEF HandoffInv, HandoffTypes, JobRows
  <2> QED BY <1>2, <1>3, <2>1, NumbersFit DEF RowHolds
<1>7. SharesAreApproved'
  BY <1>2, <1>3 DEF HandoffInv, SharesAreApproved
<1> QED BY <1>2, <1>3, <1>4, <1>5, <1>6, <1>7 DEF HandoffInv, HandoffTypes

\* Time goes by, and users publish.
LEMMA OutsideKeeps ==
  ASSUME HandoffInv, \/ \E j \in Jobs : Elapse(j)
              \/ \E s \in Shares : UserPublishes(s)
  PROVE  HandoffInv'
<1>1. HandoffTypes /\ \A k \in Handlers : Carries(k)
  BY DEF HandoffInv
<1>2. ASSUME NEW j \in Jobs, Elapse(j)
      PROVE  HandoffInv'
  <2> PICK row : row = [job[j] EXCEPT !.expired = TRUE]
    OBVIOUS
  <2>1. /\ row \in JobRows /\ row.status = job[j].status
        /\ row.share = job[j].share /\ row.work = job[j].work
    BY <1>1 DEF HandoffTypes, JobRows
  <2>2. job' = [job EXCEPT ![j] = row] /\ UNCHANGED <<decision, handler, issued, reported>>
    BY <1>2 DEF Elapse
  <2>3. job' \in [Jobs -> JobRows] /\ \A i \in Jobs : RowHolds(i)'
    BY <2>1, <2>2, RowKeeps
  <2> QED BY <1>1, <2>2, <2>3 DEF HandoffInv, HandoffTypes, Carries, SharesAreApproved
<1>3. ASSUME NEW s \in Shares, UserPublishes(s)
      PROVE  HandoffInv'
  BY <1>3, NumbersFit DEF UserPublishes, HandoffInv, HandoffTypes, Carries, RowHolds, SharesAreApproved
<1> QED BY <1>2, <1>3

\* The commits of the handlers.
LEMMA CommitKeeps ==
  ASSUME HandoffInv, NEW h \in Handlers,
         \/ PlatformFails(h) \/ HandOff(h) \/ Launch(h) \/ Retry(h) \/ Cancel(h) \/ Bind(h)
  PROVE  HandoffInv'
<1> PICK seen \in JobRows : seen = handler[h].seen
  BY DEF HandoffInv, HandoffTypes, Calls
<1>1. /\ handler[h].op # "idle" /\ handler[h].arg \in Numbers /\ Carries(h)
      /\ Return(h) /\ UNCHANGED <<decision, issued, reported>> /\ DecidedBy(h)
  BY NothingDecided
  DEF PlatformFails, HandOff, Launch, Retry, Cancel, Bind, Serving, HandoffInv, HandoffTypes, Calls
<1>3. ASSUME NEW s \in Statuses \ {"bound"}, Flush(h, [handler[h].seen EXCEPT !.status = s])
      PROVE  HandoffInv'
  <2> PICK new : new = [seen EXCEPT !.status = s]
    OBVIOUS
  <2>1. /\ new \in JobRows /\ new.status = s
        /\ new.share = seen.share /\ new.work = seen.work
    BY DEF JobRows
  <2>2. Flush(h, new)
    BY <1>3
  <2> QED BY <1>1, <2>1, <2>2, FlushKeeps
<1>4. CASE HandOff(h)
  <2> PICK new : new = [seen EXCEPT !.status = "handoff_ready", !.share = handler[h].arg,
                                    !.expired = FALSE]
    OBVIOUS
  <2>1. /\ new \in JobRows /\ new.status = "handoff_ready"
        /\ new.share = handler[h].arg /\ new.work = seen.work
    BY <1>1 DEF JobRows, Statuses
  <2>2. Flush(h, new) /\ issued[new.share] = {handler[h].of}
    BY <1>1, <1>4, <2>1 DEF HandOff, Carries, Serving
  <2> QED BY <1>1, <2>1, <2>2, FlushKeeps
<1>5. CASE Retry(h)
  <2> PICK new : new = [seen EXCEPT !.status = "task_created", !.share = 0, !.expired = FALSE]
    OBVIOUS
  <2>1. /\ new \in JobRows /\ new.status = "task_created"
        /\ new.share = 0 /\ new.work = seen.work
    BY NumbersFit DEF JobRows, Statuses
  <2>2. Flush(h, new)
    BY <1>5 DEF Retry
  <2> QED BY <1>1, <2>1, <2>2, FlushKeeps
<1>6. CASE Bind(h)
  <2> PICK new : new = Bound(seen, handler[h].arg)
    OBVIOUS
  <2>1. /\ new \in JobRows /\ new.status = "bound"
        /\ new.share = seen.share /\ new.work = handler[h].arg
    BY <1>1 DEF Bound, JobRows, Statuses
  <2>2. handler[h].arg # 0 /\ issued[handler[h].arg] = {handler[h].of} /\ seen.work = 0
    BY <1>1, <1>6 DEF Bind, Serving, Carries
  <2>3. Flush(h, new)
    BY <1>6 DEF Bind
  <2> QED BY <1>1, <2>1, <2>2, <2>3, FlushKeeps
<1>7. CASE PlatformFails(h) \/ Launch(h) \/ Cancel(h)
  <2>1. \E s \in {"failed", "expired", "waiting_bind", "cancelled"} :
          Flush(h, [handler[h].seen EXCEPT !.status = s])
    BY <1>7 DEF PlatformFails, Launch, Cancel
  <2> QED BY <1>3, <2>1 DEF Statuses
<1> QED BY <1>4, <1>5, <1>6, <1>7

------------------------------------------------------------------------------
\* One handler decides, for it finds no other one.
LEMMA DecidersKept ==
  ASSUME HandoffInv, OneDecides, HandoffNext
  PROVE  OneDecides'
<1>1. handler \in [Handlers -> Calls]
  BY DEF HandoffInv, HandoffTypes
<1>2. ASSUME NEW h \in Handlers, NEW new, handler' = [handler EXCEPT ![h] = new], new.op # "decide"
      PROVE  OneDecides'
  BY <1>1, <1>2 DEF OneDecides
<1>3. CASE UNCHANGED handler
  BY <1>3 DEF OneDecides
<1>4. ASSUME NEW h \in Handlers, NEW j \in Jobs, NEW approved \in BOOLEAN, Decide(h, j, approved)
      PROVE  OneDecides'
  <2> PICK new : new = [op |-> "decide", of |-> j, seen |-> job[j], arg |-> IF approved THEN 1 ELSE 0]
    OBVIOUS
  <2>1. handler' = [handler EXCEPT ![h] = new] /\ new.of = j
    BY <1>4 DEF Decide, Begin
  <2> QED BY <1>1, <1>4, <2>1 DEF OneDecides, Decide, Undecided, Serving
<1>5. ASSUME NEW h \in Handlers, Return(h)
      PROVE  OneDecides'
  <2>1. Free.op # "decide" /\ handler' = [handler EXCEPT ![h] = Free]
    BY <1>5 DEF Return, Free
  <2> QED BY <1>2, <2>1
<1>6. ASSUME NEW h \in Handlers, Issue(h) \/ Prepare(h)
      PROVE  OneDecides'
  <2>1. CASE Return(h)
    BY <1>5, <2>1
  <2>2. CASE ~Return(h)
    <3>1. PICK new : handler' = [handler EXCEPT ![h] = new] /\ new.op # "decide"
      <4>1. CASE Issue(h)
        <5>1. PICK s : handler' = [handler EXCEPT ![h] = [handler[h] EXCEPT !.arg = s]]
          BY <1>1, <4>1 DEF Issue
        <5>2. [handler[h] EXCEPT !.arg = s].op = "prepare"
          BY <1>1, <4>1 DEF Issue, Serving, Calls
        <5> QED BY <5>1, <5>2
      <4>2. CASE Prepare(h)
        <5>1. PICK seen : handler' = [handler EXCEPT ![h] = [handler[h] EXCEPT !.op = "prepare", !.seen = seen]]
          BY <1>1, <2>2, <4>2 DEF Prepare
        <5>2. [handler[h] EXCEPT !.op = "prepare", !.seen = seen].op = "prepare"
          BY <1>1 DEF Calls
        <5> QED BY <5>1, <5>2
      <4> QED BY <1>6, <4>1, <4>2
    <3> QED BY <1>2, <3>1
  <2> QED BY <2>1, <2>2
<1>7. ASSUME NEW h \in Handlers, NEW j, NEW op, NEW arg, Begin(h, j, op, arg), op # "decide"
      PROVE  OneDecides'
  <2> PICK new : new = [op |-> op, of |-> j, seen |-> job[j], arg |-> arg]
    OBVIOUS
  <2>1. handler' = [handler EXCEPT ![h] = new] /\ new.op # "decide"
    BY <1>7 DEF Begin
  <2> QED BY <1>2, <2>1
<1>8. ASSUME NEW h \in Handlers, Handle(h)
      PROVE  OneDecides'
  BY <1>5, <1>6, <1>8 DEF Handle, Insert, Sync, PlatformFails, HandOff, Launch, Retry, Cancel, Bind
<1>9. ASSUME NEW h \in Handlers, NEW j \in Jobs, Create(h, j)
      PROVE  OneDecides'
  BY <1>7, <1>9 DEF Create
<1>10. ASSUME NEW h \in Handlers, NEW j \in Jobs, NEW op \in {"check", "launch", "retry", "cancel"},
              Read(h, j, op)
       PROVE  OneDecides'
  BY <1>7, <1>10 DEF Read
<1>11. ASSUME NEW h \in Handlers, NEW w \in Works, Callback(h, w)
       PROVE  OneDecides'
  BY <1>7, <1>11 DEF Callback
<1> QED BY <1>3, <1>4, <1>8, <1>9, <1>10, <1>11
        DEF HandoffNext, Elapse, DecideByInterrupt, UserPublishes

\* The invariant is inductive.
LEMMA HandoffsKept == HandoffSpec => [](HandoffInv /\ OneDecides)
<1>1. HandoffInit => HandoffInv /\ OneDecides
  <2> SUFFICES ASSUME HandoffInit PROVE HandoffInv /\ OneDecides
    OBVIOUS
  <2>1. HandoffTypes
    BY EmptyRowTypes DEF HandoffInit, HandoffTypes, Decisions
  <2>2. \A h \in Handlers : Carries(h)
    BY DEF HandoffInit, Carries, Free
  <2>3. (\A j \in Jobs : RowHolds(j)) /\ SharesAreApproved
    BY DEF HandoffInit, RowHolds, NoRow, SharesAreApproved
  <2>4. OneDecides
    BY DEF HandoffInit, OneDecides, Free
  <2> QED BY <2>1, <2>2, <2>3, <2>4 DEF HandoffInv
<1>2. HandoffInv /\ OneDecides /\ [HandoffNext]_handoffVars => (HandoffInv /\ OneDecides)'
  <2> SUFFICES ASSUME HandoffInv, OneDecides, [HandoffNext]_handoffVars
               PROVE  (HandoffInv /\ OneDecides)'
    OBVIOUS
  <2>1. CASE UNCHANGED handoffVars
    BY <2>1 DEF handoffVars, HandoffInv, HandoffTypes, Carries, RowHolds, SharesAreApproved, OneDecides
  <2>2. CASE HandoffNext
    <3>1. ASSUME NEW h \in Handlers, NEW j \in Jobs, Create(h, j)
          PROVE  HandoffInv'
      BY <3>1, CreateKeeps
    <3>2. ASSUME NEW h \in Handlers, NEW j \in Jobs, NEW op \in {"check", "launch", "retry", "cancel"},
                 Read(h, j, op)
          PROVE  HandoffInv'
      BY <3>2, ReadKeeps
    <3>3. ASSUME NEW h \in Handlers, NEW j \in Jobs, NEW approved \in BOOLEAN, Decide(h, j, approved)
          PROVE  HandoffInv'
      BY <3>3, DecideKeeps
    <3>4. ASSUME NEW h \in Handlers, NEW w \in Works, Callback(h, w)
          PROVE  HandoffInv'
      BY <3>4, CallbackKeeps
    <3>5. ASSUME NEW h \in Handlers, Handle(h)
          PROVE  HandoffInv'
      BY <3>5, InsertKeeps, SyncKeeps, PrepareKeeps, IssueKeeps, CommitKeeps DEF Handle
    <3> QED BY <2>2, <3>1, <3>2, <3>3, <3>4, <3>5, OutsideKeeps, InterruptKeeps, DecidersKept
        DEF HandoffNext
  <2> QED BY <2>1, <2>2
<1> QED BY <1>1, <1>2, PTL DEF HandoffSpec

\* Every row and every handler keeps its type.
THEOREM HandoffTypesCorrect == HandoffSpec => []HandoffTypeOK
<1>1. HandoffInv => HandoffTypeOK
  BY HandoffTypesSplit DEF HandoffInv
<1> QED BY <1>1, HandoffsKept, PTL

\* The platform is asked for a share of approved packages only, in whatever
\* order a job is created, decided upon and handed off.
THEOREM OnlyApprovedShares == HandoffSpec => []SharesAreApproved
<1>1. HandoffInv => SharesAreApproved
  BY DEF HandoffInv
<1> QED BY <1>1, HandoffsKept, PTL

\* A job is bound to a work that was published with a share of its own, also
\* when a callback of an earlier handoff is late.
THEOREM WorkIsOwn == HandoffSpec => []BoundWorkIsOurs
<1>1. HandoffInv => BoundWorkIsOurs
  BY DEF HandoffInv, RowHolds, BoundWorkIsOurs
<1> QED BY <1>1, HandoffsKept, PTL

\* Whoever commits last, a job that is bound names its work.
THEOREM BoundHasWork == HandoffSpec => []BoundNamesWork
<1>1. HandoffInv => BoundNamesWork
  BY DEF HandoffInv, RowHolds, BoundNamesWork
<1> QED BY <1>1, HandoffsKept, PTL
=============================================================================
