------------------------------ MODULE WechatAuth ------------------------------
(***************************************************************************)
(* The authorisation of a WeChat official account                          *)
(* (backend/app/api/platform_integrations.py) and the renewal of its       *)
(* tokens (services/wechat_component.py).                                  *)
(*                                                                         *)
(* An administrator opens a session, the owner of the account consents at  *)
(* WeChat, and the browser comes back with a code that is exchanged for a  *)
(* grant.  WeChat notifies revocations, whenever it likes.  Workers renew  *)
(* the short-lived access token with a refresh token that WeChat may       *)
(* rotate; a worker holds the account's advisory lock during the call.     *)
(* All organisations use one component, so an account may be authorised    *)
(* for several of them, and WeChat honours the latest grant.  Times are    *)
(* whole seconds, and several things happen in the same one.  A session is *)
(* stamped by the server's clock and a revocation by WeChat's: the code    *)
(* compares the two as they are.                                           *)
(***************************************************************************)
EXTENDS Naturals, FiniteSets

CONSTANTS
  Orgs,        \* organisations that use the component
  Sessions,    \* authorisation sessions
  Workers,     \* callers that need the account's access token
  MaxTime,     \* bound: seconds that pass on either clock
  Ahead,       \* seconds by which the server's clock may be ahead of WeChat's
  MaxTurns,    \* bound: rotations of a grant's refresh token
  MaxLosses,   \* bound: answers of WeChat that are lost
  TTL,         \* seconds a session is valid
  None         \* no organisation

ASSUME BoundsAssumption ==
  /\ MaxTime \in Nat \ {0} /\ Ahead \in Nat
  /\ MaxTurns \in Nat /\ MaxLosses \in Nat /\ TTL \in Nat
ASSUME NoneAssumption == None \notin Orgs
ASSUME SessionsAssumption == IsFiniteSet(Sessions)

VARIABLES
  now,         \* the server's clock
  wechatNow,   \* WeChat's clock
  wechat,      \* WeChat's side: the latest grant, its refresh token, whether it stands
  revoked,     \* WeChat's seconds in which the owner revoked a grant
  events,      \* wechat.unauthorized rows: the second, and the organisations they are filed for
  completed,   \* wechat.authorization.completed rows: the organisation and its session's second
  session,     \* the authorisation sessions and their callbacks (opened: history, WeChat's second)
  auth,        \* the PlatformAccountAuth row of each organisation
  worker,      \* what each caller of get_authorizer_access_token does
  losses       \* answers that were lost

vars == <<now, wechatNow, wechat, revoked, events, completed, session, auth, worker, losses>>

NoToken == [grant |-> 0, turn |-> 0]
NoAuth  == [status |-> "absent", token |-> NoToken, fresh |-> FALSE]
NoCall  == [at |-> "idle", org |-> None, seen |-> NoAuth, answer |-> NoToken]
Closed  == [at |-> "new", org |-> None, issued |-> 0, opened |-> 0, grant |-> 0]

Init ==
  /\ now = 1 /\ wechatNow = 1
  /\ wechat = [token |-> NoToken, stands |-> FALSE]
  /\ revoked = {} /\ events = {} /\ completed = {}
  /\ session = [s \in Sessions |-> Closed]
  /\ auth = [o \in Orgs |-> NoAuth]
  /\ worker = [w \in Workers |-> NoCall]
  /\ losses = 0

------------------------------------------------------------------------------
(* The owner and WeChat. *)

\* The server's clock may be behind WeChat's for any reason, and ahead of it a little.
Tick ==
  /\ now < MaxTime /\ now < wechatNow + Ahead
  /\ now' = now + 1
  /\ UNCHANGED <<wechatNow, wechat, revoked, events, completed, session, auth, worker, losses>>

TickAtWechat ==
  /\ wechatNow < MaxTime
  /\ wechatNow' = wechatNow + 1
  /\ UNCHANGED <<now, wechat, revoked, events, completed, session, auth, worker, losses>>

\* A consent replaces the grant before; its code goes back with the browser.
Consent(s) ==
  LET grant == wechat.token.grant + 1 IN
  /\ session[s].at = "open"
  /\ session' = [session EXCEPT ![s].at = "consented", ![s].grant = grant]
  /\ wechat' = [token |-> [grant |-> grant, turn |-> 0], stands |-> TRUE]
  /\ UNCHANGED <<now, wechatNow, revoked, events, completed, auth, worker, losses>>

Withdraw ==
  /\ wechat.stands
  /\ wechat' = [wechat EXCEPT !.stands = FALSE]
  /\ revoked' = revoked \cup {wechatNow}
  /\ UNCHANGED <<now, wechatNow, events, completed, session, auth, worker, losses>>

------------------------------------------------------------------------------
(* The authorisation. *)

Open(s, o) ==
  /\ session[s].at = "new"
  /\ session' = [session EXCEPT ![s] = [at |-> "open", org |-> o, issued |-> now,
                                        opened |-> wechatNow, grant |-> 0]]
  /\ UNCHANGED <<now, wechatNow, wechat, revoked, events, completed, auth, worker, losses>>

\* _consume_wechat_authorization_state: the state is valid once, and for a while.
\* Browsers repeat the request; only the first finds the state unconsumed.
Consume(s) ==
  /\ session[s].at = "consented"
  /\ session' = [session EXCEPT ![s].at = IF now >= session[s].issued + TTL THEN "done" ELSE "exchange"]
  /\ UNCHANGED <<now, wechatNow, wechat, revoked, events, completed, auth, worker, losses>>

\* exchange_authorization_code.  A code may still be honoured after its grant was
\* replaced; nothing is retried when the exchange fails.
Exchange(s) ==
  /\ session[s].at = "exchange"
  /\ \E next \in {"upsert", "done"} :
       /\ next = "upsert" => wechat.stands
       /\ session' = [session EXCEPT ![s].at = next]
  /\ UNCHANGED <<now, wechatNow, wechat, revoked, events, completed, auth, worker, losses>>

\* Mutant: the revocation must be younger than the session, not as old.
StrictlyNewer(o, issued) == \E e \in events : o \in e.orgs /\ e.time > issued
\* A revocation filed for the organisation, or for all, at or after the session's second.
Superseded(o, issued) == \E e \in events : o \in e.orgs /\ e.time >= issued

\* _upsert_wechat_authorization, under the lock of the integration.
Upsert(s) ==
  LET o == session[s].org  issued == session[s].issued IN
  /\ session[s].at = "upsert"
  /\ session' = [session EXCEPT ![s].at = "done"]
  /\ IF Superseded(o, issued)
     THEN UNCHANGED <<auth, completed>>
     ELSE /\ auth' = [auth EXCEPT ![o] = [status |-> "authorized", fresh |-> TRUE,
                                          token |-> [grant |-> session[s].grant, turn |-> 0]]]
          /\ completed' = completed \cup {[org |-> o, time |-> issued]}
  /\ UNCHANGED <<now, wechatNow, wechat, revoked, events, worker, losses>>

\* A session of this organisation that completed was opened after the revocation.
Outdated(o, t) == \E c \in completed : c.org = o /\ t < c.time

\* The event is filed for the organisation whose row alone matched, else for all.
FiledFor(matched) == IF Cardinality(matched) = 1 THEN matched ELSE Orgs

\* Mutant: the tokens of a revoked account stay in its row.
OnlyStatus(row) == [row EXCEPT !.status = "unauthorized"]
Cleared(row) == [status |-> "unauthorized", token |-> NoToken, fresh |-> FALSE]

\* _apply_wechat_callback_event on "unauthorized", under the locks of all the
\* integrations.  The fingerprint of an event is its second: a repetition, and a
\* second revocation in the same second, change nothing.
Revoke(t) ==
  LET matched == {o \in Orgs : auth[o].status # "absent"} IN
  /\ t \in revoked /\ \A e \in events : e.time # t
  /\ auth' = [o \in Orgs |->
       IF o \in matched /\ ~Outdated(o, t)
       THEN Cleared(auth[o]) ELSE auth[o]]
  /\ events' = events \cup {[time |-> t, orgs |-> FiledFor(matched)]}
  /\ UNCHANGED <<now, wechatNow, wechat, revoked, completed, session, worker, losses>>

------------------------------------------------------------------------------
(* The renewal of the access token. *)

Age(o) ==
  /\ auth[o].fresh
  /\ auth' = [auth EXCEPT ![o].fresh = FALSE]
  /\ UNCHANGED <<now, wechatNow, wechat, revoked, events, completed, session, worker, losses>>

Renewable(row) == row.status = "authorized" /\ ~row.fresh

\* Mutant: nothing orders the callers.
NobodyWaits(o) == TRUE
\* pg_advisory_xact_lock on the account, held until the transaction ends.
LockFree(o) == \A w \in Workers : worker[w].at \in {"idle", "waits"} \/ worker[w].org # o

\* get_authorizer_access_token: the first look, without the lock ...
Ask(w, o) ==
  /\ worker[w].at = "idle" /\ Renewable(auth[o])
  /\ worker' = [worker EXCEPT ![w].at = "waits", ![w].org = o]
  /\ UNCHANGED <<now, wechatNow, wechat, revoked, events, completed, session, auth, losses>>

\* ... and the second one, with it: someone else may have renewed the token, or revoked it.
Enter(w) ==
  LET o == worker[w].org IN
  /\ worker[w].at = "waits" /\ LockFree(o)
  /\ worker' = [worker EXCEPT ![w] = IF Renewable(auth[o])
                                     THEN [at |-> "calls", org |-> o, seen |-> auth[o], answer |-> NoToken]
                                     ELSE NoCall]
  /\ UNCHANGED <<now, wechatNow, wechat, revoked, events, completed, session, auth, losses>>

\* The component's own token cannot be had: the error ends the call.
GiveUp(w) ==
  /\ worker[w].at = "waits"
  /\ worker' = [worker EXCEPT ![w] = NoCall]
  /\ UNCHANGED <<now, wechatNow, wechat, revoked, events, completed, session, auth, losses>>

\* WeChat renews the tokens of the grant that stands, and may rotate the refresh
\* token.  It refuses those of any other grant, and any call may fail on its way
\* there; the row stays as it is then.
Renew(w) ==
  /\ worker[w].at = "calls"
  /\ \/ /\ wechat.stands /\ wechat.token = worker[w].seen.token
        /\ \E turn \in {wechat.token.turn, wechat.token.turn + 1} :
             /\ turn <= MaxTurns
             /\ wechat' = [wechat EXCEPT !.token.turn = turn]
             /\ worker' = [worker EXCEPT ![w].at = "answered", ![w].answer = wechat'.token]
     \/ worker' = [worker EXCEPT ![w] = NoCall] /\ UNCHANGED wechat
  /\ UNCHANGED <<now, wechatNow, revoked, events, completed, session, auth, losses>>

\* The call times out, or the worker dies: the transaction ends with nothing written.
Lose(w) ==
  /\ worker[w].at = "answered" /\ losses < MaxLosses
  /\ losses' = losses + 1
  /\ worker' = [worker EXCEPT ![w] = NoCall]
  /\ UNCHANGED <<now, wechatNow, wechat, revoked, events, completed, session, auth>>

\* Compare and swap: tokens and expiry as they were read, and still authorised.
Unchanged(row, seen) == row = seen

Store(w) ==
  LET o == worker[w].org IN
  /\ worker[w].at = "answered"
  /\ IF Unchanged(auth[o], worker[w].seen)
     THEN auth' = [auth EXCEPT ![o] = [@ EXCEPT !.token = worker[w].answer, !.fresh = TRUE]]
     ELSE UNCHANGED auth
  /\ worker' = [worker EXCEPT ![w] = NoCall]
  /\ UNCHANGED <<now, wechatNow, wechat, revoked, events, completed, session, losses>>

------------------------------------------------------------------------------
Authorise(s) ==
  \/ Consent(s) \/ Consume(s) \/ Exchange(s) \/ Upsert(s)
  \/ \E o \in Orgs : Open(s, o)

Call(w) ==
  \/ GiveUp(w) \/ Enter(w) \/ Renew(w) \/ Lose(w) \/ Store(w)
  \/ \E o \in Orgs : Ask(w, o)

Next ==
  \/ Tick \/ TickAtWechat \/ Withdraw
  \/ \E s \in Sessions : Authorise(s)
  \/ \E t \in 1 .. MaxTime : Revoke(t)
  \/ \E o \in Orgs : Age(o)
  \/ \E w \in Workers : Call(w)

Spec == Init /\ [][Next]_vars

------------------------------------------------------------------------------
(* Properties. *)

Tokens == [grant: 0 .. Cardinality(Sessions), turn: 0 .. MaxTurns]
\* A row without authorisation holds no token.
Rows == {r \in [status: {"absent", "authorized", "unauthorized"}, token: Tokens, fresh: BOOLEAN] :
           r.status # "authorized" => r.token = NoToken /\ ~r.fresh}

TypeOK ==
  /\ now \in 1 .. MaxTime /\ wechatNow \in 1 .. MaxTime /\ losses \in 0 .. MaxLosses
  /\ wechat \in [token: Tokens, stands: BOOLEAN]
  /\ revoked \subseteq 1 .. MaxTime
  /\ events \subseteq [time: 1 .. MaxTime, orgs: SUBSET Orgs]
  /\ completed \subseteq [org: Orgs, time: 1 .. MaxTime]
  /\ session \in [Sessions -> [at: {"new", "open", "consented", "exchange", "upsert", "done"},
                               org: Orgs \cup {None}, issued: 0 .. MaxTime, opened: 0 .. MaxTime,
                               grant: 0 .. Cardinality(Sessions)]]
  /\ auth \in [Orgs -> Rows]
  /\ worker \in [Workers -> [at: {"idle", "waits", "calls", "answered"}, org: Orgs \cup {None},
                             seen: Rows, answer: Tokens]]

\* A revocation is final: once the notice of the last revocation was filed for an
\* organisation, its row is not authorised, whatever callback, late notice or
\* renewal was under way, unless the owner consented to a session opened later, or
\* so shortly before that the server's clock may have been past the revocation.
Reached(o) == \E e \in events : o \in e.orgs /\ \A t \in revoked : t <= e.time
OpenedTooLate(s) == session[s].grant # 0 /\ \A t \in revoked : t < session[s].opened + Ahead
RevocationWins ==
  \A o \in Orgs : Reached(o) /\ auth[o].status = "authorized"
    => \E s \in Sessions : session[s].org = o /\ OpenedTooLate(s)

\* The refresh token of the grant that stands is never lost: unless an answer was
\* lost on its way, the row has the one WeChat issued last or a worker is about to store it.
RotationKept ==
  \A o \in Orgs :
    losses = 0 /\ wechat.stands /\ auth[o].token.grant = wechat.token.grant
      => \/ auth[o].token = wechat.token
         \/ \E w \in Workers : worker[w].org = o /\ worker[w].at = "answered"
                               /\ worker[w].answer = wechat.token
=============================================================================
