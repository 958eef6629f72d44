------------------------------ MODULE Sessions ------------------------------
(***************************************************************************)
(* The sessions of one Kuzzle node: what API requests, the expiration of   *)
(* tokens and closed connections do to the token manager                   *)
(* (lib/core/auth/tokenManager.ts) and to the tokens in Redis              *)
(* (lib/core/security/tokenRepository.ts).  A request is verified, linked, *)
(* goes through the pipes of request:onAuthorized (lib/api/funnel.js,      *)
(* lib/kuzzle/event) and then runs an action                               *)
(* (lib/api/controllers/authController.ts).                                *)
(*                                                                         *)
(* An action of the model is what the event loop runs at once, from an     *)
(* await to the next one.                                                  *)
(***************************************************************************)
EXTENDS TokenManager, PipeRunner

CONSTANTS
  MaxReqs,  \* bound: requests
  Http,     \* the connection of a request of a protocol that is not notifiable
  Owner,    \* Owner[t]: the user token t is made for
  MaxTime,  \* bound: last date
  MaxClosed, \* bound: closed connections
  Sessions0 \* the sessions opened before the initial state, in the order of the
            \* array: <<token, connections>>

ASSUME SessionsAssumption ==
  /\ Http \notin Conns /\ {MaxTime, MaxReqs, MaxClosed} \subseteq Nat
  /\ Sessions0 \in Seq(Tokens \X SUBSET Conns)
  /\ \A i, j \in DOMAIN Sessions0 : i < j =>
       /\ Sessions0[i][1] # Sessions0[j][1] /\ Sessions0[i][2] \cap Sessions0[j][2] = {}
       /\ \/ Exp[Sessions0[j][1]] = Never
          \/ Exp[Sessions0[i][1]] # Never /\ Exp[Sessions0[i][1]] < Exp[Sessions0[j][1]]

VARIABLES
  tm,       \* the token manager
  pr,       \* the pipe runner
  now,      \* the date
  issued,   \* tokens that were generated
  cached,   \* tokens in Redis
  marked,   \* tokens whose entry in Redis says "refreshed"
  revoked,  \* history: tokens that tokenRepository.expire removed from Redis
  open,     \* connections that are not closed
  reqs,     \* the requests in progress
  expires,  \* tokenRepository.expire calls in progress
  chains,   \* checkTokensValidity calls that are removing a token
  checks    \* checkTokensValidity calls given to setImmediate

sessionVars == <<tm, pr, now, issued, cached, marked, revoked, open, reqs,
                 expires, chains, checks>>
redis == <<issued, cached, marked, revoked>>

\* Requests, in the order in which they arrive.
Reqs == 1..MaxReqs

Sources == Conns \cup {Http}

(***************************************************************************)
(* "verified": waits for its user; "buffered", "piping": its pipes wait or *)
(* run; "expiring": waits for its expire calls; "signing": waits for Redis *)
(* to write the new token; "marking": for Redis to mark the old one.       *)
(* seen: was the token marked when it was read?                            *)
(***************************************************************************)
New  == [st |-> "new"]
Done == [st |-> "done"]
Request ==
  {New, Done} \cup [st : {"verified", "buffered", "piping", "expiring"}, conn : Sources,
               tok : Tokens \cup {None}, seen : BOOLEAN]
    \cup [st : {"signing", "marking", "renewing"}, conn : Sources,
          new : Tokens, old : Tokens \cup {None}]

\* pos is the position tokenManager.expire has found; done: connections it has
\* passed in its loop over those of obj.
Expire == [req : Reqs, tok : Tokens, obj : Handles \cup {None}, pos : Nat,
           done : SUBSET Conns]

\* cur: the connection being notified; done: those the loop has passed, with cur.
Chain == [obj : Handles, cur : Conns, done : SUBSET Conns]

Held == ({e.obj : e \in expires} \cup {k.obj : k \in chains}) \ {None}

\* A loop over a Set follows its changes: a connection that was removed and added
\* again is visited again.
Following(loops, m) ==
  {[l EXCEPT !.done = IF l.obj = None THEN @ ELSE @ \cap m.conns[l.obj]] : l \in loops}

\* The new state of the manager, of the expire calls and of the checks.
Becomes(m, es, ks) ==
  LET held == ({e.obj : e \in es} \cup {k.obj : k \in ks}) \ {None}
  IN  /\ tm' = Collect(m, held)
      /\ expires' = Following(es, m)
      /\ chains' = Following(ks, m)

Manager(m) == Becomes(m, expires, chains)

\* What link has made of the sessions of before.
Before ==
  LET At(c) == {i \in DOMAIN Sessions0 : c \in Sessions0[i][2]}
      first(i) == <<Sessions0[i][1], 1>>
  IN  RunTimer([arr |-> [i \in DOMAIN Sessions0 |-> first(i)],
                conns |-> [h \in Handles |->
                  UNION {Sessions0[i][2] : i \in {j \in DOMAIN Sessions0 : first(j) = h}}],
                linked |-> [c \in Conns |->
                  IF At(c) = {} THEN None ELSE first(CHOOSE i \in At(c) : TRUE)],
                timer |-> None, astray |-> {}], 0)

Init ==
  /\ tm = Before
  /\ pr = NewRunner
  /\ now = 0
  /\ issued = {s[1] : s \in Range(Sessions0)}
  /\ cached = issued
  /\ marked = {} /\ revoked = {}
  /\ open = Conns
  /\ reqs = [r \in Reqs |-> New]
  /\ expires = {} /\ chains = {} /\ checks = 0

-----------------------------------------------------------------------------
(* Time, connections and Redis.                                            *)

\* Redis drops the entries whose TTL is over.
Tick ==
  /\ now < MaxTime
  /\ now' = now + 1
  /\ cached' = {t \in cached : Exp[t] = Never \/ Exp[t] > now + 1}
  /\ UNCHANGED <<tm, pr, issued, marked, revoked, open, reqs, expires, chains, checks>>

\* The grace period of a refreshed token is over.
Forget(t) ==
  /\ t \in cached \cap marked
  /\ cached' = cached \ {t}
  /\ UNCHANGED <<tm, pr, now, issued, marked, revoked, open, reqs, expires, chains, checks>>

\* "connection:remove": the hotel clerk and the token manager forget the connection.
Close(c) ==
  /\ c \in open /\ Cardinality(Conns \ open) < MaxClosed
  /\ open' = open \ {c}
  /\ Manager(RemoveConnection(tm, c))
  /\ UNCHANGED <<pr, now, redis, reqs, checks>>

-----------------------------------------------------------------------------
(* A request, up to the end of its pipes.                                  *)

\* The tokens that no client has yet: the request that makes them is not answered.
Unsent == {reqs[r].new : r \in {x \in Reqs : reqs[x].st \in {"signing", "marking", "renewing"}}}

\* checkRights calls verifyToken: the token is valid, and in Redis. No token: the
\* request is anonymous.
Verify(r, c, t) ==
  /\ reqs[r] = New
  /\ \A q \in Reqs : q < r => reqs[q] # New
  /\ c \in open \cup {Http}
  /\ t \in {None} \cup {v \in cached \ Unsent : Exp[v] = Never \/ now < Exp[v]}
  /\ reqs' = [reqs EXCEPT ![r] = [st |-> "verified", conn |-> c, tok |-> t,
                                  seen |-> t \in marked]]
  /\ UNCHANGED <<tm, pr, now, redis, open, expires, chains, checks>>

\* The rest of checkRights: the connection is linked to the token, and the pipes
\* of request:onAuthorized start.
Authorize(r) ==
  /\ reqs[r].st = "verified"
  /\ LET q == reqs[r]
     IN /\ IF q.conn = Http THEN UNCHANGED <<tm, expires, chains>>
           ELSE /\ q.tok # None => HasCopy(tm, q.tok, Held)
                /\ Manager(Link(tm, q.tok, q.conn, Held, now))
        /\ pr' = Run(pr, r)
        /\ reqs' = [reqs EXCEPT ![r] =
                      IF HasSlot(pr) THEN [q EXCEPT !.st = "piping"]
                      ELSE IF BufferFull(pr) THEN Done ELSE [q EXCEPT !.st = "buffered"]]
  /\ UNCHANGED <<now, redis, open, checks>>

\* A _runNext call runs.
PipeNext ==
  /\ pr.scheduled > 0
  /\ pr' = RunNext(pr)
  /\ reqs' = IF CanRunNext(pr) THEN [reqs EXCEPT ![Head(pr.buffer)].st = "piping"] ELSE reqs
  /\ UNCHANGED <<tm, now, redis, open, expires, chains, checks>>

\* The pipes of r are over: its action runs.
Runs(r) == reqs[r].st = "piping" /\ pr' = Finish(pr)

Ends(r) == reqs' = [reqs EXCEPT ![r] = Done]

-----------------------------------------------------------------------------
(* The actions of a request.                                               *)

\* A rejected pipe, or an action that changes none of this state.
Query(r) ==
  /\ Runs(r) /\ Ends(r)
  /\ UNCHANGED <<tm, now, redis, open, expires, chains, checks>>

\* Calls of tokenRepository.expire, which removes the tokens from Redis first.
Revoke(r, ts) ==
  /\ cached' = cached \ ts
  /\ revoked' = revoked \cup ts
  /\ reqs' = [reqs EXCEPT ![r] = IF ts = {} THEN Done ELSE [@ EXCEPT !.st = "expiring"]]

Expiring(r, ts) ==
  {[req |-> r, tok |-> t, obj |-> None, pos |-> 0, done |-> {}] : t \in ts}

\* logout: of its own token, or (deleteByKuid) of all those of its user.
Logout(r, all) ==
  /\ Runs(r)
  /\ reqs[r].tok # None
  /\ LET q  == reqs[r]
         ts == IF all THEN {t \in cached : Owner[t] = Owner[q.tok]} ELSE {q.tok}
     IN /\ Becomes(IF q.conn = Http THEN tm ELSE Unlink(tm, q.tok, q.conn),
                   expires \cup Expiring(r, ts), chains)
        /\ Revoke(r, ts)
  /\ UNCHANGED <<now, issued, marked, open, checks>>

\* generateToken: a token of the same user, which no one has yet.
Sign(r, to, new, old) ==
  /\ Exp[new] = Never \/ Exp[new] > now
  /\ issued' = issued \cup {new}
  /\ cached' = cached \cup {new}
  /\ reqs' = [reqs EXCEPT ![r] = [st |-> to, conn |-> reqs[r].conn, new |-> new, old |-> old]]

\* refreshToken, up to the write of the new token. A token that has no TTL, or
\* that was marked when the request was verified, is refused.
RefreshToken(r, new) ==
  /\ Runs(r)
  /\ reqs[r].tok # None /\ ~reqs[r].seen /\ Exp[reqs[r].tok] # Never
  /\ new \notin issued /\ Owner[new] = Owner[reqs[r].tok]
  /\ Sign(r, "signing", new, reqs[r].tok)
  /\ UNCHANGED <<tm, now, marked, revoked, open, expires, chains, checks>>

\* The new token is written: the old one is marked.
Mark(r) ==
  /\ reqs[r].st = "signing"
  /\ marked' = marked \cup {reqs[r].old}
  /\ cached' = cached \cup {reqs[r].old}
  /\ reqs' = [reqs EXCEPT ![r].st = "marking"]
  /\ UNCHANGED <<tm, pr, now, issued, revoked, open, expires, chains, checks>>

\* The token that login finds linked to its connection, for the same user.
Existing(c, user) ==
  IF c = Http \/ tm.linked[c] = None \/ Owner[Tok(tm.linked[c])] # user THEN None
  ELSE Tok(tm.linked[c])

\* login, up to the write of the new token. The same request is answered with the
\* token already linked when that one does not expire (then it is a Query).
Login(r, new) ==
  /\ Runs(r)
  /\ new \notin issued
  /\ LET old == Existing(reqs[r].conn, Owner[new])
     IN old \in {None} \cup {t \in Tokens : Exp[t] # Never} /\ Sign(r, "renewing", new, old)
  /\ UNCHANGED <<tm, now, marked, revoked, open, expires, chains, checks>>

\* The end of refreshToken ("marking") and of login ("renewing"): the connections
\* of the old token move to the new one; login links its own.
Renew(r) ==
  /\ reqs[r].st \in {"marking", "renewing"}
  /\ LET q     == reqs[r]
         moved == IF q.old = None THEN tm ELSE Refresh(tm, q.old, q.new, Held, now)
     IN /\ HasCopy(tm, q.new, Held) /\ HasCopy(moved, q.new, Held)
        /\ Manager(IF q.st = "marking" \/ q.conn = Http THEN moved
                   ELSE Link(moved, q.new, q.conn, Held, now))
  /\ Ends(r)
  /\ UNCHANGED <<pr, now, redis, open, checks>>

-----------------------------------------------------------------------------
(* tokenManager.expire.                                                    *)

\* The request waits for its other expire calls, if any.
ExpireOver(e) ==
  reqs' = IF \E f \in expires \ {e} : f.req = e.req THEN reqs
          ELSE [reqs EXCEPT ![e.req] = Done]

\* The loop of a call e, whose state is f: it unlinks the next connection and asks
\* for the end of its subscriptions; or it ends, and the object is removed by the
\* position it had before the first of these awaits.
ExpireLoop(e, f) ==
  \/ \E c \in tm.conns[f.obj] \ f.done :
       /\ Becomes([tm EXCEPT !.linked[c] = None],
                  (expires \ {e}) \cup {[f EXCEPT !.done = @ \cup {c}]}, chains)
            /\ UNCHANGED reqs
  \/ /\ tm.conns[f.obj] \subseteq f.done
     /\ Becomes(DeleteAt(tm, f.pos, f.obj), expires \ {e}, chains)
     /\ ExpireOver(e)

\* The token is removed from Redis: expire looks for it.
ExpireStart(e) ==
  /\ e.obj = None
  /\ LET pos == Search(tm.arr, e.tok)
     IN IF pos = 0
        THEN Becomes(tm, expires \ {e}, chains) /\ ExpireOver(e)
        ELSE ExpireLoop(e, [e EXCEPT !.obj = tm.arr[pos], !.pos = pos])
  /\ UNCHANGED <<pr, now, redis, open, checks>>

ExpireNext(e) ==
  /\ e.obj # None
  /\ ExpireLoop(e, e)
  /\ UNCHANGED <<pr, now, redis, open, checks>>

-----------------------------------------------------------------------------
(* checkTokensValidity.                                                    *)

\* Mutant: the loop ends when the object has no connection left, but does not
\* remove those it has notified.
ChainLoop_UntilEmpty(m, ks, obj, done, imm) ==
  \/ \E c \in m.conns[obj] :
       /\ Becomes(m, expires, ks \cup {[obj |-> obj, cur |-> c, done |-> done \cup {c}]})
       /\ checks' = imm
  \/ /\ m.conns[obj] = {}
     /\ Becomes(m, expires, ks)
     /\ checks' = imm + 1

\* The loop over the connections of a removed object: the next one is notified; or
\* there is none, and the next token is checked.
ChainLoop(m, ks, obj, done, imm) ==
  \/ \E c \in m.conns[obj] \ done :
       /\ Becomes(m, expires, ks \cup {[obj |-> obj, cur |-> c, done |-> done \cup {c}]})
       /\ checks' = imm
  \/ /\ m.conns[obj] \subseteq done
     /\ Becomes(m, expires, ks)
     /\ checks' = imm + 1

\* checkTokensValidity, with imm other calls scheduled.
CheckTokensValidity(m, imm) ==
  IF HeadExpired(m, now)
  THEN ChainLoop([m EXCEPT !.arr = Tail(@)], chains, m.arr[1], {}, imm)
  ELSE Manager(RunTimer(m, now)) /\ checks' = imm

TimerFires ==
  /\ tm.timer # None /\ tm.timer <= now
  /\ CheckTokensValidity([tm EXCEPT !.timer = None], checks)
  /\ UNCHANGED <<pr, now, redis, open, reqs>>

Immediate ==
  /\ checks > 0
  /\ CheckTokensValidity(tm, checks - 1)
  /\ UNCHANGED <<pr, now, redis, open, reqs>>

\* The connection was notified and lost its subscriptions: it is unlinked, from
\* whatever token it is linked to now.
Notified(k) ==
  /\ ChainLoop([tm EXCEPT !.linked[k.cur] = None], chains \ {k}, k.obj, k.done, checks)
  /\ UNCHANGED <<pr, now, redis, open, reqs>>

Checks == TimerFires \/ Immediate \/ \E k \in chains : Notified(k)

-----------------------------------------------------------------------------
RequestStep(r) ==
  \/ \E c \in Sources, t \in Tokens \cup {None} : Verify(r, c, t)
  \/ Authorize(r)
  \/ Query(r)
  \/ \E all \in BOOLEAN : Logout(r, all)
  \/ \E new \in Tokens : RefreshToken(r, new) \/ Login(r, new)
  \/ Mark(r) \/ Renew(r)

Next ==
  \/ Tick
  \/ \E t \in Tokens : Forget(t)
  \/ \E c \in Conns : Close(c)
  \/ \E r \in Reqs : RequestStep(r)
  \/ PipeNext
  \/ \E e \in expires : ExpireStart(e) \/ ExpireNext(e)
  \/ Checks

Spec == Init /\ [][Next]_sessionVars

\* Time passes, and the event loop runs what checkTokensValidity has scheduled: its
\* timer, its setImmediate calls, the continuations of its loop.
FairSpec ==
  /\ Spec
  /\ WF_sessionVars(Tick) /\ WF_sessionVars(Checks)

-----------------------------------------------------------------------------
\* Every variable keeps its type; the pipes are never counted below zero.
TypeOK ==
  /\ tm \in ManagerType
  /\ pr \in RunnerType(Reqs)
  /\ now \in 0..MaxTime
  /\ {issued, cached, marked, revoked} \subseteq SUBSET Tokens
  /\ open \subseteq Conns
  /\ reqs \in [Reqs -> Request]
  /\ expires \subseteq Expire /\ chains \subseteq Chain
  /\ checks \in Nat

Finite(h) == Exp[Tok(h)] # Never

\* The array stays sorted whatever is inserted and removed in the middle of the
\* loops that await: tokens that expire, by date and without doubles, then the
\* others. An infinite token in front would hide the expired ones for ever, as the
\* constructor of the token manager says.
Sorted ==
  \A i, j \in DOMAIN tm.arr :
    i < j => \/ ~Finite(tm.arr[j])
             \/ Finite(tm.arr[i]) /\ Exp[Tok(tm.arr[i])] < Exp[Tok(tm.arr[j])]

\* When the first token expires, a timer fires by then or a check is under way:
\* no insertion, removal or early timeout (TIMEOUT_MAX) leaves it unwatched.
TimerCovers ==
  tm.arr # <<>> /\ Finite(tm.arr[1])
    => \/ tm.timer # None /\ (tm.timer <= Exp[Tok(tm.arr[1])] \/ tm.timer <= now)
       \/ chains # {} \/ checks > 0

\* The connection c is among those of the token it is linked to, and that token is
\* in the array, or c is still to be notified that it has expired.
Watched(c) ==
  LET h == tm.linked[c]
  IN  /\ c \in tm.conns[h]
      /\ \/ h \in Range(tm.arr)
         \/ \E k \in chains : k.obj = h /\ (c \notin k.done \/ c = k.cur)

\* A connection linked to a token that expires is watched, so that it loses its
\* subscriptions when the token does. Two things only can break this: the removal
\* of the token by a stale position (expire, refresh), and its revocation while a
\* request that had already passed verifyToken links the connection again.
LinksKept ==
  \A c \in Conns : tm.linked[c] # None /\ Finite(tm.linked[c])
    => Watched(c) \/ Tok(tm.linked[c]) \in revoked \/ tm.linked[c] \in tm.astray

\* A pipe chain waits only while enough chains run or are about to: the callbacks
\* that free slots, the _runNext calls they schedule and the run calls that
\* overtake them never leave a slot idle in front of a waiting chain.
NoIdleSlot == pr.buffer # <<>> => pr.running + pr.scheduled >= MaxConcurrent

\* A token of the array has expired, or the connections of one are being notified.
Expired == HeadExpired(tm, now) \/ chains # {}

\* Expired tokens leave the array, and all their connections are notified, whatever
\* requests do in the meantime.
ExpiredLeave == Expired ~> ~Expired
=============================================================================
