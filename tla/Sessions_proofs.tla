--------------------------- MODULE Sessions_proofs --------------------------
(***************************************************************************)
(* Proofs about the sessions of a node, for any requests, connections and  *)
(* tokens, and any limit and buffer of the pipe runner.                    *)
(***************************************************************************)
EXTENDS Sessions, TokenManager_proofs

\* The pipe runner: no slot stays idle in front of a waiting chain, and no more
\* chains run than there are slots.
RunnerInv ==
  /\ pr \in [running : Int, buffer : Seq(Reqs), scheduled : Nat]
  /\ pr.running <= MaxConcurrent
  /\ NoIdleSlot

LEMMA RunFits ==
  ASSUME RunnerInv, NEW r \in Reqs, pr' = Run(pr, r)
  PROVE  RunnerInv'
<1> USE PipeRunnerAssumption DEF RunnerInv, NoIdleSlot, Run, HasSlot, BufferFull
<1>1. CASE pr' = [pr EXCEPT !.running = @ + 1] /\ HasSlot(pr)
  BY <1>1
<1>2. CASE pr' = [pr EXCEPT !.buffer = Append(@, r)] /\ ~HasSlot(pr)
  <2>1. Append(pr.buffer, r) \in Seq(Reqs)
    OBVIOUS
  <2>2. pr' = [running |-> pr.running, buffer |-> Append(pr.buffer, r),
               scheduled |-> pr.scheduled]
    BY <1>2
  <2>3. pr.running >= MaxConcurrent
    BY <1>2
  <2>4. /\ pr' \in [running : Int, buffer : Seq(Reqs), scheduled : Nat]
        /\ pr'.running = pr.running /\ pr'.scheduled = pr.scheduled
    <3>1. pr.running \in Int /\ pr.scheduled \in Nat
      OBVIOUS
    <3> HIDE DEF RunnerInv, NoIdleSlot, Run, HasSlot, BufferFull
    <3> QED
      BY <2>1, <2>2, <3>1
  <2>5. MaxConcurrent \in Nat /\ pr.running \in Int /\ pr.scheduled \in Nat
    OBVIOUS
  <2> HIDE DEF Run, HasSlot, BufferFull
  <2> QED
    BY <2>3, <2>4, <2>5
<1>3. CASE pr' = pr
  BY <1>3
<1> QED
  BY <1>1, <1>2, <1>3

LEMMA FinishFits ==
  ASSUME RunnerInv, pr' = Finish(pr)
  PROVE  RunnerInv'
<1> USE PipeRunnerAssumption DEF RunnerInv, NoIdleSlot
<1>1. pr'.running = pr.running - 1 /\ pr'.buffer = pr.buffer
  BY DEF Finish
<1>2. pr'.scheduled = IF pr.buffer # <<>> THEN pr.scheduled + 1 ELSE pr.scheduled
  BY DEF Finish
<1>3. pr' = [running |-> pr'.running, buffer |-> pr'.buffer, scheduled |-> pr'.scheduled]
  BY DEF Finish
<1> QED
  BY <1>1, <1>2, <1>3

LEMMA RunNextFits ==
  ASSUME RunnerInv, pr.scheduled > 0, pr' = RunNext(pr)
  PROVE  RunnerInv'
<1> USE PipeRunnerAssumption DEF RunnerInv, NoIdleSlot, CanRunNext, HasSlot
<1>1. CASE CanRunNext(pr)
  BY <1>1 DEF RunNext
<1>2. CASE ~CanRunNext(pr)
  BY <1>2 DEF RunNext
<1> QED
  BY <1>1, <1>2

LEMMA RunnerStep ==
  ASSUME RunnerInv, [Next]_sessionVars
  PROVE  RunnerInv'
<1>1. \/ UNCHANGED pr
      \/ \E r \in Reqs : pr' = Run(pr, r)
      \/ pr' = Finish(pr)
      \/ pr.scheduled > 0 /\ pr' = RunNext(pr)
  <2>1. ASSUME NEW r \in Reqs, RequestStep(r)
        PROVE  UNCHANGED pr \/ pr' = Run(pr, r) \/ pr' = Finish(pr)
    BY <2>1 DEF RequestStep, Verify, Authorize, Query, Logout, RefreshToken, Login, Mark,
                Renew, Runs
  <2>2. CASE PipeNext
    BY <2>2 DEF PipeNext
  <2>3. ASSUME NEW e \in expires, ExpireStart(e) \/ ExpireNext(e)
        PROVE  UNCHANGED pr
    BY <2>3 DEF ExpireStart, ExpireNext
  <2>4. CASE Checks
    BY <2>4 DEF Checks, TimerFires, Immediate, Notified
  <2>5. ASSUME NEW c \in Conns, Close(c) PROVE UNCHANGED pr
    BY <2>5 DEF Close
  <2>6. CASE Tick \/ \E t \in Tokens : Forget(t)
    BY <2>6 DEF Tick, Forget
  <2>7. CASE UNCHANGED sessionVars
    BY <2>7 DEF sessionVars
  <2> QED
    BY <2>1, <2>2, <2>3, <2>4, <2>5, <2>6, <2>7 DEF Next
<1>2. CASE UNCHANGED pr
  BY <1>2 DEF RunnerInv, NoIdleSlot
<1> QED
  BY <1>1, <1>2, RunFits, FinishFits, RunNextFits

\* For any requests, limit and buffer size, no slot stays idle in front of a waiting
\* chain of pipes (lib/kuzzle/event/pipeRunner.js).
THEOREM NoSlotIdle == Spec => []NoIdleSlot
<1>1. Init => RunnerInv
  BY PipeRunnerAssumption DEF Init, NewRunner, RunnerInv, NoIdleSlot
<1>2. RunnerInv /\ [Next]_sessionVars => RunnerInv'
  BY RunnerStep
<1>3. RunnerInv => NoIdleSlot
  BY DEF RunnerInv
<1> QED
  BY <1>1, <1>2, <1>3, PTL DEF Spec

-----------------------------------------------------------------------------
(* The requests and the tokens: a token that a client, a connection or the *)
(* array of the manager knows is never the new token of a request that is  *)
(* not answered.                                                           *)

Asking == {"verified", "buffered", "piping", "expiring"}
Making == {"signing", "marking", "renewing"}

Given == issued \ Unsent

RequestInv ==
  /\ reqs \in [Reqs -> Request]
  /\ issued \subseteq Tokens /\ cached \subseteq issued
  /\ marked \subseteq Tokens /\ revoked \subseteq Tokens
  /\ now \in Nat
  /\ \A r \in Reqs :
       /\ reqs[r].st \in Asking /\ reqs[r].tok # None => reqs[r].tok \in Given
       /\ reqs[r].st \in Making => /\ reqs[r].new \in issued
                                   /\ reqs[r].st # "renewing" \/ reqs[r].old # None
                                        => reqs[r].old \in issued
       /\ \A s \in Reqs \ {r} : reqs[r].st \in Making /\ reqs[s].st \in Making
                               => reqs[r].new # reqs[s].new

LEMMA Shape ==
  ASSUME NEW q \in Request
  PROVE  \/ q = New /\ q.st = "new"
         \/ q = Done /\ q.st = "done"
         \/ /\ q.st \in Asking /\ q.conn \in Sources /\ q.tok \in Tokens \cup {None}
            /\ q.seen \in BOOLEAN
            /\ q = [st |-> q.st, conn |-> q.conn, tok |-> q.tok, seen |-> q.seen]
         \/ /\ q.st \in Making /\ q.conn \in Sources /\ q.new \in Tokens
            /\ q.old \in Tokens \cup {None}
            /\ q = [st |-> q.st, conn |-> q.conn, new |-> q.new, old |-> q.old]
<1>1. CASE q \in {New, Done}
  BY <1>1 DEF New, Done
<1>2. CASE q \in [st : {"verified", "buffered", "piping", "expiring"}, conn : Sources,
                  tok : Tokens \cup {None}, seen : BOOLEAN]
  BY <1>2 DEF Asking
<1>3. CASE q \in [st : {"signing", "marking", "renewing"}, conn : Sources,
                  new : Tokens, old : Tokens \cup {None}]
  BY <1>3 DEF Making
<1> QED
  BY <1>1, <1>2, <1>3 DEF Request

LEMMA Shaped ==
  /\ New \in Request /\ Done \in Request
  /\ New.st = "new" /\ Done.st = "done"
  /\ \A st \in Asking, c \in Sources, t \in Tokens \cup {None}, b \in BOOLEAN :
       [st |-> st, conn |-> c, tok |-> t, seen |-> b] \in Request
  /\ \A st \in Making, c \in Sources, t \in Tokens, o \in Tokens \cup {None} :
       [st |-> st, conn |-> c, new |-> t, old |-> o] \in Request
BY DEF Request, New, Done, Asking, Making

\* What a step may do to the other fields of RequestInv.
Rest(new) ==
  /\ issued' = issued \cup new /\ cached' \subseteq issued'
  /\ marked' \subseteq Tokens /\ revoked' \subseteq Tokens /\ now' \in Nat

LEMMA AskingStep ==
  ASSUME RequestInv, NEW r \in Reqs, NEW q \in Request,
         reqs' = [reqs EXCEPT ![r] = q], Rest({}),
         reqs[r].st \notin Making, q.st \notin Making,
         q.st \in Asking /\ q.tok # None => q.tok \in Given
  PROVE  RequestInv' /\ Given' = Given
<1>1. \A x \in Reqs : reqs'[x] = IF x = r THEN q ELSE reqs[x]
  BY DEF RequestInv
<1>2. Unsent' = Unsent
  BY <1>1 DEF Unsent, Making
<1>3. Given' = Given
  BY <1>2 DEF Given, Rest
<1>4. reqs' \in [Reqs -> Request]
  BY DEF RequestInv
<1> QED
  BY <1>1, <1>3, <1>4 DEF RequestInv, Rest

LEMMA MakingStep ==
  ASSUME RequestInv, NEW r \in Reqs, NEW q \in Request,
         reqs' = [reqs EXCEPT ![r] = q], Rest({q.new}),
         reqs[r].st \notin Making, q.st \in Making, q.st \notin Asking,
         q.new \in Tokens \ issued, q.st # "renewing" \/ q.old # None => q.old \in issued
  PROVE  RequestInv' /\ Given' = Given
<1>1. \A x \in Reqs : reqs'[x] = IF x = r THEN q ELSE reqs[x]
  BY DEF RequestInv
<1>2. Unsent' = Unsent \cup {q.new}
  BY <1>1 DEF Unsent, Making
<1>3. Given' = Given
  BY <1>2 DEF Given, Rest
<1>4. reqs' \in [Reqs -> Request]
  BY DEF RequestInv
<1>5. ASSUME NEW x \in Reqs, NEW y \in Reqs \ {x}, reqs'[x].st \in Making, reqs'[y].st \in Making
      PROVE  reqs'[x].new # reqs'[y].new
  BY <1>1, <1>5 DEF RequestInv
<1>6. issued' = issued \cup {q.new} /\ issued' \subseteq Tokens
  BY DEF RequestInv, Rest
<1>7. ASSUME NEW x \in Reqs
      PROVE  /\ reqs'[x].st \in Asking /\ reqs'[x].tok # None => reqs'[x].tok \in Given
             /\ reqs'[x].st \in Making => /\ reqs'[x].new \in issued'
                                          /\ reqs'[x].st # "renewing" \/ reqs'[x].old # None
                                            => reqs'[x].old \in issued'
  BY <1>1, <1>6 DEF RequestInv
<1> QED
  BY <1>3, <1>4, <1>5, <1>6, <1>7 DEF RequestInv, Rest

LEMMA MadeStep ==
  ASSUME RequestInv, NEW r \in Reqs, NEW q \in Request,
         reqs' = [reqs EXCEPT ![r] = q], Rest({}),
         reqs[r].st \in Making, q.st \in Making, q.st \notin Asking,
         reqs[r].st # "renewing", q.new = reqs[r].new, q.old = reqs[r].old
  PROVE  RequestInv' /\ Given' = Given
<1>1. \A x \in Reqs : reqs'[x] = IF x = r THEN q ELSE reqs[x]
  BY DEF RequestInv
<1>2. Unsent' = Unsent
  BY <1>1 DEF Unsent, Making
<1>3. Given' = Given
  BY <1>2 DEF Given, Rest
<1>4. reqs' \in [Reqs -> Request]
  BY DEF RequestInv
<1> QED
  BY <1>1, <1>3, <1>4 DEF RequestInv, Rest

LEMMA AnswerStep ==
  ASSUME RequestInv, NEW r \in Reqs, reqs' = [reqs EXCEPT ![r] = Done], Rest({}),
         reqs[r].st \in Making
  PROVE  RequestInv' /\ Given' = Given \cup {reqs[r].new} /\ reqs[r].new \notin Given
<1>1. \A x \in Reqs : reqs'[x] = IF x = r THEN Done ELSE reqs[x]
  BY DEF RequestInv
<1>2. Done.st \notin Making /\ Done.st \notin Asking /\ Done \in Request
  BY Shaped DEF Making, Asking
<1>3. Unsent' = Unsent \ {reqs[r].new} /\ reqs[r].new \in Unsent /\ reqs[r].new \in issued
  BY <1>1, <1>2 DEF RequestInv, Unsent, Making
<1>4. Given' = Given \cup {reqs[r].new} /\ reqs[r].new \notin Given
  BY <1>3 DEF Given, Rest
<1>5. reqs' \in [Reqs -> Request]
  BY <1>2 DEF RequestInv
<1> QED
  BY <1>1, <1>2, <1>4, <1>5 DEF RequestInv, Rest

LEMMA OtherStep ==
  ASSUME RequestInv, UNCHANGED reqs, Rest({})
  PROVE  RequestInv' /\ Given' = Given
<1>1. Unsent' = Unsent
  BY DEF Unsent, Making
<1>2. Given' = Given
  BY <1>1 DEF Given, Rest
<1> QED
  BY <1>2 DEF RequestInv, Rest

-----------------------------------------------------------------------------
(* The manager and the loops that await.                                   *)

\* The connections that a checkTokensValidity loop is notifying or will notify.
Awaited(ks) ==
  {w \in Handles \X Conns : \E k \in ks : k.obj = w[1] /\ (w[2] \notin k.done \/ w[2] = k.cur)}

\* An expire call is that of a revoked token and of a request that waits for it.
Revoking(es, R, qs) ==
  \A e \in es : /\ e.tok \in R /\ qs[e.req].st = "expiring"
                /\ e.obj # None => Tok(e.obj) = e.tok

LoopInv ==
  /\ expires \subseteq Expire /\ chains \subseteq Chain /\ checks \in Nat
  /\ Revoking(expires, revoked, reqs)

ManagerInv ==
  /\ Sane(tm, Given)
  /\ Covered(tm, now) \/ chains # {} \/ checks > 0
  /\ \A c \in Conns : Kept(tm, c, Awaited(chains), revoked)

LEMMA KeptMore ==
  ASSUME NEW m, NEW c, NEW W, NEW R, NEW V, NEW Q, W \subseteq V, R \subseteq Q, Kept(m, c, W, R)
  PROVE  Kept(m, c, V, Q)
BY DEF Kept

LEMMA SaneMore ==
  ASSUME NEW m, NEW T, NEW U, T \subseteq U, Sane(m, T)
  PROVE  Sane(m, U)
BY DEF Sane

LEMMA AwaitedMore ==
  ASSUME NEW ks, NEW ls, ks \subseteq ls
  PROVE  Awaited(ks) \subseteq Awaited(ls)
BY DEF Awaited

LEMMA FollowingExpires ==
  ASSUME NEW es \in SUBSET Expire, NEW m \in ManagerType
  PROVE  /\ Following(es, m) \subseteq Expire
         /\ \A R, qs : Revoking(es, R, qs) => Revoking(Following(es, m), R, qs)
<1> DEFINE F(l) == [l EXCEPT !.done = IF l.obj = None THEN @ ELSE @ \cap m.conns[l.obj]]
<1>1. ASSUME NEW e \in es
      PROVE  F(e) \in Expire /\ F(e).tok = e.tok /\ F(e).obj = e.obj /\ F(e).req = e.req
  <2>1. e \in Expire
    OBVIOUS
  <2> QED
    BY <2>1 DEF Expire
<1>2. Following(es, m) = {F(e) : e \in es}
  BY DEF Following
<1> HIDE DEF F
<1> QED
  BY <1>1, <1>2 DEF Revoking

LEMMA FollowingChains ==
  ASSUME NEW ks \in SUBSET Chain, NEW m \in ManagerType
  PROVE  /\ Following(ks, m) \subseteq Chain
         /\ ks # {} => Following(ks, m) # {}
         /\ Awaited(ks) \subseteq Awaited(Following(ks, m))
<1> DEFINE F(l) == [l EXCEPT !.done = IF l.obj = None THEN @ ELSE @ \cap m.conns[l.obj]]
<1>1. ASSUME NEW k \in ks
      PROVE  F(k) \in Chain /\ F(k).obj = k.obj /\ F(k).cur = k.cur /\ F(k).done \subseteq k.done
  <2>1. k \in Chain
    OBVIOUS
  <2> QED
    BY <2>1 DEF Chain
<1>2. Following(ks, m) = {F(k) : k \in ks}
  BY DEF Following
<1> HIDE DEF F
<1>3. Awaited(ks) \subseteq Awaited(Following(ks, m))
  BY <1>1, <1>2 DEF Awaited
<1> QED
  BY <1>1, <1>2, <1>3

LEMMA BecomesFits ==
  ASSUME NEW m, NEW es \in SUBSET Expire, NEW ks \in SUBSET Chain, Becomes(m, es, ks),
         Sane(m, Given'), Covered(m, now') \/ ks # {} \/ checks' > 0, checks' \in Nat, now' \in Nat,
         \A c \in Conns : Kept(m, c, Awaited(ks), revoked'), Revoking(es, revoked', reqs')
  PROVE  LoopInv' /\ ManagerInv'
<1>1. PICK held : /\ tm' = Collect(m, held)
                  /\ expires' = Following(es, m) /\ chains' = Following(ks, m)
  BY DEF Becomes
<1>2. m \in ManagerType
  BY DEF Sane
<1>3. LoopInv'
  BY <1>1, <1>2, FollowingExpires, FollowingChains DEF LoopInv
<1>4. Sane(tm', Given') /\ (Covered(m, now') => Covered(tm', now'))
  BY <1>1, CollectFits
<1>5. ASSUME NEW c \in Conns PROVE Kept(tm', c, Awaited(chains'), revoked')
  <2>1. Kept(tm', c, Awaited(ks), revoked')
    BY <1>1, CollectFits
  <2> QED
    BY <1>1, <1>2, <2>1, FollowingChains, KeptMore
<1>6. ks # {} => chains' # {}
  BY <1>1, <1>2, FollowingChains
<1> QED
  BY <1>3, <1>4, <1>5, <1>6 DEF ManagerInv

LEMMA ManagerStays ==
  ASSUME RequestInv, LoopInv, ManagerInv, UNCHANGED <<tm, expires, chains, checks>>,
         revoked \subseteq revoked', now \in Nat, now' \in Nat, now <= now', Given \subseteq Given',
         Revoking(expires, revoked', reqs')
  PROVE  LoopInv' /\ ManagerInv'
<1>1. Covered(tm, now) => Covered(tm, now')
  BY ManagerFields DEF Covered, ManagerInv, Sane
<1>2. Sane(tm, Given')
  BY SaneMore DEF ManagerInv
<1>3. \A c \in Conns : Kept(tm, c, Awaited(chains), revoked')
  BY KeptMore DEF ManagerInv
<1> QED
  BY <1>1, <1>2, <1>3 DEF ManagerInv, LoopInv

-----------------------------------------------------------------------------
(* What each action keeps.                                                 *)

SessionInv == RequestInv /\ LoopInv /\ ManagerInv

LEMMA RevokingKept ==
  ASSUME RequestInv, LoopInv, NEW r \in Reqs, NEW q, reqs' = [reqs EXCEPT ![r] = q],
         reqs[r].st # "expiring" \/ q.st = "expiring", revoked \subseteq revoked'
  PROVE  Revoking(expires, revoked', reqs')
<1>1. \A x \in Reqs : reqs'[x] = IF x = r THEN q ELSE reqs[x]
  BY DEF RequestInv
<1>2. ASSUME NEW e \in expires
      PROVE  /\ e.tok \in revoked' /\ reqs'[e.req].st = "expiring"
             /\ e.obj # None => Tok(e.obj) = e.tok
  <2>1. e.req \in Reqs
    BY DEF LoopInv, Expire
  <2>2. e.tok \in revoked /\ reqs[e.req].st = "expiring" /\ (e.obj # None => Tok(e.obj) = e.tok)
    <3>1. Revoking(expires, revoked, reqs)
      BY DEF LoopInv
    <3> QED
      BY <3>1 DEF Revoking
  <2> QED
    BY <1>1, <2>1, <2>2
<1> QED
  BY <1>2 DEF Revoking

LEMMA TickFits ==
  ASSUME SessionInv, Tick \/ \E t \in Tokens : Forget(t)
  PROVE  SessionInv'
<1>1. /\ UNCHANGED <<tm, issued, marked, revoked, reqs, expires, chains, checks>>
      /\ cached' \subseteq cached /\ now' \in Nat /\ now <= now'
  BY DEF Tick, Forget, SessionInv, RequestInv
<1>2. RequestInv' /\ Given' = Given
  BY <1>1, OtherStep DEF SessionInv, RequestInv, Rest
<1>3. LoopInv' /\ ManagerInv'
  <2>1. Revoking(expires, revoked', reqs')
    BY <1>1 DEF SessionInv, LoopInv
  <2> QED
    BY <1>1, <1>2, <2>1, ManagerStays DEF SessionInv, RequestInv
<1> QED
  BY <1>2, <1>3 DEF SessionInv

LEMMA CloseFits ==
  ASSUME SessionInv, NEW c \in Conns, Close(c)
  PROVE  SessionInv'
<1> DEFINE m == RemoveConnection(tm, c)
<1>1. UNCHANGED <<now, issued, cached, marked, revoked, reqs, checks>> /\ Becomes(m, expires, chains)
  BY DEF Close, Manager, redis
<1>2. RequestInv' /\ Given' = Given
  BY <1>1, OtherStep DEF SessionInv, RequestInv, Rest
<1>3. /\ Sane(m, Given) /\ (Covered(tm, now) => Covered(m, now))
      /\ \A d \in Conns : Kept(m, d, Awaited(chains), revoked)
  BY RemoveConnectionFits DEF SessionInv, ManagerInv, RequestInv
<1> HIDE DEF m
<1>4. Revoking(expires, revoked', reqs')
  BY <1>1 DEF SessionInv, LoopInv
<1>5. LoopInv' /\ ManagerInv'
  BY <1>1, <1>2, <1>3, <1>4, BecomesFits DEF SessionInv, LoopInv, ManagerInv, RequestInv
<1> QED
  BY <1>2, <1>5 DEF SessionInv

LEMMA VerifyFits ==
  ASSUME SessionInv, NEW r \in Reqs, NEW c \in Sources, NEW t \in Tokens \cup {None},
         Verify(r, c, t)
  PROVE  SessionInv'
<1> DEFINE q == [st |-> "verified", conn |-> c, tok |-> t, seen |-> t \in marked]
<1>1. /\ UNCHANGED <<tm, now, issued, cached, marked, revoked, expires, chains, checks>>
      /\ reqs' = [reqs EXCEPT ![r] = q] /\ reqs[r] = New /\ t \in {None} \cup (cached \ Unsent)
  BY DEF Verify, redis
<1>2. q \in Request /\ q.st = "verified" /\ q.tok = t
  <2>1. (t \in marked) \in BOOLEAN
    OBVIOUS
  <2>2. ASSUME NEW b \in BOOLEAN
        PROVE  /\ [st |-> "verified", conn |-> c, tok |-> t, seen |-> b] \in Request
               /\ [st |-> "verified", conn |-> c, tok |-> t, seen |-> b].st = "verified"
               /\ [st |-> "verified", conn |-> c, tok |-> t, seen |-> b].tok = t
    BY Shaped DEF Asking
  <2> QED
    BY <2>1, <2>2, Zenon
<1> HIDE DEF q
<1>3. RequestInv' /\ Given' = Given
  <2>1. Rest({}) /\ reqs[r].st \notin Making /\ q.st \notin Making
    BY <1>1, <1>2, Shaped DEF SessionInv, RequestInv, Rest, Making
  <2>2. q.tok # None => q.tok \in Given
    BY <1>1, <1>2 DEF SessionInv, RequestInv, Given
  <2> QED
    BY <1>1, <1>2, <2>1, <2>2, AskingStep DEF SessionInv
<1>4. Revoking(expires, revoked', reqs')
  BY <1>1, Shaped, RevokingKept DEF SessionInv
<1>5. LoopInv' /\ ManagerInv'
  BY <1>1, <1>3, <1>4, ManagerStays DEF SessionInv, RequestInv
<1> QED
  BY <1>3, <1>5 DEF SessionInv

LEMMA AuthorizeFits ==
  ASSUME SessionInv, NEW r \in Reqs, Authorize(r)
  PROVE  SessionInv'
<1> DEFINE q == reqs[r]
           m == IF q.conn = Http THEN tm ELSE Link(tm, q.tok, q.conn, Held, now)
<1>1. /\ q.st = "verified" /\ q.st \in Asking /\ q.st \notin Making /\ q.conn \in Sources
      /\ q.tok \in Tokens \cup {None} /\ q.seen \in BOOLEAN
      /\ q = [st |-> q.st, conn |-> q.conn, tok |-> q.tok, seen |-> q.seen]
  <2>1. q.st = "verified" /\ q \in Request
    BY DEF Authorize, SessionInv, RequestInv
  <2> HIDE DEF q
  <2> QED
    BY <2>1, Shape DEF Asking, Making
<1>2. PICK x \in Request : /\ reqs' = [reqs EXCEPT ![r] = x] /\ x.st \notin Making
                           /\ x.st \in Asking => x.tok = q.tok
  <2>1. \A st \in {"piping", "buffered"} :
          /\ [q EXCEPT !.st = st] \in Request /\ [q EXCEPT !.st = st].st = st
          /\ [q EXCEPT !.st = st].tok = q.tok
    <3> HIDE DEF q
    <3>1. \A st \in {"piping", "buffered"} :
            [q EXCEPT !.st = st] = [st |-> st, conn |-> q.conn, tok |-> q.tok, seen |-> q.seen]
      BY <1>1
    <3> QED
      BY <1>1, <3>1, Shaped DEF Asking
  <2>2. \E x \in {[q EXCEPT !.st = "piping"], [q EXCEPT !.st = "buffered"], Done} :
          reqs' = [reqs EXCEPT ![r] = x]
    BY DEF Authorize
  <2> HIDE DEF q
  <2>3. "piping" \notin Making /\ "buffered" \notin Making /\ "done" \notin Making \cup Asking
    BY DEF Making, Asking
  <2> QED
    BY <2>1, <2>2, <2>3, Shaped
<1>3. q.tok # None => q.tok \in Given
  BY <1>1 DEF SessionInv, RequestInv
<1>4. UNCHANGED <<now, issued, cached, marked, revoked, checks>>
  BY DEF Authorize, redis
<1>5. RequestInv' /\ Given' = Given
  BY <1>1, <1>2, <1>3, <1>4, AskingStep DEF SessionInv, RequestInv, Rest
<1>6. Revoking(expires, revoked', reqs')
  BY <1>1, <1>2, <1>4, RevokingKept DEF SessionInv
<1>7. CASE q.conn = Http
  BY <1>4, <1>5, <1>6, <1>7, ManagerStays DEF SessionInv, RequestInv, Authorize
<1>8. CASE q.conn # Http
  <2>1. q.conn \in Conns /\ q.tok \in (Tokens \cap Given) \cup {None}
    BY <1>1, <1>3, <1>8 DEF Sources
  <2>2. Becomes(m, expires, chains) /\ (q.tok # None => HasCopy(tm, q.tok, Held))
    BY <1>8 DEF Authorize, Manager
  <2> HIDE DEF q
  <2>3. m = Link(tm, q.tok, q.conn, Held, now)
    BY <1>8
  <2>4. /\ Sane(m, Given) /\ (Covered(tm, now) => Covered(m, now))
        /\ \A d \in Conns : Kept(m, d, Awaited(chains), revoked)
    BY <2>1, <2>2, <2>3, LinkFits DEF SessionInv, ManagerInv, RequestInv
  <2> HIDE DEF m
  <2>5. LoopInv' /\ ManagerInv'
    BY <1>4, <1>5, <1>6, <2>2, <2>4, BecomesFits DEF SessionInv, LoopInv, ManagerInv, RequestInv
  <2> QED
    BY <1>5, <2>5 DEF SessionInv
<1> QED
  BY <1>5, <1>7, <1>8 DEF SessionInv

\* A request of one of the states that have a token.
LEMMA AskingShape ==
  ASSUME RequestInv, NEW r \in Reqs, reqs[r].st \in Asking
  PROVE  /\ reqs[r].st \notin Making /\ reqs[r].conn \in Sources
         /\ reqs[r].tok \in Tokens \cup {None} /\ reqs[r].seen \in BOOLEAN
         /\ reqs[r].tok # None => reqs[r].tok \in Given
         /\ \A st \in Asking : /\ [reqs[r] EXCEPT !.st = st] \in Request
                              /\ [reqs[r] EXCEPT !.st = st].st = st
                              /\ [reqs[r] EXCEPT !.st = st].tok = reqs[r].tok
<1> DEFINE q == reqs[r]
<1>1. q \in Request /\ q.st \in Asking /\ q.st # "new" /\ q.st # "done"
  BY DEF RequestInv, Asking
<1>2. q.tok # None => q.tok \in Given
  BY DEF RequestInv
<1> HIDE DEF q
<1>3. q.st \notin Making
  BY <1>1 DEF Asking, Making
<1>4. /\ q.conn \in Sources /\ q.tok \in Tokens \cup {None} /\ q.seen \in BOOLEAN
      /\ q = [st |-> q.st, conn |-> q.conn, tok |-> q.tok, seen |-> q.seen]
  BY <1>1, <1>3, Shape
<1>5. ASSUME NEW st \in Asking
      PROVE  /\ [q EXCEPT !.st = st] \in Request /\ [q EXCEPT !.st = st].st = st
             /\ [q EXCEPT !.st = st].tok = q.tok
  <2>1. [q EXCEPT !.st = st] = [st |-> st, conn |-> q.conn, tok |-> q.tok, seen |-> q.seen]
    BY <1>4
  <2> QED
    BY <1>4, <2>1, Shaped
<1> QED
  BY <1>2, <1>3, <1>4, <1>5 DEF q

LEMMA MakingShape ==
  ASSUME RequestInv, NEW r \in Reqs, reqs[r].st \in Making
  PROVE  /\ reqs[r].st \notin Asking /\ reqs[r].conn \in Sources
         /\ reqs[r].new \in Tokens /\ reqs[r].old \in Tokens \cup {None}
         /\ reqs[r].new \in issued
         /\ reqs[r].st # "renewing" \/ reqs[r].old # None => reqs[r].old \in issued
         /\ \A st \in Making : /\ [reqs[r] EXCEPT !.st = st] \in Request
                              /\ [reqs[r] EXCEPT !.st = st].st = st
                              /\ [reqs[r] EXCEPT !.st = st].new = reqs[r].new
                              /\ [reqs[r] EXCEPT !.st = st].old = reqs[r].old
<1> DEFINE q == reqs[r]
<1>1. q \in Request /\ q.st \in Making /\ q.st # "new" /\ q.st # "done"
  BY DEF RequestInv, Making
<1>2. q.new \in issued /\ (q.st # "renewing" \/ q.old # None => q.old \in issued)
  BY DEF RequestInv
<1> HIDE DEF q
<1>3. q.st \notin Asking
  BY <1>1 DEF Asking, Making
<1>4. /\ q.conn \in Sources /\ q.new \in Tokens /\ q.old \in Tokens \cup {None}
      /\ q = [st |-> q.st, conn |-> q.conn, new |-> q.new, old |-> q.old]
  BY <1>1, <1>3, Shape
<1>5. ASSUME NEW st \in Making
      PROVE  /\ [q EXCEPT !.st = st] \in Request /\ [q EXCEPT !.st = st].st = st
             /\ [q EXCEPT !.st = st].new = q.new /\ [q EXCEPT !.st = st].old = q.old
  <2>1. [q EXCEPT !.st = st] = [st |-> st, conn |-> q.conn, new |-> q.new, old |-> q.old]
    BY <1>4
  <2> QED
    BY <1>4, <2>1, Shaped
<1> QED
  BY <1>2, <1>3, <1>4, <1>5 DEF q

LEMMA QueryFits ==
  ASSUME SessionInv, NEW r \in Reqs, Query(r)
  PROVE  SessionInv'
<1>1. /\ UNCHANGED <<tm, now, issued, cached, marked, revoked, expires, chains, checks>>
      /\ reqs' = [reqs EXCEPT ![r] = Done] /\ reqs[r].st = "piping"
  BY DEF Query, Runs, Ends, redis
<1>2. Rest({}) /\ reqs[r].st \notin Making /\ Done.st \notin Making /\ Done.st \notin Asking
  BY <1>1, Shaped DEF SessionInv, RequestInv, Rest, Making, Asking
<1>3. RequestInv' /\ Given' = Given
  BY <1>1, <1>2, AskingStep, Shaped DEF SessionInv
<1>4. Revoking(expires, revoked', reqs')
  BY <1>1, RevokingKept DEF SessionInv
<1>5. LoopInv' /\ ManagerInv'
  BY <1>1, <1>3, <1>4, ManagerStays DEF SessionInv, RequestInv
<1> QED
  BY <1>3, <1>5 DEF SessionInv

LEMMA LogoutFits ==
  ASSUME SessionInv, NEW r \in Reqs, NEW all \in BOOLEAN, Logout(r, all)
  PROVE  SessionInv'
<1> DEFINE q == reqs[r]
           ts == IF all THEN {t \in cached : Owner[t] = Owner[q.tok]} ELSE {q.tok}
           m  == IF q.conn = Http THEN tm ELSE Unlink(tm, q.tok, q.conn)
           es == expires \cup Expiring(r, ts)
           x  == IF ts = {} THEN Done ELSE [q EXCEPT !.st = "expiring"]
<1>1. /\ UNCHANGED <<now, issued, marked, checks>>
      /\ Becomes(m, es, chains) /\ Revoke(r, ts) /\ q.st = "piping" /\ q.tok # None
  BY DEF Logout, Runs
<1>2. "piping" \in Asking /\ "expiring" \in Asking \ Making
  BY DEF Asking, Making
<1>3. /\ q.st \notin Making /\ q.conn \in Sources /\ q.tok \in Tokens /\ q.tok \in Given
      /\ [q EXCEPT !.st = "expiring"] \in Request /\ [q EXCEPT !.st = "expiring"].st = "expiring"
      /\ [q EXCEPT !.st = "expiring"].tok = q.tok
  BY <1>1, <1>2, AskingShape DEF SessionInv
<1>4. ts \subseteq Tokens
  BY <1>3 DEF SessionInv, RequestInv
<1>5. /\ cached' = cached \ ts /\ revoked' = revoked \cup ts /\ reqs' = [reqs EXCEPT ![r] = x]
  BY <1>1 DEF Revoke
<1>6. /\ x \in Request /\ x.st \notin Making /\ (x.st \in Asking => x.tok = q.tok)
      /\ ts # {} => x.st = "expiring"
  <2> HIDE DEF q, ts
  <2>1. Done.st \notin Making \cup Asking
    BY Shaped DEF Making, Asking
  <2> QED
    BY <1>2, <1>3, <2>1, Shaped
<1> HIDE DEF q, ts, x
<1>7. RequestInv' /\ Given' = Given
  <2>1. Rest({}) /\ reqs[r].st \notin Making
    BY <1>1, <1>3, <1>4, <1>5 DEF SessionInv, RequestInv, Rest, q
  <2>2. x.st \in Asking /\ x.tok # None => x.tok \in Given
    BY <1>3, <1>6
  <2> QED
    BY <1>5, <1>6, <2>1, <2>2, AskingStep DEF SessionInv
<1>8. /\ Sane(m, Given) /\ (Covered(tm, now) => Covered(m, now))
      /\ \A c \in Conns : Kept(m, c, Awaited(chains), revoked)
  <2>1. CASE q.conn = Http
    BY <2>1 DEF SessionInv, ManagerInv
  <2>2. CASE q.conn # Http
    <3>1. q.conn \in Conns /\ q.tok \in Tokens \cup {None} /\ m = Unlink(tm, q.tok, q.conn)
      BY <1>3, <2>2 DEF Sources
    <3> QED
      BY <3>1, UnlinkFits DEF SessionInv, ManagerInv, RequestInv
  <2> QED
    BY <2>1, <2>2
<1>9. \A c \in Conns : Kept(m, c, Awaited(chains), revoked')
  BY <1>5, <1>8, KeptMore
<1>10. es \subseteq Expire
  BY <1>4 DEF SessionInv, LoopInv, Expire, Expiring
<1>11. Revoking(es, revoked', reqs')
  <2>1. Revoking(expires, revoked', reqs')
    <3>1. reqs[r].st # "expiring"
      BY <1>1 DEF q
    <3> QED
      BY <1>5, <3>1, RevokingKept DEF SessionInv
  <2>2. ASSUME NEW e \in Expiring(r, ts)
        PROVE  /\ e.tok \in revoked' /\ reqs'[e.req].st = "expiring" /\ e.obj = None
    <3>1. e.tok \in ts /\ e.req = r /\ e.obj = None
      BY DEF Expiring
    <3>2. reqs'[r] = x
      BY <1>5 DEF SessionInv, RequestInv
    <3> QED
      BY <1>5, <1>6, <3>1, <3>2
  <2> QED
    BY <2>1, <2>2 DEF Revoking
<1> HIDE DEF m, es
<1>12. LoopInv' /\ ManagerInv'
  BY <1>1, <1>7, <1>8, <1>9, <1>10, <1>11, BecomesFits DEF SessionInv, LoopInv, ManagerInv, RequestInv
<1> QED
  BY <1>7, <1>12 DEF SessionInv

\* generateToken, of refreshToken and of login.
LEMMA SignFits ==
  ASSUME SessionInv, NEW r \in Reqs, NEW to \in {"signing", "renewing"}, NEW new \in Tokens \ issued,
         NEW old \in issued \cup {None}, to = "signing" => old # None, Sign(r, to, new, old), reqs[r].st = "piping",
         UNCHANGED <<tm, now, marked, revoked, expires, chains, checks>>
  PROVE  SessionInv'
<1> DEFINE q == [st |-> to, conn |-> reqs[r].conn, new |-> new, old |-> old]
<1>1. /\ reqs' = [reqs EXCEPT ![r] = q] /\ issued' = issued \cup {new} /\ cached' = cached \cup {new}
  BY DEF Sign
<1>2. reqs[r].st \in Asking
  BY DEF Asking
<1>3. to \in Making \ Asking
  BY DEF Making, Asking
<1>4. q \in Request /\ q.st = to /\ q.new = new /\ q.old = old
  <2>1. reqs[r].conn \in Sources /\ old \in Tokens \cup {None}
    BY <1>2, AskingShape DEF SessionInv, RequestInv
  <2> QED
    BY <1>3, <2>1, Shaped
<1> HIDE DEF q
<1>5. RequestInv' /\ Given' = Given
  <2>1. Rest({q.new}) /\ reqs[r].st \notin Making
    BY <1>1, <1>4 DEF SessionInv, RequestInv, Rest, Making
  <2> QED
    BY <1>1, <1>3, <1>4, <2>1, MakingStep DEF SessionInv
<1>6. Revoking(expires, revoked', reqs')
  BY <1>1, RevokingKept DEF SessionInv
<1>7. LoopInv' /\ ManagerInv'
  BY <1>5, <1>6, ManagerStays DEF SessionInv, RequestInv
<1> QED
  BY <1>5, <1>7 DEF SessionInv

LEMMA RefreshTokenFits ==
  ASSUME SessionInv, NEW r \in Reqs, NEW new \in Tokens, RefreshToken(r, new)
  PROVE  SessionInv'
<1>1. /\ reqs[r].st = "piping" /\ reqs[r].tok # None /\ new \in Tokens \ issued
      /\ Sign(r, "signing", new, reqs[r].tok)
      /\ UNCHANGED <<tm, now, marked, revoked, expires, chains, checks>>
  BY DEF RefreshToken, Runs
<1>2. reqs[r].tok \in issued
  BY <1>1, AskingShape DEF SessionInv, Asking, Given
<1> QED
  BY <1>1, <1>2, SignFits

LEMMA LoginFits ==
  ASSUME SessionInv, NEW r \in Reqs, NEW new \in Tokens, Login(r, new)
  PROVE  SessionInv'
<1> DEFINE old == Existing(reqs[r].conn, Owner[new])
<1>1. /\ reqs[r].st = "piping" /\ new \in Tokens \ issued
      /\ Sign(r, "renewing", new, old)
      /\ UNCHANGED <<tm, now, marked, revoked, expires, chains, checks>>
  BY DEF Login, Runs
<1>2. old \in issued \cup {None}
  <2>1. reqs[r].conn \in Sources
    BY <1>1, AskingShape DEF SessionInv, Asking
  <2> QED
    BY <2>1 DEF Existing, Sources, SessionInv, ManagerInv, Sane, Given
<1> HIDE DEF old
<1> QED
  BY <1>1, <1>2, SignFits

LEMMA MarkFits ==
  ASSUME SessionInv, NEW r \in Reqs, Mark(r)
  PROVE  SessionInv'
<1> DEFINE q == [reqs[r] EXCEPT !.st = "marking"]
<1>1. /\ reqs' = [reqs EXCEPT ![r] = q] /\ reqs[r].st = "signing"
      /\ marked' = marked \cup {reqs[r].old} /\ cached' = cached \cup {reqs[r].old}
      /\ UNCHANGED <<tm, now, issued, revoked, expires, chains, checks>>
  BY DEF Mark, SessionInv, RequestInv
<1>2. "signing" \in Making /\ "marking" \in Making \ Asking
  BY DEF Making, Asking
<1>3. /\ q \in Request /\ q.st = "marking" /\ q.new = reqs[r].new /\ q.old = reqs[r].old
  BY <1>1, <1>2, MakingShape DEF SessionInv
<1>4. reqs[r].old \in issued
  BY <1>1, <1>2, MakingShape DEF SessionInv
<1> HIDE DEF q
<1>5. RequestInv' /\ Given' = Given
  <2>1. Rest({})
    BY <1>1, <1>4 DEF SessionInv, RequestInv, Rest
  <2> QED
    BY <1>1, <1>2, <1>3, <2>1, MadeStep DEF SessionInv
<1>6. Revoking(expires, revoked', reqs')
  BY <1>1, RevokingKept DEF SessionInv
<1>7. LoopInv' /\ ManagerInv'
  BY <1>1, <1>5, <1>6, ManagerStays DEF SessionInv, RequestInv
<1> QED
  BY <1>5, <1>7 DEF SessionInv

LEMMA RenewFits ==
  ASSUME SessionInv, NEW r \in Reqs, Renew(r)
  PROVE  SessionInv'
<1> DEFINE q == reqs[r]
           moved == IF q.old = None THEN tm ELSE Refresh(tm, q.old, q.new, Held, now)
           m == IF q.st = "marking" \/ q.conn = Http THEN moved
                ELSE Link(moved, q.new, q.conn, Held, now)
<1>1. /\ q.st \in {"marking", "renewing"} /\ HasCopy(tm, q.new, Held) /\ HasCopy(moved, q.new, Held)
      /\ Becomes(m, expires, chains) /\ reqs' = [reqs EXCEPT ![r] = Done]
      /\ UNCHANGED <<now, issued, cached, marked, revoked, checks>>
  BY DEF Renew, Ends, Manager, redis
<1>2. q.st \in Making /\ q.st # "expiring"
  BY <1>1 DEF Making
<1>3. q.conn \in Sources /\ q.new \in Tokens /\ q.old \in Tokens \cup {None}
  BY <1>2, MakingShape DEF SessionInv
<1>4. RequestInv' /\ Given' = Given \cup {q.new} /\ q.new \notin Given
  <2>1. Rest({})
    BY <1>1 DEF SessionInv, RequestInv, Rest
  <2> QED
    BY <1>1, <1>2, <2>1, AnswerStep DEF SessionInv
<1>5. q.new \in Tokens \cap Given' /\ Sane(tm, Given')
  BY <1>3, <1>4, SaneMore DEF SessionInv, ManagerInv
<1>6. \A h \in Range(tm.arr) : Tok(h) # q.new
  BY <1>4 DEF SessionInv, ManagerInv, Sane
<1>7. now \in Nat /\ \A c \in Conns : Kept(tm, c, Awaited(chains), revoked)
  BY DEF SessionInv, ManagerInv, RequestInv
<1>8. Revoking(expires, revoked', reqs')
  BY <1>1, <1>2, RevokingKept DEF SessionInv
<1> HIDE DEF q
<1>9. /\ Sane(moved, Given') /\ (Covered(tm, now) => Covered(moved, now))
      /\ \A c \in Conns : Kept(moved, c, Awaited(chains), revoked)
  <2>1. CASE q.old = None
    BY <1>5, <1>7, <2>1
  <2>2. CASE q.old # None
    <3>1. q.old \in Tokens /\ moved = Refresh(tm, q.old, q.new, Held, now)
      BY <1>3, <2>2
    <3> QED
      BY <1>1, <1>5, <1>6, <1>7, <3>1, RefreshFits
  <2> QED
    BY <2>1, <2>2
<1>10. m = moved \/ (q.conn \in Conns /\ m = Link(moved, q.new, q.conn, Held, now))
  BY <1>3 DEF Sources
<1> HIDE DEF moved, m
<1>11. /\ Sane(m, Given') /\ (Covered(tm, now) => Covered(m, now))
       /\ \A c \in Conns : Kept(m, c, Awaited(chains), revoked)
  <2>1. CASE m = moved
    BY <1>9, <2>1
  <2>2. CASE q.conn \in Conns /\ m = Link(moved, q.new, q.conn, Held, now)
    BY <1>1, <1>5, <1>7, <1>9, <2>2, LinkFits
  <2> QED
    BY <1>10, <2>1, <2>2
<1>12. LoopInv' /\ ManagerInv'
  BY <1>1, <1>4, <1>8, <1>11, BecomesFits DEF SessionInv, LoopInv, ManagerInv, RequestInv
<1> QED
  BY <1>4, <1>12 DEF SessionInv

\* A loop unlinks one connection, whatever it is linked to.
LEMMA UnlinkedFits ==
  ASSUME NEW m, NEW T, Sane(m, T), NEW c \in Conns, NEW date, NEW W, NEW R
  PROVE  /\ Sane([m EXCEPT !.linked[c] = None], T)
         /\ Covered(m, date) => Covered([m EXCEPT !.linked[c] = None], date)
         /\ [m EXCEPT !.linked[c] = None].conns = m.conns
         /\ [m EXCEPT !.linked[c] = None].linked = [m.linked EXCEPT ![c] = None]
         /\ \A d \in Conns : d = c \/ Kept(m, d, W, R)
                             => Kept([m EXCEPT !.linked[c] = None], d, W, R)
<1> DEFINE n == [m EXCEPT !.linked[c] = None]
<1>1. /\ n.arr = m.arr /\ n.conns = m.conns /\ n.timer = m.timer /\ n.astray = m.astray
      /\ n.linked = [m.linked EXCEPT ![c] = None] /\ n \in ManagerType
  BY DEF Sane, ManagerType
<1> HIDE DEF n
<1>2. \A d \in Conns : n.linked[d] = IF d = c THEN None ELSE m.linked[d]
  BY <1>1, ManagerFields DEF Sane
<1>3. Sane(n, T)
  BY <1>1, <1>2 DEF Sane
<1>4. Covered(m, date) => Covered(n, date)
  BY <1>1 DEF Covered
<1>5. ASSUME NEW d \in Conns, d = c \/ Kept(m, d, W, R) PROVE Kept(n, d, W, R)
  BY <1>1, <1>2, <1>5 DEF Kept
<1> QED
  BY <1>1, <1>3, <1>4, <1>5 DEF n

LEMMA ExpireOverFits ==
  ASSUME SessionInv, NEW e \in expires, ExpireOver(e),
         UNCHANGED <<now, issued, cached, marked, revoked>>
  PROVE  RequestInv' /\ Given' = Given /\ Revoking(expires \ {e}, revoked', reqs')
<1>1. Rest({})
  BY DEF SessionInv, RequestInv, Rest
<1>2. \A f \in expires : f.req \in Reqs /\ f.tok \in revoked /\ reqs[f.req].st = "expiring"
                          /\ (f.obj # None => Tok(f.obj) = f.tok)
  <2>1. Revoking(expires, revoked, reqs) /\ expires \subseteq Expire
    BY DEF SessionInv, LoopInv
  <2> QED
    BY <2>1 DEF Revoking, Expire
<1>3. CASE reqs' = reqs
  <2>1. RequestInv' /\ Given' = Given
    BY <1>1, <1>3, OtherStep DEF SessionInv
  <2> QED
    BY <1>2, <1>3, <2>1 DEF Revoking
<1>4. CASE reqs' = [reqs EXCEPT ![e.req] = Done] /\ ~(\E f \in expires \ {e} : f.req = e.req)
  <2>1. reqs[e.req].st \notin Making /\ Done.st \notin Making /\ Done.st \notin Asking
    BY <1>2, Shaped DEF Making, Asking
  <2>2. RequestInv' /\ Given' = Given
    BY <1>1, <1>2, <1>4, <2>1, AskingStep, Shaped DEF SessionInv
  <2>3. \A f \in expires \ {e} : reqs'[f.req] = reqs[f.req]
    BY <1>2, <1>4 DEF SessionInv, RequestInv
  <2> QED
    BY <1>2, <2>2, <2>3 DEF Revoking
<1> QED
  BY <1>3, <1>4 DEF ExpireOver

LEMMA ExpireLoopFits ==
  ASSUME SessionInv, NEW e \in expires, NEW f \in Expire, f.tok = e.tok, f.req = e.req,
         f.obj \in Handles, Tok(f.obj) = f.tok, ExpireLoop(e, f),
         UNCHANGED <<now, issued, cached, marked, revoked, checks>>
  PROVE  SessionInv'
<1>1. e.tok \in revoked /\ reqs[e.req].st = "expiring" /\ f.obj # None
  <2>1. Revoking(expires, revoked, reqs)
    BY DEF SessionInv, LoopInv
  <2> QED
    BY <2>1, Dates DEF Revoking
<1>2. /\ Sane(tm, Given) /\ now \in Nat /\ expires \subseteq Expire /\ chains \subseteq Chain
      /\ \A c \in Conns : Kept(tm, c, Awaited(chains), revoked)
  BY DEF SessionInv, ManagerInv, RequestInv, LoopInv
<1>3. ASSUME NEW c \in tm.conns[f.obj] \ f.done, UNCHANGED reqs,
             Becomes([tm EXCEPT !.linked[c] = None],
                     (expires \ {e}) \cup {[f EXCEPT !.done = @ \cup {c}]}, chains)
      PROVE  SessionInv'
  <2> DEFINE m  == [tm EXCEPT !.linked[c] = None]
             g  == [f EXCEPT !.done = @ \cup {c}]
             es == (expires \ {e}) \cup {g}
  <2>1. c \in Conns
    BY <1>2, ManagerFields DEF Sane
  <2>2. /\ Sane(m, Given) /\ (Covered(tm, now) => Covered(m, now))
        /\ \A d \in Conns : Kept(m, d, Awaited(chains), revoked)
    BY <1>2, <2>1, UnlinkedFits
  <2>3. RequestInv' /\ Given' = Given
    BY <1>3, OtherStep DEF SessionInv, RequestInv, Rest
  <2>4. g \in Expire /\ g.tok = e.tok /\ g.req = e.req /\ g.obj = f.obj
    BY <2>1 DEF Expire
  <2>5. Becomes(m, es, chains)
    BY <1>3
  <2> HIDE DEF m, g
  <2>6. Revoking(es, revoked', reqs')
    <3>1. Revoking(expires, revoked, reqs)
      BY DEF SessionInv, LoopInv
    <3> QED
      BY <1>1, <1>3, <2>4, <3>1 DEF Revoking
  <2>7. es \in SUBSET Expire
    BY <1>2, <2>4
  <2> HIDE DEF es
  <2>8. LoopInv' /\ ManagerInv'
    BY <1>2, <2>2, <2>3, <2>5, <2>6, <2>7, BecomesFits DEF SessionInv, LoopInv, ManagerInv
  <2> QED
    BY <2>3, <2>8 DEF SessionInv
<1>4. ASSUME Becomes(DeleteAt(tm, f.pos, f.obj), expires \ {e}, chains), ExpireOver(e)
      PROVE  SessionInv'
  <2> DEFINE m == DeleteAt(tm, f.pos, f.obj)
  <2>1. f.pos \in Nat
    BY DEF Expire
  <2>2. /\ Sane(m, Given) /\ (Covered(tm, now) => Covered(m, now))
        /\ \A d \in Conns : Kept(m, d, Awaited(chains), revoked)
    <3> DEFINE h == f.obj
               pos == f.pos
    <3>1. pos \in Nat /\ Tok(h) \in revoked /\ m = DeleteAt(tm, pos, h)
      BY <1>1, <2>1
    <3> HIDE DEF h, pos, m
    <3>2. /\ Sane(m, Given) /\ (Covered(tm, now) => Covered(m, now))
      BY <1>2, <3>1, DeleteAtFits
    <3>3. ASSUME NEW d \in Conns PROVE Kept(m, d, Awaited(chains), revoked)
      BY <1>2, <3>1, DeleteAtFits
    <3> QED
      BY <3>2, <3>3
  <2>3. RequestInv' /\ Given' = Given /\ Revoking(expires \ {e}, revoked', reqs')
    BY <1>4, ExpireOverFits
  <2> HIDE DEF m
  <2>4. LoopInv' /\ ManagerInv'
    BY <1>2, <1>4, <2>2, <2>3, BecomesFits DEF SessionInv, LoopInv, ManagerInv, m
  <2> QED
    BY <2>3, <2>4 DEF SessionInv
<1> QED
  BY <1>3, <1>4 DEF ExpireLoop

LEMMA ExpireFits ==
  ASSUME SessionInv, NEW e \in expires, ExpireStart(e) \/ ExpireNext(e)
  PROVE  SessionInv'
<1>1. /\ UNCHANGED <<now, issued, cached, marked, revoked, checks>> /\ e \in Expire
      /\ Sane(tm, Given) /\ tm.arr \in Seq(Handles) /\ e.tok \in Tokens
  BY ManagerFields DEF ExpireStart, ExpireNext, redis, SessionInv, LoopInv, Expire, ManagerInv, Sane
<1>2. e.obj # None => Tok(e.obj) = e.tok /\ e.obj \in Handles
  <2>1. Revoking(expires, revoked, reqs)
    BY DEF SessionInv, LoopInv
  <2> QED
    BY <1>1, <2>1 DEF Revoking, Expire
<1>3. CASE ExpireNext(e)
  BY <1>1, <1>2, <1>3, ExpireLoopFits DEF ExpireNext
<1>4. CASE ExpireStart(e)
  <2> DEFINE pos == Search(tm.arr, e.tok)
             f   == [e EXCEPT !.obj = tm.arr[pos], !.pos = pos]
  <2>1. pos \in 0..Len(tm.arr) /\ (pos # 0 => Tok(tm.arr[pos]) = e.tok)
    BY <1>1, SearchFinds
  <2>2. CASE pos = 0
    <3>1. Becomes(tm, expires \ {e}, chains) /\ ExpireOver(e)
      BY <1>4, <2>2 DEF ExpireStart
    <3>2. RequestInv' /\ Given' = Given /\ Revoking(expires \ {e}, revoked', reqs')
      BY <1>1, <3>1, ExpireOverFits
    <3>3. LoopInv' /\ ManagerInv'
      BY <1>1, <3>1, <3>2, BecomesFits DEF SessionInv, LoopInv, ManagerInv, RequestInv
    <3> QED
      BY <3>2, <3>3 DEF SessionInv
  <2>3. CASE pos # 0
    <3>1. ExpireLoop(e, f)
      BY <1>4, <2>3 DEF ExpireStart
    <3> HIDE DEF pos
    <3>2. pos \in Nat /\ tm.arr[pos] \in Handles
      BY <1>1, <2>1, <2>3
    <3>3. /\ f \in Expire /\ f.tok = e.tok /\ f.req = e.req /\ f.obj = tm.arr[pos]
      BY <1>1, <3>2 DEF Expire
    <3> HIDE DEF f
    <3> QED
      BY <1>1, <2>1, <2>3, <3>1, <3>2, <3>3, ExpireLoopFits
  <2> QED
    BY <2>2, <2>3
<1> QED
  BY <1>3, <1>4

\* The loop of a removed object: the connections that it has not passed are awaited.
LEMMA ChainLoopFits ==
  ASSUME SessionInv, NEW m, Sane(m, Given), NEW ks \in SUBSET Chain, NEW obj \in Handles,
         NEW done \in SUBSET Conns, NEW imm \in Nat, ChainLoop(m, ks, obj, done, imm),
         \A c \in Conns : Kept(m, c, Awaited(ks) \cup ({obj} \X (Conns \ done)), revoked),
         UNCHANGED <<now, issued, cached, marked, revoked, reqs>>
  PROVE  SessionInv'
<1>1. RequestInv' /\ Given' = Given
  BY OtherStep DEF SessionInv, RequestInv, Rest
<1>2. Revoking(expires, revoked', reqs') /\ expires \in SUBSET Expire /\ now' \in Nat
  BY DEF SessionInv, LoopInv, RequestInv
<1>3. ASSUME NEW c \in m.conns[obj] \ done, checks' = imm,
             Becomes(m, expires, ks \cup {[obj |-> obj, cur |-> c, done |-> done \cup {c}]})
      PROVE  LoopInv' /\ ManagerInv'
  <2> DEFINE k  == [obj |-> obj, cur |-> c, done |-> done \cup {c}]
             ls == ks \cup {k}
  <2>1. c \in Conns
    BY ManagerFields DEF Sane
  <2>2. k \in Chain /\ k.obj = obj /\ k.cur = c /\ k.done = done \cup {c}
    BY <2>1 DEF Chain
  <2>3. Becomes(m, expires, ls)
    BY <1>3
  <2> HIDE DEF k
  <2>4. Awaited(ks) \cup ({obj} \X (Conns \ done)) \subseteq Awaited(ls)
    BY <2>2 DEF Awaited
  <2>5. \A d \in Conns : Kept(m, d, Awaited(ls), revoked')
    BY <2>4, KeptMore
  <2>6. ls \in SUBSET Chain /\ ls # {}
    BY <2>2
  <2> HIDE DEF ls
  <2> QED
    BY <1>1, <1>2, <1>3, <2>3, <2>5, <2>6, BecomesFits
<1>4. ASSUME m.conns[obj] \subseteq done, Becomes(m, expires, ks), checks' = imm + 1
      PROVE  LoopInv' /\ ManagerInv'
  <2>1. ASSUME NEW d \in Conns PROVE Kept(m, d, Awaited(ks), revoked')
    <3>1. Kept(m, d, Awaited(ks) \cup ({obj} \X (Conns \ done)), revoked)
      OBVIOUS
    <3>2. d \in m.conns[m.linked[d]] => <<m.linked[d], d>> \notin {obj} \X (Conns \ done)
      BY <1>4
    <3> QED
      BY <3>1, <3>2 DEF Kept
  <2>2. checks' \in Nat /\ checks' > 0
    BY <1>4
  <2> QED
    BY <1>1, <1>2, <1>4, <2>1, <2>2, BecomesFits
<1> QED
  BY <1>1, <1>3, <1>4 DEF ChainLoop, SessionInv

LEMMA CheckFits ==
  ASSUME SessionInv, NEW m, Sane(m, Given), NEW imm \in Nat, CheckTokensValidity(m, imm),
         \A c \in Conns : Kept(m, c, Awaited(chains), revoked),
         UNCHANGED <<now, issued, cached, marked, revoked, reqs>>
  PROVE  SessionInv'
<1>1. CASE HeadExpired(m, now)
  <2> DEFINE n == [m EXCEPT !.arr = Tail(@)]
             h == m.arr[1]
  <2>1. m.arr \in Seq(Handles) /\ m.arr # <<>> /\ h \in Handles
    BY <1>1, ManagerFields DEF HeadExpired, Sane
  <2>2. Tail(m.arr) \in Seq(Handles) /\ Ordered(Tail(m.arr))
    BY <2>1, HeadTailProperties, OrderedTail DEF Sane
  <2>3. Range(Tail(m.arr)) \subseteq Range(m.arr) /\ Range(m.arr) \subseteq Range(Tail(m.arr)) \cup {h}
    BY <2>1, TailRange
  <2>4. /\ n.arr = Tail(m.arr) /\ n.conns = m.conns /\ n.timer = m.timer /\ n.astray = m.astray
        /\ n.linked = m.linked /\ n \in ManagerType
    BY <2>2 DEF Sane, ManagerType
  <2>5. ChainLoop(n, chains, h, {}, imm)
    BY <1>1 DEF CheckTokensValidity
  <2> HIDE DEF n, h
  <2>6. Sane(n, Given)
    BY <2>2, <2>3, <2>4 DEF Sane
  <2>7. ASSUME NEW c \in Conns
        PROVE  Kept(n, c, Awaited(chains) \cup ({h} \X (Conns \ {})), revoked)
    <3>1. Kept(m, c, Awaited(chains), revoked)
      OBVIOUS
    <3>2. m.linked[c] \in Range(m.arr) =>
            m.linked[c] \in Range(n.arr) \/ <<m.linked[c], c>> \in {h} \X (Conns \ {})
      BY <2>3, <2>4
    <3> QED
      BY <2>4, <3>1, <3>2 DEF Kept
  <2>8. chains \in SUBSET Chain /\ {} \in SUBSET Conns
    BY DEF SessionInv, LoopInv
  <2> QED
    BY <2>1, <2>5, <2>6, <2>7, <2>8, ChainLoopFits DEF h
<1>2. CASE ~HeadExpired(m, now)
  <2> DEFINE n == RunTimer(m, now)
  <2>1. Becomes(n, expires, chains) /\ checks' = imm
    BY <1>2 DEF CheckTokensValidity, Manager
  <2>2. /\ Sane(n, Given) /\ Covered(n, now)
        /\ \A c \in Conns : Kept(n, c, Awaited(chains), revoked)
    BY RunTimerFits DEF SessionInv, RequestInv
  <2> HIDE DEF n
  <2>3. RequestInv' /\ Given' = Given
    BY OtherStep DEF SessionInv, RequestInv, Rest
  <2>4. LoopInv' /\ ManagerInv'
    BY <2>1, <2>2, <2>3, BecomesFits DEF SessionInv, LoopInv, RequestInv
  <2> QED
    BY <2>3, <2>4 DEF SessionInv
<1> QED
  BY <1>1, <1>2

LEMMA ChecksFit ==
  ASSUME SessionInv, Checks
  PROVE  SessionInv'
<1>1. /\ Sane(tm, Given) /\ checks \in Nat /\ chains \in SUBSET Chain
      /\ \A c \in Conns : Kept(tm, c, Awaited(chains), revoked)
  BY DEF SessionInv, ManagerInv, LoopInv
<1>2. CASE TimerFires
  <2> DEFINE m == [tm EXCEPT !.timer = None]
  <2>1. /\ m.arr = tm.arr /\ m.conns = tm.conns /\ m.linked = tm.linked /\ m.astray = tm.astray
        /\ m \in ManagerType
    BY <1>1 DEF Sane, ManagerType
  <2>2. CheckTokensValidity(m, checks) /\ UNCHANGED <<now, issued, cached, marked, revoked, reqs>>
    BY <1>2 DEF TimerFires, redis
  <2> HIDE DEF m
  <2>3. Sane(m, Given) /\ \A c \in Conns : Kept(m, c, Awaited(chains), revoked)
    BY <1>1, <2>1 DEF Sane, Kept
  <2> QED
    BY <1>1, <2>2, <2>3, CheckFits
<1>3. CASE Immediate
  <2>1. /\ CheckTokensValidity(tm, checks - 1) /\ checks - 1 \in Nat
        /\ UNCHANGED <<now, issued, cached, marked, revoked, reqs>>
    BY <1>1, <1>3 DEF Immediate, redis
  <2> QED
    BY <1>1, <2>1, CheckFits
<1>4. ASSUME NEW k \in chains, Notified(k) PROVE SessionInv'
  <2> DEFINE m  == [tm EXCEPT !.linked[k.cur] = None]
             ks == chains \ {k}
  <2>1. k \in Chain /\ k.cur \in Conns /\ k.obj \in Handles /\ k.done \in SUBSET Conns
    BY <1>1 DEF Chain
  <2>2. /\ ChainLoop(m, ks, k.obj, k.done, checks)
        /\ UNCHANGED <<now, issued, cached, marked, revoked, reqs>>
    BY <1>4 DEF Notified, redis
  <2>3. Sane(m, Given) /\ m.linked = [tm.linked EXCEPT ![k.cur] = None]
    BY <1>1, <2>1, UnlinkedFits
  <2>4. \A d \in Conns : d = k.cur \/ Kept(tm, d, Awaited(ks) \cup ({k.obj} \X (Conns \ k.done)), revoked)
    <3> SUFFICES ASSUME NEW d \in Conns, d # k.cur
                 PROVE  Kept(tm, d, Awaited(ks) \cup ({k.obj} \X (Conns \ k.done)), revoked)
      OBVIOUS
    <3>1. Kept(tm, d, Awaited(chains), revoked)
      BY <1>1
    <3>2. \A h \in Handles : <<h, d>> \in Awaited(chains)
                           => <<h, d>> \in Awaited(ks) \cup ({k.obj} \X (Conns \ k.done))
      BY DEF Awaited
    <3>3. tm.linked[d] # None => tm.linked[d] \in Handles
      BY <1>1, ManagerFields DEF Sane
    <3> QED
      BY <3>1, <3>2, <3>3 DEF Kept
  <2>5. \A d \in Conns : Kept(m, d, Awaited(ks) \cup ({k.obj} \X (Conns \ k.done)), revoked)
    BY <1>1, <2>1, <2>4, UnlinkedFits
  <2> HIDE DEF m
  <2> QED
    BY <1>1, <2>1, <2>2, <2>3, <2>5, ChainLoopFits
<1> QED
  BY <1>2, <1>3, <1>4 DEF Checks

-----------------------------------------------------------------------------
(* The pipes: the runner counts those that run, and buffers requests that  *)
(* wait, each of them once.                                                *)

Piping == {r \in Reqs : reqs[r].st = "piping"}

PipesInv ==
  /\ \A i \in DOMAIN pr.buffer : reqs[pr.buffer[i]].st = "buffered"
  /\ \A i, j \in DOMAIN pr.buffer : i # j => pr.buffer[i] # pr.buffer[j]
  /\ pr.running = Cardinality(Piping)

LEMMA PipingFinite ==
  ASSUME NEW P \in SUBSET Reqs
  PROVE  IsFiniteSet(P) /\ Cardinality(P) \in Nat
<1>1. MaxReqs \in Nat
  BY SessionsAssumption
<1>2. IsFiniteSet(Reqs)
  BY <1>1, FS_Interval DEF Reqs
<1> QED
  BY <1>2, FS_Subset, FS_CardinalityType

LEMMA PipesStay ==
  ASSUME RequestInv, RunnerInv, PipesInv, NEW r \in Reqs, NEW q, reqs' = [reqs EXCEPT ![r] = q],
         reqs[r].st \notin {"buffered", "piping"}, q.st \notin {"buffered", "piping"}, UNCHANGED pr
  PROVE  PipesInv'
<1>1. \A x \in Reqs : reqs'[x] = IF x = r THEN q ELSE reqs[x]
  BY DEF RequestInv
<1>2. Piping' = Piping
  BY <1>1 DEF Piping
<1>3. \A i \in DOMAIN pr.buffer : pr.buffer[i] \in Reqs
  BY DEF RunnerInv
<1> QED
  BY <1>1, <1>2, <1>3 DEF PipesInv

LEMMA PipesLeave ==
  ASSUME RequestInv, RunnerInv, PipesInv, NEW r \in Reqs, NEW q, reqs' = [reqs EXCEPT ![r] = q],
         reqs[r].st = "piping", q.st \notin {"buffered", "piping"}, pr' = Finish(pr)
  PROVE  PipesInv'
<1>1. \A x \in Reqs : reqs'[x] = IF x = r THEN q ELSE reqs[x]
  BY DEF RequestInv
<1>2. Piping' = Piping \ {r} /\ r \in Piping
  BY <1>1 DEF Piping
<1>3. \A i \in DOMAIN pr.buffer : pr.buffer[i] \in Reqs
  BY DEF RunnerInv
<1>4. pr'.buffer = pr.buffer /\ pr'.running = pr.running - 1
  BY DEF Finish, RunnerInv
<1>5. Cardinality(Piping') = Cardinality(Piping) - 1
  <2>1. IsFiniteSet(Piping)
    BY PipingFinite DEF Piping
  <2> QED
    BY <1>2, <2>1, FS_RemoveElement
<1> QED
  BY <1>1, <1>3, <1>4, <1>5 DEF PipesInv

LEMMA PipesEnter ==
  ASSUME RequestInv, RunnerInv, PipesInv, NEW r \in Reqs, NEW q, reqs' = [reqs EXCEPT ![r] = q],
         reqs[r].st \notin {"buffered", "piping"}, pr' = Run(pr, r),
         q.st = IF HasSlot(pr) THEN "piping" ELSE IF BufferFull(pr) THEN "done" ELSE "buffered"
  PROVE  PipesInv'
<1>1. \A x \in Reqs : reqs'[x] = IF x = r THEN q ELSE reqs[x]
  BY DEF RequestInv
<1>2. \A i \in DOMAIN pr.buffer : pr.buffer[i] \in Reqs /\ pr.buffer[i] # r
  BY DEF RunnerInv, PipesInv
<1>3. CASE HasSlot(pr)
  <2>1. pr'.buffer = pr.buffer /\ pr'.running = pr.running + 1
    BY <1>3 DEF Run, RunnerInv
  <2>2. Piping' = Piping \cup {r} /\ r \notin Piping
    BY <1>1, <1>3 DEF Piping
  <2>3. Cardinality(Piping') = Cardinality(Piping) + 1
    <3>1. IsFiniteSet(Piping)
      BY PipingFinite DEF Piping
    <3> QED
      BY <2>2, <3>1, FS_AddElement
  <2> QED
    BY <1>1, <1>2, <2>1, <2>3 DEF PipesInv
<1>4. CASE ~HasSlot(pr)
  <2>1. Piping' = Piping
    BY <1>1, <1>4 DEF Piping
  <2>2. CASE BufferFull(pr)
    BY <1>1, <1>2, <1>4, <2>1, <2>2 DEF PipesInv, Run
  <2>3. CASE ~BufferFull(pr)
    <3> DEFINE b == pr.buffer
               a == Append(b, r)
    <3>1. pr'.buffer = a /\ pr'.running = pr.running
      BY <1>4, <2>3 DEF Run, RunnerInv
    <3>2. b \in Seq(Reqs)
      BY DEF RunnerInv
    <3> HIDE DEF b
    <3>3. /\ DOMAIN a = 1..(Len(b) + 1) /\ DOMAIN b = 1..Len(b) /\ Len(b) \in Nat
          /\ \A i \in 1..Len(b) : a[i] = b[i]
          /\ a[Len(b) + 1] = r
      BY <3>2
    <3> HIDE DEF a
    <3>4. q.st = "buffered" /\ reqs'[r] = q
      BY <1>1, <1>4, <2>3
    <3>5. \A i \in 1..Len(b) : b[i] \in Reqs /\ b[i] # r /\ reqs'[b[i]].st = "buffered"
      BY <1>1, <1>2, <3>3 DEF PipesInv, b
    <3>6. \A i \in DOMAIN a : reqs'[a[i]].st = "buffered"
      BY <3>3, <3>4, <3>5
    <3>7. \A i, j \in 1..Len(b) : i # j => b[i] # b[j]
      BY <3>3 DEF PipesInv, b
    <3>8. \A i, j \in DOMAIN a : i # j => a[i] # a[j]
      BY <3>3, <3>5, <3>7
    <3> QED
      BY <2>1, <3>1, <3>6, <3>8 DEF PipesInv
  <2> QED
    BY <2>2, <2>3
<1> QED
  BY <1>3, <1>4

LEMMA PipeNextFits ==
  ASSUME SessionInv, RunnerInv, PipesInv, PipeNext
  PROVE  SessionInv' /\ PipesInv'
<1>1. /\ UNCHANGED <<tm, now, issued, cached, marked, revoked, expires, chains, checks>>
      /\ pr' = RunNext(pr)
  BY DEF PipeNext, redis
<1>2. Rest({})
  BY <1>1 DEF SessionInv, RequestInv, Rest
<1>3. CASE ~CanRunNext(pr)
  <2>1. reqs' = reqs /\ pr'.buffer = pr.buffer /\ pr'.running = pr.running
    BY <1>3 DEF PipeNext, RunNext, RunnerInv
  <2>2. RequestInv' /\ Given' = Given
    BY <1>2, <2>1, OtherStep DEF SessionInv
  <2>3. Revoking(expires, revoked', reqs')
    BY <1>1, <2>1 DEF SessionInv, LoopInv
  <2>4. LoopInv' /\ ManagerInv'
    BY <1>1, <2>2, <2>3, ManagerStays DEF SessionInv, RequestInv
  <2>5. PipesInv'
    BY <2>1 DEF PipesInv, Piping
  <2> QED
    BY <2>2, <2>4, <2>5 DEF SessionInv
<1>4. CASE CanRunNext(pr)
  <2> DEFINE b == pr.buffer
             h == Head(b)
             q == [reqs[h] EXCEPT !.st = "piping"]
  <2>1. b \in Seq(Reqs) /\ b # <<>>
    BY <1>4 DEF RunnerInv, CanRunNext
  <2>2. /\ h = b[1] /\ h \in Reqs /\ DOMAIN b = 1..Len(b) /\ Len(b) \in Nat /\ 1 \in DOMAIN b
        /\ DOMAIN Tail(b) = 1..(Len(b) - 1) /\ \A i \in 1..(Len(b) - 1) : Tail(b)[i] = b[i + 1]
    <3> HIDE DEF b
    <3> QED
      BY <2>1
  <2>3. pr'.buffer = Tail(b) /\ pr'.running = pr.running + 1
    BY <1>1, <1>4 DEF RunNext
  <2>4. reqs[h].st = "buffered"
    BY <2>2 DEF PipesInv
  <2>5. reqs' = [reqs EXCEPT ![h] = q]
    BY <1>4, <2>2 DEF PipeNext, SessionInv, RequestInv
  <2> HIDE DEF h
  <2>6. "buffered" \in Asking /\ "piping" \in Asking \ Making
    BY DEF Asking, Making
  <2>7. /\ reqs[h].st \notin Making /\ (reqs[h].tok # None => reqs[h].tok \in Given)
        /\ q \in Request /\ q.st = "piping" /\ q.tok = reqs[h].tok
    BY <2>2, <2>4, <2>6, AskingShape DEF SessionInv
  <2> HIDE DEF q
  <2>8. RequestInv' /\ Given' = Given
    BY <1>2, <2>2, <2>5, <2>6, <2>7, AskingStep DEF SessionInv
  <2>9. Revoking(expires, revoked', reqs')
    BY <1>1, <2>2, <2>4, <2>5, RevokingKept DEF SessionInv
  <2>10. LoopInv' /\ ManagerInv'
    BY <1>1, <2>8, <2>9, ManagerStays DEF SessionInv, RequestInv
  <2>11. \A x \in Reqs : reqs'[x] = IF x = h THEN q ELSE reqs[x]
    BY <2>5 DEF SessionInv, RequestInv
  <2>12. Piping' = Piping \cup {h} /\ h \notin Piping
    BY <2>2, <2>4, <2>7, <2>11 DEF Piping
  <2>13. Cardinality(Piping') = Cardinality(Piping) + 1
    <3>1. IsFiniteSet(Piping)
      BY PipingFinite DEF Piping
    <3> QED
      BY <2>12, <3>1, FS_AddElement
  <2>14. /\ \A i \in DOMAIN b : b[i] \in Reqs /\ reqs[b[i]].st = "buffered"
         /\ \A i, j \in DOMAIN b : i # j => b[i] # b[j]
    BY <2>1 DEF PipesInv
  <2> HIDE DEF b
  <2>15. \A i \in 1..(Len(b) - 1) : i + 1 \in DOMAIN b /\ i + 1 # 1
    BY <2>2
  <2>16. \A i \in DOMAIN Tail(b) : reqs'[Tail(b)[i]].st = "buffered"
    BY <2>2, <2>11, <2>14, <2>15
  <2>17. \A i, j \in DOMAIN Tail(b) : i # j => Tail(b)[i] # Tail(b)[j]
    BY <2>2, <2>14, <2>15
  <2>18. PipesInv'
    BY <2>3, <2>13, <2>16, <2>17 DEF PipesInv
  <2> QED
    BY <2>8, <2>10, <2>18 DEF SessionInv
<1> QED
  BY <1>3, <1>4

LEMMA PipesSame ==
  ASSUME PipesInv, UNCHANGED <<reqs, pr>>
  PROVE  PipesInv'
BY DEF PipesInv, Piping

LEMMA PipesStep ==
  ASSUME SessionInv, RunnerInv, PipesInv, [Next]_sessionVars
  PROVE  PipesInv'
<1>1. RequestInv
  BY DEF SessionInv
<1>2. ASSUME NEW r \in Reqs, RequestStep(r) PROVE PipesInv'
  <2>1. ASSUME NEW c \in Sources, NEW t \in Tokens \cup {None}, Verify(r, c, t) PROVE PipesInv'
    <3> DEFINE q == [st |-> "verified", conn |-> c, tok |-> t, seen |-> t \in marked]
    <3>1. reqs' = [reqs EXCEPT ![r] = q] /\ reqs[r] = New /\ UNCHANGED pr /\ q.st = "verified"
      BY <2>1 DEF Verify
    <3> HIDE DEF q
    <3> QED
      BY <1>1, <3>1, Shaped, PipesStay
  <2>2. CASE Authorize(r)
    <3> DEFINE q == IF HasSlot(pr) THEN [reqs[r] EXCEPT !.st = "piping"]
                    ELSE IF BufferFull(pr) THEN Done ELSE [reqs[r] EXCEPT !.st = "buffered"]
    <3>1. reqs' = [reqs EXCEPT ![r] = q] /\ reqs[r].st = "verified" /\ pr' = Run(pr, r)
      BY <2>2 DEF Authorize
    <3>2. \A st \in {"piping", "buffered"} : [reqs[r] EXCEPT !.st = st].st = st
      BY <1>1, <3>1, AskingShape DEF Asking
    <3>3. q.st = IF HasSlot(pr) THEN "piping" ELSE IF BufferFull(pr) THEN "done" ELSE "buffered"
      BY <3>2, Shaped
    <3> HIDE DEF q
    <3> QED
      BY <1>1, <3>1, <3>3, PipesEnter
  <2>3. ASSUME NEW q, Runs(r), reqs' = [reqs EXCEPT ![r] = q], q.st \notin {"buffered", "piping"}
        PROVE  PipesInv'
    BY <1>1, <2>3, PipesLeave DEF Runs
  <2>4. CASE Query(r)
    BY <2>3, <2>4, Shaped DEF Query, Ends
  <2>5. ASSUME NEW all \in BOOLEAN, Logout(r, all) PROVE PipesInv'
    <3>1. PICK ts : Runs(r) /\ Revoke(r, ts)
      BY <2>5 DEF Logout
    <3> DEFINE q == IF ts = {} THEN Done ELSE [reqs[r] EXCEPT !.st = "expiring"]
    <3>2. reqs' = [reqs EXCEPT ![r] = q]
      BY <3>1 DEF Revoke
    <3>3. [reqs[r] EXCEPT !.st = "expiring"].st = "expiring"
      BY <1>1, <3>1, AskingShape DEF Asking, Runs
    <3>4. q.st \notin {"buffered", "piping"}
      BY <3>3, Shaped
    <3> HIDE DEF q
    <3> QED
      BY <2>3, <3>1, <3>2, <3>4
  <2>6. ASSUME NEW new \in Tokens, RefreshToken(r, new) \/ Login(r, new) PROVE PipesInv'
    <3>1. PICK to, old : /\ to \in {"signing", "renewing"}
                        /\ Runs(r) /\ Sign(r, to, new, old)
      BY <2>6 DEF RefreshToken, Login
    <3> DEFINE q == [st |-> to, conn |-> reqs[r].conn, new |-> new, old |-> old]
    <3>2. reqs' = [reqs EXCEPT ![r] = q] /\ q.st \notin {"buffered", "piping"}
      BY <3>1 DEF Sign
    <3> HIDE DEF q
    <3> QED
      BY <2>3, <3>1, <3>2
  <2>7. CASE Mark(r)
    <3> DEFINE q == [reqs[r] EXCEPT !.st = "marking"]
    <3>1. reqs' = [reqs EXCEPT ![r] = q] /\ reqs[r].st = "signing" /\ UNCHANGED pr
      BY <2>7 DEF Mark, SessionInv, RequestInv
    <3>2. q.st = "marking"
      BY <1>1, <3>1, MakingShape DEF Making
    <3> HIDE DEF q
    <3> QED
      BY <1>1, <3>1, <3>2, PipesStay
  <2>8. CASE Renew(r)
    <3>1. reqs' = [reqs EXCEPT ![r] = Done] /\ reqs[r].st \in {"marking", "renewing"} /\ UNCHANGED pr
      BY <2>8 DEF Renew, Ends
    <3> QED
      BY <1>1, <3>1, Shaped, PipesStay
  <2> QED
    BY <1>2, <2>1, <2>2, <2>4, <2>5, <2>6, <2>7, <2>8 DEF RequestStep
<1>3. ASSUME NEW e \in expires, ExpireStart(e) \/ ExpireNext(e) PROVE PipesInv'
  <2>1. UNCHANGED pr /\ (UNCHANGED reqs \/ ExpireOver(e))
    BY <1>3 DEF ExpireStart, ExpireNext, ExpireLoop
  <2>2. e.req \in Reqs /\ reqs[e.req].st = "expiring"
    <3>1. Revoking(expires, revoked, reqs) /\ e \in Expire
      BY DEF SessionInv, LoopInv
    <3> QED
      BY <3>1 DEF Revoking, Expire
  <2>3. UNCHANGED reqs \/ reqs' = [reqs EXCEPT ![e.req] = Done]
    BY <2>1 DEF ExpireOver
  <2> QED
    BY <1>1, <2>1, <2>2, <2>3, Shaped, PipesStay, PipesSame
<1>4. CASE PipeNext
  BY <1>4, PipeNextFits
<1>5. CASE Checks
  BY <1>5, PipesSame DEF Checks, TimerFires, Immediate, Notified
<1>6. CASE Tick \/ (\E t \in Tokens : Forget(t)) \/ (\E c \in Conns : Close(c))
  BY <1>6, PipesSame DEF Tick, Forget, Close
<1>7. CASE UNCHANGED sessionVars
  BY <1>7, PipesSame DEF sessionVars
<1> QED
  BY <1>2, <1>3, <1>4, <1>5, <1>6, <1>7 DEF Next

-----------------------------------------------------------------------------
(* The invariant, and what follows.                                        *)

AllInv ==
  /\ SessionInv /\ RunnerInv /\ PipesInv
  /\ open \subseteq Conns /\ now \in 0..MaxTime

LEMMA SessionStep ==
  ASSUME SessionInv, RunnerInv, PipesInv, [Next]_sessionVars
  PROVE  SessionInv'
<1>1. ASSUME NEW r \in Reqs, RequestStep(r) PROVE SessionInv'
  BY <1>1, VerifyFits, AuthorizeFits, QueryFits, LogoutFits, RefreshTokenFits, LoginFits,
     MarkFits, RenewFits DEF RequestStep
<1>2. CASE UNCHANGED sessionVars
  <2>1. UNCHANGED <<tm, now, issued, cached, marked, revoked, reqs, expires, chains, checks>>
    BY <1>2 DEF sessionVars
  <2>2. RequestInv' /\ Given' = Given
    BY <2>1, OtherStep DEF SessionInv, RequestInv, Rest
  <2>3. Revoking(expires, revoked', reqs')
    BY <2>1 DEF SessionInv, LoopInv
  <2>4. LoopInv' /\ ManagerInv'
    BY <2>1, <2>2, <2>3, ManagerStays DEF SessionInv, RequestInv
  <2> QED
    BY <2>2, <2>4 DEF SessionInv
<1> QED
  BY <1>1, <1>2, TickFits, CloseFits, PipeNextFits, ExpireFits, ChecksFit DEF Next

LEMMA BeforeSane ==
  ASSUME NEW W, NEW R
  PROVE  /\ Sane(Before, {s[1] : s \in Range(Sessions0)}) /\ Covered(Before, 0)
         /\ \A c \in Conns : Kept(Before, c, W, R)
<1> DEFINE At(c) == {i \in DOMAIN Sessions0 : c \in Sessions0[i][2]}
           first(i) == <<Sessions0[i][1], 1>>
           m == [arr |-> [i \in DOMAIN Sessions0 |-> first(i)],
                 conns |-> [h \in Handles |->
                   UNION {Sessions0[i][2] : i \in {j \in DOMAIN Sessions0 : first(j) = h}}],
                 linked |-> [c \in Conns |->
                   IF At(c) = {} THEN None ELSE first(CHOOSE i \in At(c) : TRUE)],
                 timer |-> None, astray |-> {}]
           T == {s[1] : s \in Range(Sessions0)}
<1>1. Before = RunTimer(m, 0)
  BY DEF Before
<1>2. /\ Len(Sessions0) \in Nat /\ DOMAIN Sessions0 = 1..Len(Sessions0)
      /\ \A i \in DOMAIN Sessions0 : /\ Sessions0[i] \in Tokens \X SUBSET Conns
                                     /\ Sessions0[i][1] \in Tokens /\ Sessions0[i][2] \subseteq Conns
  <2>1. Sessions0 \in Seq(Tokens \X SUBSET Conns)
    BY SessionsAssumption
  <2> QED
    BY <2>1
<1>3. \A i \in DOMAIN Sessions0 : /\ first(i) \in Handles /\ Tok(first(i)) = Sessions0[i][1]
                                 /\ Tok(first(i)) \in T
  <2>1. 1 \in 1..Copies
    BY TokenManagerAssumption
  <2> QED
    BY <1>2, <2>1 DEF Handles, Tok, Range
<1>4. /\ m.arr = [i \in DOMAIN Sessions0 |-> first(i)]
      /\ m.conns = [h \in Handles |->
                    UNION {Sessions0[i][2] : i \in {j \in DOMAIN Sessions0 : first(j) = h}}]
      /\ m.linked = [c \in Conns |-> IF At(c) = {} THEN None ELSE first(CHOOSE i \in At(c) : TRUE)]
      /\ m.astray = {} /\ m.timer = None
      /\ m = [arr |-> m.arr, conns |-> m.conns, linked |-> m.linked, timer |-> m.timer,
              astray |-> m.astray]
  OBVIOUS
<1> HIDE DEF m, first, T
<1>5. m.arr \in Seq(Handles) /\ DOMAIN m.arr = DOMAIN Sessions0
  BY <1>2, <1>3, <1>4
<1>6. \A h \in Handles :
        UNION {Sessions0[i][2] : i \in {j \in DOMAIN Sessions0 : first(j) = h}} \in SUBSET Conns
  BY <1>2
<1>7. \A c \in Conns : \/ m.linked[c] = None
                      \/ \E i \in At(c) : m.linked[c] = first(i)
  BY <1>4
<1>8. m \in ManagerType
  <2>1. m.conns \in [Handles -> SUBSET Conns]
    BY <1>4, <1>6
  <2>2. m.linked \in [Conns -> Handles \cup {None}]
    BY <1>3, <1>4, <1>7
  <2> QED
    BY <1>4, <1>5, <2>1, <2>2 DEF ManagerType
<1>9. Ordered(m.arr)
  BY <1>3, <1>4, <1>5, SessionsAssumption DEF Ordered, Dated
<1>10. Sane(m, T)
  <2>1. \A i \in DOMAIN m.arr : Tok(m.arr[i]) \in T
    BY <1>3, <1>4, <1>5
  <2>2. \A h \in Range(m.arr) : Tok(h) \in T
    BY <2>1 DEF Range
  <2>3. \A c \in Conns : m.linked[c] # None => Tok(m.linked[c]) \in T
    BY <1>3, <1>7
  <2> QED
    BY <1>8, <1>9, <2>2, <2>3 DEF Sane
<1>11. ASSUME NEW c \in Conns PROVE Kept(m, c, W, R)
  <2>1. ASSUME NEW i \in At(c), m.linked[c] = first(i)
        PROVE  c \in m.conns[m.linked[c]] /\ m.linked[c] \in Range(m.arr)
    <3>1. i \in DOMAIN Sessions0 /\ c \in Sessions0[i][2] /\ first(i) \in Handles
      BY <1>3
    <3>2. Sessions0[i][2] \in {Sessions0[x][2] : x \in {j \in DOMAIN Sessions0 : first(j) = first(i)}}
      BY <3>1
    <3>3. c \in m.conns[first(i)]
      BY <1>4, <3>1, <3>2
    <3>4. m.arr[i] = first(i) /\ i \in DOMAIN m.arr
      BY <1>4, <1>5, <3>1
    <3> QED
      BY <2>1, <3>3, <3>4 DEF Range
  <2> QED
    BY <1>7, <2>1 DEF Kept
<1> QED
  BY <1>1, <1>10, <1>11, RunTimerFits DEF T

LEMMA InvInit == ASSUME Init PROVE AllInv
<1>1. \A r \in Reqs : reqs[r] = New /\ reqs[r].st = "new"
  BY Shaped DEF Init
<1>2. Unsent = {} /\ Piping = {}
  BY <1>1 DEF Unsent, Piping
<1>3. issued \subseteq Tokens
  <2>1. Sessions0 \in Seq(Tokens \X SUBSET Conns)
    BY SessionsAssumption
  <2>2. \A s \in Range(Sessions0) : s[1] \in Tokens
    BY <2>1 DEF Range
  <2> QED
    BY <2>2 DEF Init
<1>4. RequestInv
  BY <1>1, <1>3, Shaped DEF Init, RequestInv, Asking, Making
<1>5. LoopInv
  BY DEF Init, LoopInv, Revoking
<1>6. ManagerInv
  <2>1. Given = {s[1] : s \in Range(Sessions0)}
    BY <1>2 DEF Given, Init
  <2> QED
    BY <2>1, BeforeSane DEF Init, ManagerInv
<1>7. RunnerInv /\ PipesInv
  BY <1>2, PipeRunnerAssumption, FS_EmptySet DEF Init, NewRunner, RunnerInv, NoIdleSlot, PipesInv
<1> QED
  BY <1>4, <1>5, <1>6, <1>7, SessionsAssumption DEF AllInv, SessionInv, Init

LEMMA InvStep == ASSUME AllInv, [Next]_sessionVars PROVE AllInv'
<1>1. SessionInv' /\ RunnerInv' /\ PipesInv'
  BY SessionStep, RunnerStep, PipesStep DEF AllInv
<1>2. open' \subseteq open
  BY DEF Next, sessionVars, Tick, Forget, Close, RequestStep, Verify, Authorize, Query, Logout,
         RefreshToken, Login, Mark, Renew, PipeNext, ExpireStart, ExpireNext, Checks, TimerFires,
         Immediate, Notified
<1>3. now' = now \/ (now < MaxTime /\ now' = now + 1)
  BY DEF Next, sessionVars, Tick, Forget, Close, RequestStep, Verify, Authorize, Query, Logout,
         RefreshToken, Login, Mark, Renew, PipeNext, ExpireStart, ExpireNext, Checks, TimerFires,
         Immediate, Notified
<1> QED
  BY <1>1, <1>2, <1>3, SessionsAssumption DEF AllInv

LEMMA InvAlways == Spec => []AllInv
<1>1. Init => AllInv
  BY InvInit
<1>2. AllInv /\ [Next]_sessionVars => AllInv'
  BY InvStep
<1> QED
  BY <1>1, <1>2, PTL DEF Spec

\* For any tokens, connections and requests, the array of managed tokens stays sorted
\* (lib/core/auth/tokenManager.ts), whatever is inserted and removed while methods await.
THEOREM TokensSorted == Spec => []Sorted
<1>1. AllInv => Sorted
  BY DEF AllInv, SessionInv, ManagerInv, Sane, Ordered, Dated, Sorted, Finite
<1> QED
  BY <1>1, InvAlways, PTL

\* For any expiration dates and any limit of the timeouts (TIMEOUT_MAX), the first
\* token of the array never expires unwatched.
THEOREM TimerAlwaysCovers == Spec => []TimerCovers
<1>1. AllInv => TimerCovers
  <2> SUFFICES ASSUME AllInv PROVE TimerCovers
    OBVIOUS
  <2>1. (Covered(tm, now) \/ chains # {} \/ checks > 0)
    BY DEF AllInv, SessionInv, ManagerInv
  <2> QED
    BY <2>1 DEF Covered, Dated, TimerCovers, Finite
<1> QED
  BY <1>1, InvAlways, PTL

\* For any number of connections and of requests, a connection that is linked to a
\* token that expires is notified when it does, but for the two cases of LinksKept.
THEOREM LinksAlwaysKept == Spec => []LinksKept
<1>1. AllInv => LinksKept
  <2> SUFFICES ASSUME AllInv, NEW c \in Conns, tm.linked[c] # None, Finite(tm.linked[c])
               PROVE  Watched(c) \/ Tok(tm.linked[c]) \in revoked \/ tm.linked[c] \in tm.astray
    BY DEF LinksKept
  <2>1. Kept(tm, c, Awaited(chains), revoked)
    BY DEF AllInv, SessionInv, ManagerInv
  <2>2. <<tm.linked[c], c>> \in Awaited(chains)
          => \E k \in chains : k.obj = tm.linked[c] /\ (c \notin k.done \/ c = k.cur)
    BY DEF Awaited
  <2> QED
    BY <2>1, <2>2 DEF Kept, Watched, Dated, Finite
<1> QED
  BY <1>1, InvAlways, PTL

\* Every variable of a node's sessions keeps its type; in particular the pipe runner
\* never counts fewer chains than run, and never buffers a request twice.
THEOREM SessionTypes == Spec => []TypeOK
<1>1. AllInv => TypeOK
  <2> SUFFICES ASSUME AllInv PROVE TypeOK
    OBVIOUS
  <2>1. pr \in RunnerType(Reqs)
    <3>1. Cardinality(Piping) \in Nat
      BY PipingFinite DEF Piping
    <3>2. pr.running \in Nat /\ pr \in [running : Int, buffer : Seq(Reqs), scheduled : Nat]
      BY <3>1 DEF AllInv, PipesInv, RunnerInv
    <3> QED
      BY <3>2 DEF RunnerType
  <2> QED
    BY <2>1 DEF AllInv, SessionInv, RequestInv, LoopInv, ManagerInv, Sane, TypeOK
<1> QED
  BY <1>1, InvAlways, PTL
=============================================================================
