---------------------------- MODULE TokenManager ----------------------------
(***************************************************************************)
(* The token manager of a node (lib/core/auth/tokenManager.ts): the tokens *)
(* that connections of the node are linked to, sorted by expiration date,  *)
(* and the timer of the first one.  Its synchronous methods are operators  *)
(* from a state of the manager to the next; the two methods that await     *)
(* (expire and checkTokensValidity) are split into actions in Sessions.    *)
(*                                                                         *)
(* A managed token is an object of its own, which a connection or a        *)
(* suspended method may still refer to when it has left the array: it is   *)
(* modelled by a handle <<token, copy>>.                                   *)
(***************************************************************************)
EXTENDS Integers, SequencesExt

CONSTANTS
  Conns,       \* connections of a notifiable protocol
  Tokens,      \* authentication tokens
  Exp,         \* Exp[t]: expiresAt, or Never
  TimeoutMax,  \* TIMEOUT_MAX
  Copies,      \* bound: objects made of one token
  None

\* expiresAt of a token that does not expire.
Never == -1

ASSUME TokenManagerAssumption ==
  /\ Exp \in [Tokens -> (Nat \ {0}) \cup {Never}]
  /\ \A s, t \in Tokens : s # t /\ Exp[s] = Exp[t] => Exp[s] = Never
  /\ {TimeoutMax, Copies} \subseteq Nat \ {0}
  /\ None \notin Nat \cup Tokens \cup (Tokens \X (1..Copies))

Handles == Tokens \X (1..Copies)

\* The token of a managed token object.
Tok(h) == h[1]

(***************************************************************************)
(* arr: tokens.array; conns: the connectionIds of each object; linked:     *)
(* tokensByConnection; timer: the date of the pending timeout, or None;    *)
(* astray (history): the objects removed from the array by a deleteByIndex *)
(* that was meant for another one.                                         *)
(***************************************************************************)
ManagerType ==
  [arr : Seq(Handles), conns : [Handles -> SUBSET Conns],
   linked : [Conns -> Handles \cup {None}], timer : Nat \cup {None},
   astray : SUBSET Handles]

NewManager ==
  [arr |-> <<>>, conns |-> [h \in Handles |-> {}],
   linked |-> [c \in Conns |-> None], timer |-> None, astray |-> {}]

-----------------------------------------------------------------------------
(* The sorted array.  Its comparator says of two tokens that never expire  *)
(* that each comes after the other.                                        *)

\* Mutant: an infinite token is not kept behind the others.
StaysBefore_NoInfinite(h, t) ==
  Exp[t] # Never /\ (Exp[Tok(h)] = Never \/ Exp[Tok(h)] <= Exp[t])

\* Does insert leave h before a new token t?
StaysBefore(h, t) ==
  Exp[t] = Never \/ (Exp[Tok(h)] # Never /\ Exp[Tok(h)] <= Exp[t])

\* insert: one pass that bubbles the new element up from the end.
Place(arr, t) ==
  CHOOSE p \in 1..(Len(arr) + 1) :
    \A i \in 1..Len(arr) : i < p <=> StaysBefore(arr[i], t)

\* The positions a binary search for an infinite token looks at in an array of n
\* elements whose first p are finite: to the right of a finite one, to the left
\* of any infinite one it does not look for.
Probed(n, p) ==
  LET path[lo \in 0..n, hi \in 0..n] ==
        IF hi <= lo THEN {}
        ELSE LET mid == (lo + hi) \div 2
             IN  {mid + 1} \cup IF mid < p THEN path[mid + 1, hi] ELSE path[lo, mid]
  IN  path[0, n]

FiniteCount(arr) == Cardinality({i \in 1..Len(arr) : Exp[Tok(arr[i])] # Never})

\* search: the position of token t, 0 (-1 in the code) when it finds none. A finite
\* token is compared consistently with all others: it is always found.
Search(arr, t) ==
  LET hits == {i \in 1..Len(arr) :
                 /\ Tok(arr[i]) = t
                 /\ Exp[t] = Never => i \in Probed(Len(arr), FiniteCount(arr))}
  IN  IF hits = {} THEN 0 ELSE CHOOSE i \in hits : \A j \in hits : j <= i

-----------------------------------------------------------------------------
\* The delay is at least one millisecond away, which "now" stands for: an expired
\* or an infinite first token makes the timer fire at once.
Deadline(t, now) ==
  IF Exp[t] = Never \/ Exp[t] <= now THEN now
  ELSE IF Exp[t] - now < TimeoutMax THEN Exp[t] ELSE now + TimeoutMax

RunTimer(m, now) ==
  IF m.arr = <<>> THEN m
  ELSE [m EXCEPT !.timer = Deadline(Tok(m.arr[1]), now)]

\* deleteByIndex, called to remove the object h.
DeleteAt(m, pos, h) ==
  IF pos \notin DOMAIN m.arr THEN m
  ELSE [m EXCEPT !.arr = RemoveAt(@, pos),
                 !.astray = IF m.arr[pos] = h THEN @ ELSE @ \cup {m.arr[pos]}]

\* Mutant: an emptied token is removed without looking for its position.
RemoveLinked_First(m, c, h) ==
  LET n == [m EXCEPT !.conns[h] = @ \ {c}]
  IN  IF n.conns[h] = {} THEN DeleteAt(n, 1, n.arr[1]) ELSE n

\* removeConnectionLinkedToToken.
RemoveLinked(m, c, h) ==
  LET n == [m EXCEPT !.conns[h] = @ \ {c}]
  IN  IF n.conns[h] = {} THEN DeleteAt(n, Search(n.arr, Tok(h)), h) ELSE n

\* A copy that nothing refers to: neither the manager nor a suspended method.
Unused(m, held) ==
  Handles \ (held \cup Range(m.arr) \cup {m.linked[c] : c \in Conns})

HasCopy(m, t, held) == \E h \in Unused(m, held) : Tok(h) = t

Fresh(m, t, held) == CHOOSE h \in Unused(m, held) : Tok(h) = t

\* Mutant: the timer is started for the first token of all only.
Add_TimerOnce(m, t, cs, held, now) ==
  LET h == Fresh(m, t, held)
      n == [m EXCEPT !.arr = InsertAt(@, Place(@, t), h),
                     !.conns[h] = cs,
                     !.linked = [c \in Conns |-> IF c \in cs THEN h ELSE @[c]],
                     !.astray = @ \ {h}]
  IN  IF Len(n.arr) = 1 THEN RunTimer(n, now) ELSE n

\* add: a new object for token t and the connections cs.
Add(m, t, cs, held, now) ==
  LET h == Fresh(m, t, held)
      n == [m EXCEPT !.arr = InsertAt(@, Place(@, t), h),
                     !.conns[h] = cs,
                     !.linked = [c \in Conns |-> IF c \in cs THEN h ELSE @[c]],
                     !.astray = @ \ {h}]
  IN  IF Tok(n.arr[1]) = t THEN RunTimer(n, now) ELSE n

\* link; t is None for the anonymous token.
Link(m, t, c, held, now) ==
  IF t = None \/ (m.linked[c] # None /\ Tok(m.linked[c]) = t) THEN m
  ELSE LET n   == IF m.linked[c] = None THEN m ELSE RemoveLinked(m, c, m.linked[c])
           pos == Search(n.arr, t)
       IN  IF pos = 0 THEN Add(n, t, {c}, held, now)
           ELSE [n EXCEPT !.conns[n.arr[pos]] = @ \cup {c},
                          !.linked[c] = n.arr[pos]]

\* unlink.
Unlink(m, t, c) ==
  LET pos == Search(m.arr, t)
  IN  IF t = None \/ pos = 0 THEN m
      ELSE LET n == RemoveLinked(m, c, m.arr[pos])
           IN  IF n.linked[c] # None /\ Tok(n.linked[c]) = t
               THEN [n EXCEPT !.linked[c] = None] ELSE n

\* removeConnection.
RemoveConnection(m, c) ==
  IF m.linked[c] = None THEN m ELSE Unlink(m, Tok(m.linked[c]), c)

\* refresh: the position of the old token is the one it had before the new token
\* was inserted.
Refresh(m, old, new, held, now) ==
  LET pos == Search(m.arr, old)
  IN  IF pos = 0 \/ old = new THEN m
      ELSE DeleteAt(Add(m, new, m.conns[m.arr[pos]], held, now), pos, m.arr[pos])

-----------------------------------------------------------------------------
\* The first token has expired: checkTokensValidity removes it.
HeadExpired(m, now) ==
  m.arr # <<>> /\ Exp[Tok(m.arr[1])] # Never /\ Exp[Tok(m.arr[1])] < now

\* What nothing refers to any more is forgotten, so that equal states are equal.
Collect(m, held) ==
  LET unused == Unused(m, held)
  IN  [m EXCEPT !.conns = [h \in Handles |-> IF h \in unused THEN {} ELSE @[h]],
                !.astray = @ \ unused]
=============================================================================
