----------------------------- MODULE PoolTables -----------------------------
(* Proofs about Pool, for any callers, connections and limits.  The tables  *)
(* of the pool stay apart and within the limits; a connection a caller      *)
(* holds, in its hands or in a message under way, is in no queue and        *)
(* checked out to nobody else; and the queue is left only when every        *)
(* connection is out or a connect failed.                                   *)
EXTENDS Pool, FiniteSetTheorems, WellFoundedInduction, TLAPS

-----------------------------------------------------------------------------
(* Sequences.                                                               *)

\* Induction, as a fact about sets of numbers.
LEMMA SetInduction ==
    ASSUME NEW T, T \subseteq Nat, 0 \in T, \A n \in T : n + 1 \in T
    PROVE  \A n \in Nat : n \in T
<1> SUFFICES ASSUME Nat \ T # {} PROVE FALSE
  BY Zenon
<1> DEFINE U == Nat \ T
<1>1. PICK m \in U : \A k \in U : <<k, m>> \notin OpToRel(<, Nat)
  BY WFMin, NatLessThanWellFounded, Zenon
<1>2. \A k \in U : ~(k < m)
  BY <1>1, Zenon DEF OpToRel
<1> QED
  BY <1>2

\* f[i] is what is left of the first i elements of s without x, for i up to n.
Filters(f, s, x, n) ==
    f = [i \in 0..n |->
            IF i = 0 THEN <<>>
            ELSE IF s[i] = x THEN f[i - 1] ELSE Append(f[i - 1], s[i])]

LEMMA FilterExists ==
    ASSUME NEW S, NEW s \in Seq(S), NEW x
    PROVE  \E f : Filters(f, s, x, Len(s))
<1> DEFINE T == {n \in Nat : \E f : Filters(f, s, x, n)}
<1>1. 0 \in T
  <2> DEFINE f == [i \in 0..0 |-> <<>>]
  <2>1. Filters(f, s, x, 0)
    BY DEF Filters
  <2> QED
    BY <2>1, Zenon
<1>2. ASSUME NEW n \in T PROVE n + 1 \in T
  <2>1. PICK f : Filters(f, s, x, n)
    BY Zenon
  <2> DEFINE g == [i \in 0..(n + 1) |->
                    IF i <= n THEN f[i]
                    ELSE IF s[n + 1] = x THEN f[n] ELSE Append(f[n], s[n + 1])]
  <2>2. n \in Nat
    BY Zenon
  <2>3. \A i \in 0..n : f[i] = IF i = 0 THEN <<>>
            ELSE IF s[i] = x THEN f[i - 1] ELSE Append(f[i - 1], s[i])
    BY <2>1, Zenon DEF Filters
  <2>4. \A i \in 0..(n + 1) : g[i] = IF i = 0 THEN <<>>
            ELSE IF s[i] = x THEN g[i - 1] ELSE Append(g[i - 1], s[i])
    BY <2>2, <2>3
  <2>5. g = [i \in 0..(n + 1) |-> g[i]]
    BY Zenon
  <2> HIDE DEF g
  <2>6. Filters(g, s, x, n + 1)
    BY <2>4, <2>5, Zenon DEF Filters
  <2> QED
    BY <2>6
<1>3. Len(s) \in T
  <2> HIDE DEF T
  <2>1. T \subseteq Nat
    BY Zenon DEF T
  <2>2. \A n \in T : n + 1 \in T
    BY <1>2, Zenon
  <2>3. \A n \in Nat : n \in T
    BY <1>1, <2>1, <2>2, SetInduction, Zenon
  <2> QED
    BY <2>3
<1> QED
  BY <1>3, Zenon

\* Without removes x, keeps the rest and, with it, that nothing is in the queue twice.
LEMMA WithoutFacts ==
    ASSUME NEW S, NEW s \in Seq(S), NEW x
    PROVE  /\ Without(s, x) \in Seq(S) /\ Len(Without(s, x)) <= Len(s)
           /\ Range(Without(s, x)) = Range(s) \ {x}
           /\ IsInjective(s) => IsInjective(Without(s, x))
<1> DEFINE g == CHOOSE f : Filters(f, s, x, Len(s))
<1>1. Filters(g, s, x, Len(s))
  BY FilterExists, Zenon
<1>2. Without(s, x) = g[Len(s)]
  BY Zenon DEF Without, Filters
<1> HIDE DEF g
<1>3. Len(s) \in Nat /\ DOMAIN s = 1..Len(s) /\ \A i \in 1..Len(s) : s[i] \in S
  OBVIOUS
<1>4. \A i \in 0..Len(s) :
        g[i] = IF i = 0 THEN <<>> ELSE IF s[i] = x THEN g[i - 1] ELSE Append(g[i - 1], s[i])
  BY <1>1, Zenon DEF Filters
<1> DEFINE Sound(n) == \A i \in 1..Len(g[n]) : \E j \in 1..n : s[j] # x /\ g[n][i] = s[j]
           Full(n) == \A j \in 1..n : s[j] # x => \E i \in 1..Len(g[n]) : g[n][i] = s[j]
           Apart(n) == \A i, j \in 1..Len(g[n]) : g[n][i] = g[n][j] => i = j
           Fine(n) == /\ g[n] \in Seq(S) /\ Len(g[n]) <= n
                      /\ Sound(n) /\ Full(n) /\ (IsInjective(s) => Apart(n))
           T == {n \in Nat : n <= Len(s) => Fine(n)}
<1>5. Fine(0)
  <2>1. g[0] = <<>>
    BY <1>3, <1>4
  <2> QED
    BY <2>1
<1>6. ASSUME NEW n \in Nat, n + 1 <= Len(s), Fine(n) PROVE Fine(n + 1)
  <2>1. /\ n + 1 \in 1..Len(s)
        /\ g[n + 1] = IF s[n + 1] = x THEN g[n] ELSE Append(g[n], s[n + 1])
    BY <1>3, <1>4, <1>6
  <2>2. CASE s[n + 1] = x
    <3>1. g[n + 1] = g[n]
      BY <2>1, <2>2, Zenon
    <3> QED
      BY <1>6, <2>2, <3>1
  <2>3. CASE s[n + 1] # x
    <3>1. s[n + 1] \in S /\ g[n] \in Seq(S) /\ g[n + 1] = Append(g[n], s[n + 1])
      BY <1>3, <1>6, <2>1, <2>3, Zenon
    <3>2. /\ g[n + 1] \in Seq(S) /\ Len(g[n + 1]) = Len(g[n]) + 1 /\ Len(g[n]) \in Nat
          /\ \A i \in 1..Len(g[n]) : g[n + 1][i] = g[n][i]
          /\ g[n + 1][Len(g[n]) + 1] = s[n + 1]
      BY <3>1
    <3> HIDE DEF g
    <3>3. Sound(n + 1)
      <4> SUFFICES ASSUME NEW i \in 1..(Len(g[n]) + 1)
                   PROVE  \E j \in 1..(n + 1) : s[j] # x /\ g[n + 1][i] = s[j]
        BY <3>2, Zenon
      <4>1. CASE i = Len(g[n]) + 1
        BY <2>3, <3>2, <4>1
      <4>2. CASE i \in 1..Len(g[n])
        <5>1. PICK j \in 1..n : s[j] # x /\ g[n][i] = s[j]
          BY <1>6, <4>2, Zenon
        <5> QED
          BY <3>2, <4>2, <5>1
      <4> QED
        BY <3>2, <4>1, <4>2
    <3>4. Full(n + 1)
      <4> SUFFICES ASSUME NEW j \in 1..(n + 1), s[j] # x
                   PROVE  \E i \in 1..(Len(g[n]) + 1) : g[n + 1][i] = s[j]
        BY <3>2, Zenon
      <4>1. CASE j = n + 1
        BY <3>2, <4>1
      <4>2. CASE j \in 1..n
        <5>1. PICK i \in 1..Len(g[n]) : g[n][i] = s[j]
          BY <1>6, <4>2, Zenon
        <5> QED
          BY <3>2, <5>1
      <4> QED
        BY <4>1, <4>2
    <3>5. ASSUME IsInjective(s) PROVE Apart(n + 1)
      <4>1. \A i \in 1..Len(g[n]) : g[n][i] # s[n + 1]
        <5> SUFFICES ASSUME NEW i \in 1..Len(g[n]), g[n][i] = s[n + 1] PROVE FALSE
          BY Zenon
        <5>1. PICK j \in 1..n : g[n][i] = s[j]
          BY <1>6, Zenon
        <5>2. j \in DOMAIN s /\ n + 1 \in DOMAIN s /\ j # n + 1
          BY <1>3, <2>1
        <5> QED
          BY <3>5, <5>1, <5>2, Zenon DEF IsInjective
      <4>2. Apart(n)
        BY <1>6, <3>5, Zenon
      <4>3. PICK m \in Nat : m = Len(g[n])
        BY <3>2
      <4>4. /\ \A k \in 1..m : g[n + 1][k] = g[n][k] /\ g[n][k] # s[n + 1]
            /\ g[n + 1][m + 1] = s[n + 1] /\ Len(g[n + 1]) = m + 1
        BY <3>2, <4>1, <4>3
      <4>5. \A k \in 1..m : g[n + 1][k] # g[n + 1][m + 1]
        BY <4>4, Zenon
      <4>6. \A k \in 1..(m + 1) : k = m + 1 \/ k \in 1..m
        BY <4>3
      <4>7. \A i, j \in 1..m : g[n + 1][i] = g[n + 1][j] => i = j
        BY <4>2, <4>3, <4>4
      <4>8. \A i, j \in 1..(m + 1) : g[n + 1][i] = g[n + 1][j] => i = j
        BY <4>5, <4>6, <4>7, Zenon
      <4> QED
        BY <4>4, <4>8
    <3> QED
      BY <1>6, <3>2, <3>3, <3>4, <3>5
  <2> QED
    BY <2>2, <2>3, Zenon
<1>7. Fine(Len(s))
  <2> HIDE DEF Fine
  <2>1. T \subseteq Nat /\ 0 \in T
    BY <1>5, Zenon
  <2>2. ASSUME NEW n \in T PROVE n + 1 \in T
    BY <1>3, <1>6
  <2>3. \A n \in Nat : n \in T
    <3> HIDE DEF T
    <3> QED
      BY <2>1, <2>2, SetInduction, Zenon
  <2> QED
    BY <1>3, <2>3
<1> DEFINE w == Without(s, x)
<1>8. w \in Seq(S) /\ DOMAIN w = 1..Len(w) /\ Len(w) <= Len(s)
  BY <1>2, <1>7
<1>9. Range(w) = Range(s) \ {x}
  <2>1. ASSUME NEW y \in Range(w) PROVE y \in Range(s) \ {x}
    <3>1. PICK i \in 1..Len(w) : y = w[i]
      BY <1>8, Zenon DEF Range
    <3>2. PICK j \in 1..Len(s) : s[j] # x /\ w[i] = s[j]
      BY <1>2, <1>7
    <3> QED
      BY <1>3, <3>1, <3>2, Zenon DEF Range
  <2>2. ASSUME NEW y \in Range(s) \ {x} PROVE y \in Range(w)
    <3>1. PICK j \in 1..Len(s) : y = s[j] /\ s[j] # x
      BY <1>3, Zenon DEF Range
    <3>2. PICK i \in 1..Len(w) : w[i] = s[j]
      BY <1>2, <1>7, <3>1, Zenon
    <3> QED
      BY <1>8, <3>1, <3>2, Zenon DEF Range
  <2> QED
    BY <2>1, <2>2, Zenon
<1>10. IsInjective(s) => IsInjective(w)
  BY <1>2, <1>7, <1>8 DEF IsInjective
<1> QED
  BY <1>8, <1>9, <1>10, Zenon

\* The head leaves a queue.
LEMMA TailFacts ==
    ASSUME NEW S, NEW s \in Seq(S), s # <<>>
    PROVE  /\ Head(s) \in S /\ Tail(s) \in Seq(S) /\ Len(Tail(s)) = Len(s) - 1 /\ Len(s) > 0
           /\ Range(s) = {Head(s)} \cup Range(Tail(s))
           /\ IsInjective(s) => IsInjective(Tail(s)) /\ Head(s) \notin Range(Tail(s))
<1>1. /\ Head(s) \in S /\ Tail(s) \in Seq(S) /\ Len(Tail(s)) = Len(s) - 1 /\ Len(s) > 0
      /\ Len(s) \in Nat /\ DOMAIN s = 1..Len(s) /\ DOMAIN Tail(s) = 1..(Len(s) - 1)
      /\ Head(s) = s[1] /\ \A i \in 1..(Len(s) - 1) : Tail(s)[i] = s[i + 1]
  OBVIOUS
<1>2. Range(s) = {Head(s)} \cup Range(Tail(s))
  <2>1. \A i \in 1..Len(s) : i = 1 \/ (i - 1 \in 1..(Len(s) - 1) /\ Tail(s)[i - 1] = s[i])
    BY <1>1
  <2>2. ASSUME NEW y \in Range(s) PROVE y \in {Head(s)} \cup Range(Tail(s))
    <3>1. PICK i \in 1..Len(s) : y = s[i]
      BY <1>1, Zenon DEF Range
    <3>2. CASE i = 1
      BY <1>1, <3>1, <3>2, Zenon
    <3>3. CASE i # 1
      BY <1>1, <2>1, <3>1, <3>3, Zenon DEF Range
    <3> QED
      BY <3>2, <3>3, Zenon
  <2>3. Range(Tail(s)) \subseteq Range(s)
    <3>1. \A i \in 1..(Len(s) - 1) : i + 1 \in 1..Len(s)
      BY <1>1
    <3> QED
      BY <1>1, <3>1 DEF Range
  <2>4. Head(s) \in Range(s)
    BY <1>1 DEF Range
  <2> QED
    BY <2>2, <2>3, <2>4, Zenon
<1>3. ASSUME IsInjective(s) PROVE IsInjective(Tail(s)) /\ Head(s) \notin Range(Tail(s))
  <2>1. \A i, j \in 1..Len(s) : s[i] = s[j] => i = j
    BY <1>1, <1>3, Zenon DEF IsInjective
  <2> QED
    BY <1>1, <2>1 DEF IsInjective, Range
<1> QED
  BY <1>1, <1>2, <1>3, Zenon

\* An element joins a queue.
LEMMA AppendFacts ==
    ASSUME NEW S, NEW s \in Seq(S), NEW e \in S
    PROVE  /\ Append(s, e) \in Seq(S) /\ Len(Append(s, e)) = Len(s) + 1 /\ Append(s, e) # <<>>
           /\ Range(Append(s, e)) = Range(s) \cup {e}
           /\ IsInjective(s) /\ e \notin Range(s) => IsInjective(Append(s, e))
<1>1. /\ Append(s, e) \in Seq(S) /\ Len(Append(s, e)) = Len(s) + 1 /\ Append(s, e) # <<>>
      /\ Len(s) \in Nat /\ DOMAIN s = 1..Len(s) /\ DOMAIN Append(s, e) = 1..(Len(s) + 1)
      /\ \A i \in 1..Len(s) : Append(s, e)[i] = s[i]
      /\ Append(s, e)[Len(s) + 1] = e
  OBVIOUS
<1>2. Range(Append(s, e)) = Range(s) \cup {e}
  BY <1>1 DEF Range
<1>3. ASSUME IsInjective(s), e \notin Range(s) PROVE IsInjective(Append(s, e))
  <2>1. \A i \in 1..Len(s) : s[i] # e
    BY <1>1, <1>3, Zenon DEF Range
  <2>2. \A i, j \in 1..Len(s) : s[i] = s[j] => i = j
    BY <1>1, <1>3, Zenon DEF IsInjective
  <2> QED
    BY <1>1, <2>1, <2>2 DEF IsInjective
<1> QED
  BY <1>1, <1>2, <1>3, Zenon

\* The empty queue.
LEMMA EmptyFacts ==
    /\ Range(<<>>) = {} /\ IsInjective(<<>>) /\ Len(<<>>) = 0
    /\ \A S : <<>> \in Seq(S)
    /\ \A S : \A s \in Seq(S) : Len(s) \in Nat /\ Range(s) \subseteq S /\ (Len(s) = 0 <=> s = <<>>)
BY DEF Range, IsInjective

-----------------------------------------------------------------------------
(* The inductive invariant.                                                 *)

\* serve_waiters/1 runs only for somebody, and connections are taken only by it.
Round == (serving => waiters # <<>>) /\ (~serving => taken = <<>>)

\* What a round has closed so far is in no table: :none puts it back where it was.
TakenApart == IsInjective(taken) /\ Range(taken) \cap monitors = {}

\* The limits hold with what a round has taken counted in.
Room ==
    /\ Len(idle) + Len(taken) + Cardinality(CheckedOut) <= Capacity
    /\ Len(idle) + Len(taken) <= PoolSize
    /\ NullPool => idle = <<>> /\ taken = <<>>

TableInv == Tracked /\ TakenApart /\ Room

\* A message about connection c; at most one; only those that return a connection name one.
Mentions(m, c) == \E i \in DOMAIN m : m[i].conn = c
Once(m, c) == \A i, j \in DOMAIN m : m[i].conn = c /\ m[j].conn = c => i = j
KindsOK(m) == \A i \in DOMAIN m : m[i].conn \in Conns <=> m[i].kind \in {"checkin", "discard"}

Using == {"ping", "exec", "settle"}
Uses(p, c) == caller[p].pc \in Using /\ caller[p].conn = c
Holds(p, c) == Uses(p, c) \/ Mentions(mail[p], c)

\* A caller has a connection exactly in the states of run/6, and once it settles, the message
\* that returns the connection is under way.
CallerOK(p) ==
    /\ caller[p].pc \in {"idle", "asking", "dead"} => caller[p].conn = NoOne
    /\ caller[p].pc \in Using \cup {"settling"} => caller[p].conn \in Conns
    /\ caller[p].pc = "settling" => Mentions(mail[p], caller[p].conn)
    /\ KindsOK(mail[p])

\* A connection a caller holds is in no queue and checked out to nobody else; it is returned once.
HeldOK(p, c) ==
    /\ Holds(p, c) => c \notin Range(idle) \cup Range(taken) /\ out[c] \in {p, NoOne}
    /\ Uses(p, c) => ~Mentions(mail[p], c)
    /\ Once(mail[p], c)

\* CheckedOutIsUsed, of one connection.
UsedOK(c) ==
    out[c] # NoOne /\ c \notin unheard =>
        caller[out[c]].conn = c \/ caller[out[c]].pc = "dead" \/ Mentions(mail[out[c]], c)

HoldInv ==
    /\ \A p \in Callers : CallerOK(p)
    /\ \A p \in Callers, c \in Conns : HeldOK(p, c)
    /\ \A c \in Conns : UsedOK(c)

PoolInv == TypeOK /\ Round /\ TableInv /\ ServedWhenPossible /\ HoldInv

-----------------------------------------------------------------------------
(* Types.                                                                   *)

\* The limits are numbers, and nobody is a caller or a connection.
LEMMA Limits ==
    /\ PoolSize \in Nat /\ Capacity \in Nat /\ Capacity >= PoolSize
    /\ IsFiniteSet(Conns) /\ NoOne \notin Callers /\ NoOne \notin Conns
BY PoolConstants DEF Capacity

\* The records callers are set to.
LEMMA RecordTypes ==
    /\ IdleCaller \in Caller /\ [IdleCaller EXCEPT !.pc = "dead"] \in Caller
    /\ [pc |-> "asking", conn |-> NoOne, left |-> 1, again |-> FALSE] \in Caller
    /\ [pc |-> "asking", conn |-> NoOne, left |-> 0, again |-> FALSE] \in Caller
    /\ Checkout \in Messages /\ Abandoned \in Messages
<1>1. \A r \in Caller : [r EXCEPT !.pc = "dead"] \in Caller
  BY Zenon DEF Caller
<1>2. \A pc \in {"idle", "asking", "dead"}, n \in 0..1 :
        [pc |-> pc, conn |-> NoOne, left |-> n, again |-> FALSE] \in Caller
  BY Zenon DEF Caller
<1>3. Checkout \in Messages /\ Abandoned \in Messages
  BY Zenon DEF Messages, Checkout, Abandoned
<1>4. IdleCaller \in Caller
  BY <1>2 DEF IdleCaller
<1> QED
  BY <1>1, <1>2, <1>3, <1>4

\* A caller that receives a connection.
LEMMA ReceivesType ==
    ASSUME TypeOK, NEW p \in Callers, NEW c \in Conns, NEW fresh \in BOOLEAN
    PROVE  Receives(p, c, fresh) \in [Callers -> Caller]
<1>1. caller[p] \in Caller
  BY Zenon DEF TypeOK
<1>2. [[caller[p] EXCEPT !.pc = IF fresh THEN "exec" ELSE "ping"] EXCEPT !.conn = c] \in Caller
  BY <1>1, Zenon DEF Caller
<1>3. Receives(p, c, fresh) =
        [caller EXCEPT ![p] = [[caller[p] EXCEPT !.pc = IF fresh THEN "exec" ELSE "ping"] EXCEPT !.conn = c]]
  BY Zenon DEF TypeOK, Receives
<1> QED
  BY <1>2, <1>3, Zenon DEF TypeOK

\* Hand keeps the types of what it sets.
LEMMA HandType ==
    ASSUME TypeOK, NEW c \in Conns, NEW p \in Callers, NEW gone \in SUBSET Conns,
           NEW heard \in BOOLEAN, Hand(c, p, gone, heard)
    PROVE  /\ out' \in [Conns -> Callers \cup {NoOne}]
           /\ monitors' \subseteq Conns /\ watched' \subseteq monitors' /\ unheard' \subseteq Conns
BY Zenon DEF TypeOK, Hand

\* grant_or_queue/2, by what it does: a parked connection, a new one, an error, a place in the
\* queue.  rest and gone are what is left of the idle queue and what left it.
Shrunk(rest, gone) ==
    \/ rest = idle /\ gone = {} /\ (NullPool \/ idle = <<>>)
    \/ ~NullPool /\ idle # <<>> /\ rest = Tail(idle) /\ gone = {Head(idle)}
GrantParked(p) ==
    /\ idle # <<>> /\ Head(idle) \notin old
    /\ idle' = Tail(idle) /\ Hand(Head(idle), p, {}, Current(p))
    /\ caller' = IF Current(p) THEN Receives(p, Head(idle), FALSE) ELSE caller
    /\ UNCHANGED <<waiters, closed, alive, old>>
GrantNew(p, c, rest, gone) ==
    /\ Len(rest) + Cardinality(CheckedOut) < Capacity /\ idle' = rest
    /\ alive' = alive \cup {c} /\ old' = old \ {c} /\ closed' = (closed \cup gone) \ {c}
    /\ Hand(c, p, gone, Current(p))
    /\ caller' = IF Current(p) THEN Receives(p, c, TRUE) ELSE caller
    /\ UNCHANGED waiters
Dropped(rest, gone) ==
    /\ idle' = rest /\ closed' = closed \cup gone
    /\ monitors' = monitors \ gone /\ watched' = watched \ gone
    /\ UNCHANGED <<out, old, unheard, alive>>
GrantError(p, rest, gone) == Dropped(rest, gone) /\ CheckoutError(p) /\ UNCHANGED waiters
Queued(p, rest, gone) ==
    /\ Len(rest) + Cardinality(CheckedOut) >= Capacity
    /\ Dropped(rest, gone) /\ waiters' = Append(waiters, p) /\ UNCHANGED caller

LEMMA CheckoutCases ==
    ASSUME NEW p \in Callers, HandleCheckout(p)
    PROVE  /\ Due(p, "checkout") /\ Consume(p)
           /\ UNCHANGED <<draining, deadline, serving, taken, stalled>>
           /\ \/ CheckoutError(p) /\ UNCHANGED <<tables, waiters>>
              \/ GrantParked(p)
              \/ \E rest, gone : Shrunk(rest, gone) /\ \E c \in Free : GrantNew(p, c, rest, gone)
              \/ \E rest, gone : Shrunk(rest, gone) /\ GrantError(p, rest, gone)
              \/ \E rest, gone : Shrunk(rest, gone) /\ Queued(p, rest, gone)
<1>1. ASSUME NEW rest, NEW gone, Shrunk(rest, gone), OpenAndGrant(p, rest, gone)
      PROVE  \/ \E c \in Free : GrantNew(p, c, rest, gone)
             \/ GrantError(p, rest, gone)
             \/ Queued(p, rest, gone)
  BY <1>1, Zenon DEF OpenAndGrant, GrantNew, GrantError, Queued, Dropped, Close
<1>2. CASE draining /\ CheckoutError(p) /\ UNCHANGED <<tables, waiters>>
  BY <1>2, Zenon DEF HandleCheckout
<1>3. CASE ~draining /\ GrantOrQueue(p)
  <2>1. CASE ~NullPool /\ idle # <<>> /\ Head(idle) \in old /\ OpenAndGrant(p, Tail(idle), {Head(idle)})
    <3>1. Shrunk(Tail(idle), {Head(idle)})
      BY <2>1, Zenon DEF Shrunk
    <3> QED
      BY <1>1, <2>1, <3>1, Zenon DEF HandleCheckout
  <2>2. CASE (NullPool \/ idle = <<>>) /\ OpenAndGrant(p, idle, {})
    <3>1. Shrunk(idle, {})
      BY <2>2, Zenon DEF Shrunk
    <3> QED
      BY <1>1, <2>2, <3>1, Zenon DEF HandleCheckout
  <2>3. CASE GrantParked(p)
    BY <2>3, Zenon DEF HandleCheckout
  <2> QED
    BY <1>3, <2>1, <2>2, <2>3, Zenon DEF GrantOrQueue, GrantParked
<1> QED
  BY <1>2, <1>3, Zenon DEF HandleCheckout

\* The types of a checkout's effects.
LEMMA CheckoutType ==
    ASSUME TypeOK, NEW p \in Callers, HandleCheckout(p)
    PROVE  TypeOK'
<1>1. Consume(p) /\ UNCHANGED <<draining, deadline, serving, taken, stalled>> /\ mail[p] # <<>>
  BY CheckoutCases, Zenon DEF Due
<1>2. mail' \in [Callers -> Seq(Messages)]
  BY <1>1 DEF TypeOK, Consume
<1>3. Current(p) \in BOOLEAN
  BY Zenon DEF Current
<1>4. CheckoutError(p) => caller' \in [Callers -> Caller]
  BY RecordTypes, Zenon DEF CheckoutError, TypeOK
<1>5. ASSUME NEW rest, NEW gone, Shrunk(rest, gone)
      PROVE  rest \in Seq(Conns) /\ gone \in SUBSET Conns
  <2>1. idle \in Seq(Conns)
    BY Zenon DEF TypeOK
  <2>2. idle # <<>> => Tail(idle) \in Seq(Conns) /\ Head(idle) \in Conns
    BY <2>1
  <2> QED
    BY <1>5, <2>1, <2>2, Zenon DEF Shrunk
<1>6. CASE CheckoutError(p) /\ UNCHANGED <<tables, waiters>>
  BY <1>1, <1>2, <1>4, <1>6, Zenon DEF TypeOK, tables
<1>7. CASE GrantParked(p)
  <2>1. Head(idle) \in Conns /\ idle' \in Seq(Conns)
    BY <1>7, TailFacts, Zenon DEF TypeOK, GrantParked
  <2>2. /\ out' \in [Conns -> Callers \cup {NoOne}]
        /\ monitors' \subseteq Conns /\ watched' \subseteq monitors' /\ unheard' \subseteq Conns
    BY <1>3, <1>7, <2>1, HandType, Zenon DEF GrantParked
  <2>3. caller' \in [Callers -> Caller]
    BY <1>7, <2>1, ReceivesType, Zenon DEF GrantParked, TypeOK
  <2> QED
    BY <1>1, <1>2, <1>7, <2>1, <2>2, <2>3, Zenon DEF TypeOK, GrantParked
<1>8. ASSUME NEW rest, NEW gone, Shrunk(rest, gone), NEW c \in Free, GrantNew(p, c, rest, gone)
      PROVE  TypeOK'
  <2>1. c \in Conns /\ rest \in Seq(Conns) /\ gone \in SUBSET Conns
    BY <1>5, <1>8, Zenon DEF Free
  <2>2. /\ out' \in [Conns -> Callers \cup {NoOne}]
        /\ monitors' \subseteq Conns /\ watched' \subseteq monitors' /\ unheard' \subseteq Conns
    BY <1>3, <1>8, <2>1, HandType, Zenon DEF GrantNew
  <2>3. caller' \in [Callers -> Caller]
    BY <1>8, <2>1, ReceivesType, Zenon DEF GrantNew, TypeOK
  <2> QED
    BY <1>1, <1>2, <1>8, <2>1, <2>2, <2>3, Zenon DEF TypeOK, GrantNew
<1>9. ASSUME NEW rest, NEW gone, Shrunk(rest, gone), Dropped(rest, gone)
      PROVE  /\ idle' \in Seq(Conns) /\ monitors' \subseteq Conns /\ watched' \subseteq monitors'
             /\ closed' \subseteq Conns /\ UNCHANGED <<out, old, unheard, alive>>
  BY <1>5, <1>9, Zenon DEF Dropped, TypeOK
<1>10. ASSUME NEW rest, NEW gone, Shrunk(rest, gone), GrantError(p, rest, gone)
       PROVE  TypeOK'
  BY <1>1, <1>2, <1>4, <1>9, <1>10, Zenon DEF GrantError, TypeOK
<1>11. ASSUME NEW rest, NEW gone, Shrunk(rest, gone), Queued(p, rest, gone)
       PROVE  TypeOK'
  BY <1>1, <1>2, <1>9, <1>11 DEF Queued, TypeOK
<1> QED
  BY <1>6, <1>7, <1>8, <1>10, <1>11, CheckoutCases, Zenon

\* The reply to a check-in or discard leaves well-typed callers and mail.
LEMMA SettledType ==
    ASSUME TypeOK, NEW p \in Callers, mail[p] # <<>>, Settled(p)
    PROVE  caller' \in [Callers -> Caller] /\ mail' \in [Callers -> Seq(Messages)]
<1>1. Tail(mail[p]) \in Seq(Messages) /\ Append(Tail(mail[p]), Checkout) \in Seq(Messages)
  BY RecordTypes DEF TypeOK
<1> QED
  BY <1>1, RecordTypes, Zenon DEF Settled, Consume, TypeOK

LEMMA ReturnType ==
    ASSUME TypeOK, NEW p \in Callers, KindsOK(mail[p]), HandleCheckin(p) \/ HandleDiscard(p)
    PROVE  TypeOK'
<1> DEFINE c == Head(mail[p]).conn
<1>1. mail[p] # <<>> /\ Settled(p) /\ Head(mail[p]).kind \in {"checkin", "discard"}
  BY Zenon DEF HandleCheckin, HandleDiscard, Due
<1>2. caller' \in [Callers -> Caller] /\ mail' \in [Callers -> Seq(Messages)]
  BY <1>1, SettledType, Zenon
<1>3. c \in Conns
  BY <1>1 DEF TypeOK, KindsOK
<1> HIDE DEF c
<1>4. [out EXCEPT ![c] = NoOne] \in [Conns -> Callers \cup {NoOne}]
  BY <1>3, Zenon DEF TypeOK
<1>5. Append(idle, c) \in Seq(Conns)
  BY <1>3 DEF TypeOK
<1>6. CASE HandleCheckin(p)
  <2>1. UNCHANGED <<waiters, draining, deadline, taken, stalled>>
    BY <1>6, Zenon DEF HandleCheckin
  <2>2. CASE UNCHANGED <<tables, serving>>
    BY <1>2, <2>1, <2>2, Zenon DEF TypeOK, tables
  <2>3. CASE ~UNCHANGED <<tables, serving>>
    <3>1. /\ out' = [out EXCEPT ![c] = NoOne] /\ serving' = (waiters # <<>>)
          /\ unheard' = unheard \ {c} /\ UNCHANGED <<old, alive>>
          /\ \/ closed' = closed \cup {c} /\ monitors' = monitors \ {c}
                /\ watched' = watched \ {c} /\ UNCHANGED idle
             \/ idle' = Append(idle, c) /\ UNCHANGED <<monitors, watched, closed>>
      BY <1>6, <2>3, Zenon DEF HandleCheckin, Close, c
    <3> QED
      BY <1>2, <1>3, <1>4, <1>5, <2>1, <3>1, Zenon DEF TypeOK
  <2> QED
    BY <2>2, <2>3, Zenon
<1>7. CASE HandleDiscard(p)
  BY <1>2, <1>3, <1>4, <1>7, Zenon DEF HandleDiscard, Reclaim, Close, TypeOK, tables, c
<1> QED
  BY <1>6, <1>7, Zenon

\* A round has a waiter to serve.
LEMMA RoundHasWaiter ==
    ASSUME TypeOK, Round, Rounds
    PROVE  serving /\ waiters # <<>> /\ Head(waiters) \in Callers /\ Tail(waiters) \in Seq(Callers)
<1>1. serving /\ waiters # <<>>
  BY Zenon
     DEF Rounds, ServeDead, ServeParked, ServeExpired, ServeOpened, ServeNone, InRound, Round, TypeOK
<1> QED
  BY <1>1 DEF TypeOK

\* The types of what a round of serve_waiters/1 does.
LEMMA RoundType ==
    ASSUME TypeOK, Round, Rounds
    PROVE  TypeOK'
<1>1. Head(waiters) \in Callers /\ Tail(waiters) \in Seq(Callers)
  BY RoundHasWaiter, Zenon
<1>2. <<>> \in Seq(Conns)
  OBVIOUS
<1>3. idle # <<>> => Head(idle) \in Conns /\ Tail(idle) \in Seq(Conns)
  BY DEF TypeOK
<1>4. ASSUME NEW c \in Conns, NEW fresh \in BOOLEAN, Serve(c, fresh)
      PROVE  /\ out' \in [Conns -> Callers \cup {NoOne}] /\ caller' \in [Callers -> Caller]
             /\ monitors' \subseteq Conns /\ watched' \subseteq monitors' /\ unheard' \subseteq Conns
             /\ waiters' \in Seq(Callers) /\ serving' \in BOOLEAN /\ taken' \in Seq(Conns)
             /\ stalled' \in BOOLEAN /\ UNCHANGED <<draining, deadline, mail>>
  <2>1. Listening(Head(waiters)) \in BOOLEAN
    BY Zenon DEF Listening
  <2>2. Hand(c, Head(waiters), {}, Listening(Head(waiters)))
    BY <1>4, Zenon DEF Serve
  <2>3. /\ out' \in [Conns -> Callers \cup {NoOne}]
        /\ monitors' \subseteq Conns /\ watched' \subseteq monitors' /\ unheard' \subseteq Conns
    BY <1>1, <1>2, <2>1, <2>2, HandType, Zenon
  <2>4. caller' \in [Callers -> Caller]
    BY <1>1, <1>2, <1>4, ReceivesType, Zenon DEF Serve, TypeOK
  <2> QED
    BY <1>1, <1>2, <1>4, <2>3, <2>4, Zenon DEF Serve
<1>5. CASE ServeDead
  BY <1>1, <1>2, <1>5, Zenon DEF ServeDead, TypeOK, tables
<1>6. CASE ServeParked
  BY <1>3, <1>4, <1>6, Zenon DEF ServeParked, TypeOK
<1>7. CASE ServeExpired
  <2>1. Head(idle) \in Conns /\ Tail(idle) \in Seq(Conns) /\ Append(taken, Head(idle)) \in Seq(Conns)
    BY <1>3, <1>7 DEF ServeExpired, TypeOK
  <2> QED
    BY <1>7, <2>1, Zenon DEF ServeExpired, Close, TypeOK
<1>8. CASE ServeOpened
  <2>1. PICK c \in Free : Open(c) /\ Serve(c, TRUE)
    BY <1>8, Zenon DEF ServeOpened
  <2>2. c \in Conns
    BY Zenon DEF Free
  <2> QED
    BY <1>4, <1>8, <2>1, <2>2, Zenon DEF ServeOpened, Open, TypeOK
<1>9. CASE ServeNone
  <2>1. Range(taken) \subseteq Conns
    BY EmptyFacts, Zenon DEF TypeOK
  <2>2. stalled' \in BOOLEAN
    <3>1. total \in Int /\ Capacity \in Int
      BY Limits, FS_CardinalityType, FS_Subset, EmptyFacts DEF total, CheckedOut, TypeOK
    <3>2. stalled' = (total < Capacity)
      BY <1>9, Zenon DEF ServeNone
    <3> QED
      BY <3>1, <3>2
  <2> QED
    BY <1>1, <1>2, <1>9, <2>1, <2>2, Zenon DEF ServeNone, TypeOK
<1> QED
  BY <1>5, <1>6, <1>7, <1>8, <1>9, Zenon DEF Rounds

\* The types of what deaths, an abandoned checkout and a drain do.
LEMMA DeathType ==
    ASSUME TypeOK,
           \/ \E p \in Callers : HandleAbandoned(p) \/ WaiterDeparted(p)
           \/ \E p \in Callers, c \in Conns : OwnerDeparted(p, c)
           \/ \E c \in Conns : ConnectionDied(c) \/ ConnectionDies(c) \/ ConnectionAges(c)
           \/ Drain \/ DrainDeadline
    PROVE  TypeOK'
<1>1. \A p : Without(waiters, p) \in Seq(Callers)
  BY WithoutFacts, Zenon DEF TypeOK
<1>2. \A c : Without(idle, c) \in Seq(Conns)
  BY WithoutFacts, Zenon DEF TypeOK
<1>3. \A c \in Conns : [out EXCEPT ![c] = NoOne] \in [Conns -> Callers \cup {NoOne}]
  BY Zenon DEF TypeOK
<1>4. ASSUME NEW p \in Callers, HandleAbandoned(p) PROVE TypeOK'
  <2>1. mail' \in [Callers -> Seq(Messages)]
    BY <1>4 DEF HandleAbandoned, Due, Consume, TypeOK
  <2> QED
    BY <1>1, <1>4, <2>1, Zenon DEF HandleAbandoned, TypeOK, tables
<1>5. ASSUME NEW p \in Callers, WaiterDeparted(p) PROVE TypeOK'
  BY <1>1, <1>5, Zenon DEF WaiterDeparted, TypeOK, tables
<1>6. ASSUME NEW p \in Callers, NEW c \in Conns, OwnerDeparted(p, c) PROVE TypeOK'
  BY <1>3, <1>6, Zenon DEF OwnerDeparted, Reclaim, Close, TypeOK
<1>7. ASSUME NEW c \in Conns, ConnectionDied(c) PROVE TypeOK'
  BY <1>2, <1>3, <1>7, Zenon DEF ConnectionDied, TypeOK
<1>8. ASSUME NEW c \in Conns, ConnectionDies(c) \/ ConnectionAges(c) PROVE TypeOK'
  BY <1>8, Zenon DEF ConnectionDies, ConnectionAges, TypeOK
<1>9. ASSUME Sweep, UNCHANGED <<serving, taken, mail, stalled>>,
             draining' \in BOOLEAN, deadline' \in BOOLEAN
      PROVE  TypeOK'
  <2>1. idle' \in Seq(Conns) /\ waiters' \in Seq(Callers)
    BY <1>9 DEF Sweep
  <2>2. out' \in [Conns -> Callers \cup {NoOne}] /\ caller' \in [Callers -> Caller]
    BY <1>9, RecordTypes, Zenon DEF Sweep, TypeOK
  <2> QED
    BY <1>9, <2>1, <2>2, Zenon DEF Sweep, Close, TypeOK
<1>10. CASE Drain
  <2>1. CASE UNCHANGED <<tables, waiters, caller>> /\ deadline' = TRUE
    BY <1>10, <2>1, Zenon DEF Drain, TypeOK, tables
  <2>2. CASE Sweep /\ UNCHANGED deadline
    BY <1>9, <1>10, <2>2, Zenon DEF Drain, TypeOK
  <2> QED
    BY <1>10, <2>1, <2>2, Zenon DEF Drain
<1>11. CASE DrainDeadline
  BY <1>9, <1>11, Zenon DEF DrainDeadline, TypeOK
<1> QED
  BY <1>4, <1>5, <1>6, <1>7, <1>8, <1>10, <1>11, Zenon

\* The types of what a caller does.
LEMMA CallerType ==
    ASSUME TypeOK, NEW p \in Callers,
           \/ Ask(p) \/ CheckoutTimeout(p) \/ Works(p) \/ SettleTimeout(p) \/ Crash(p) \/ Restart(p)
    PROVE  TypeOK'
<1>1. UNCHANGED poolVars
  BY Zenon DEF Ask, CheckoutTimeout, Works, Ping, Exec, Settle, SettleTimeout, Crash, Restart
<1>2. \A m \in Messages : [mail EXCEPT ![p] = Append(@, m)] \in [Callers -> Seq(Messages)]
  BY DEF TypeOK
<1>3. \A r \in Caller : [caller EXCEPT ![p] = r] \in [Callers -> Caller]
  BY Zenon DEF TypeOK
<1>4. caller[p] \in Caller
  BY Zenon DEF TypeOK
<1>5. \A kind \in {"checkin", "discard"} : [kind |-> kind, conn |-> caller[p].conn] \in Messages
  BY <1>4, Zenon DEF Caller, Messages
<1>6. \A pc \in {"exec", "settling"} : [caller[p] EXCEPT !.pc = pc] \in Caller
  BY <1>4, Zenon DEF Caller
<1>7. \A pc \in {"settle", "settling"}, b \in BOOLEAN :
        [[caller[p] EXCEPT !.pc = pc] EXCEPT !.again = b] \in Caller
  BY <1>4, Zenon DEF Caller
<1>8. caller' \in [Callers -> Caller]
  <2>1. CASE Ask(p) \/ CheckoutTimeout(p) \/ SettleTimeout(p) \/ Crash(p) \/ Restart(p)
    BY <1>3, <2>1, RecordTypes, Zenon DEF Ask, CheckoutTimeout, SettleTimeout, Crash, Restart
  <2>2. CASE Ping(p)
    <3>1. CASE caller' = [caller EXCEPT ![p].pc = "exec"]
      <4>1. caller' = [caller EXCEPT ![p] = [caller[p] EXCEPT !.pc = "exec"]]
        BY <3>1, Zenon
      <4> QED
        BY <1>3, <1>6, <4>1, Zenon
    <3>2. CASE caller' = [caller EXCEPT ![p].pc = "settling", ![p].again = caller[p].left > 0]
      <4> DEFINE n == caller[p].left
      <4>a. n \in Int
        BY <1>4 DEF Caller
      <4> HIDE DEF n
      <4>b. (n > 0) \in BOOLEAN
        BY <4>a
      <4>1. PICK b \in BOOLEAN : b = (n > 0)
        BY <4>b, Zenon
      <4>2. caller' = [caller EXCEPT ![p] = [[caller[p] EXCEPT !.pc = "settling"] EXCEPT !.again = b]]
        BY <3>2, <4>1, Zenon DEF TypeOK, n
      <4> QED
        BY <1>3, <1>7, <4>2, Zenon
    <3> QED
      BY <2>2, <3>1, <3>2, Zenon DEF Ping
  <2>3. CASE Exec(p)
    <3>1. \E b \in BOOLEAN :
                caller' = [caller EXCEPT ![p] = [[caller[p] EXCEPT !.pc = "settle"] EXCEPT !.again = b]]
      BY <2>3, Zenon DEF Exec, TypeOK
    <3> QED
      BY <1>3, <1>7, <3>1, Zenon
  <2>4. CASE Settle(p)
    <3>1. caller' = [caller EXCEPT ![p] = [caller[p] EXCEPT !.pc = "settling"]]
      BY <2>4, Zenon DEF Settle, TypeOK
    <3> QED
      BY <1>3, <1>6, <3>1, Zenon
  <2> QED
    BY <2>1, <2>2, <2>3, <2>4, Zenon DEF Works
<1>9. mail' \in [Callers -> Seq(Messages)]
  <2>1. CASE UNCHANGED mail
    BY <2>1, Zenon DEF TypeOK
  <2>2. CASE \E m \in Messages : mail' = [mail EXCEPT ![p] = Append(@, m)]
    BY <1>2, <2>2, Zenon
  <2>3. CASE Ask(p) \/ CheckoutTimeout(p)
    BY <2>2, <2>3, RecordTypes, Zenon DEF Ask, CheckoutTimeout
  <2>4. CASE Ping(p) \/ Settle(p)
    BY <1>5, <2>1, <2>2, <2>4, Zenon DEF Ping, Settle
  <2> QED
    BY <2>1, <2>3, <2>4, Zenon DEF Works, Exec, SettleTimeout, Crash, Restart
<1> QED
  BY <1>1, <1>8, <1>9, Zenon DEF TypeOK, poolVars, tables

LEMMA TypeStep ==
    ASSUME TypeOK, Round, \A p \in Callers : KindsOK(mail[p]), [Next]_vars
    PROVE  TypeOK'
<1>1. CASE UNCHANGED vars
  BY <1>1, Zenon DEF TypeOK, vars, tables
<1>2. CASE Next
  BY <1>2, CheckoutType, ReturnType, RoundType, DeathType, CallerType, Zenon DEF Next, Handle
<1> QED
  BY <1>1, <1>2, Zenon

-----------------------------------------------------------------------------
(* The tables.                                                              *)

\* How many connections are checked out, before and after one is granted or returned.
LEMMA OutCount ==
    ASSUME TypeOK
    PROVE  Cardinality(CheckedOut) \in Nat /\ CheckedOut \subseteq Conns /\ total \in Nat
<1>1. IsFiniteSet(CheckedOut) /\ CheckedOut \subseteq Conns
  BY Limits, FS_Subset, Zenon DEF CheckedOut
<1> QED
  BY <1>1, FS_CardinalityType, EmptyFacts DEF total, TypeOK

LEMMA OutGranted ==
    ASSUME TypeOK, NEW c \in Conns, NEW p \in Callers, c \notin CheckedOut,
           out' = [out EXCEPT ![c] = p]
    PROVE  /\ CheckedOut' = CheckedOut \cup {c}
           /\ Cardinality(CheckedOut') = Cardinality(CheckedOut) + 1
<1>1. IsFiniteSet(CheckedOut)
  BY Limits, FS_Subset, Zenon DEF CheckedOut
<1>2. CheckedOut' = CheckedOut \cup {c}
  BY Limits, Zenon DEF CheckedOut, TypeOK
<1> QED
  BY <1>1, <1>2, FS_AddElement, Zenon

LEMMA OutReturned ==
    ASSUME TypeOK, NEW c \in Conns, out' = [out EXCEPT ![c] = NoOne]
    PROVE  /\ CheckedOut' = CheckedOut \ {c} /\ Cardinality(CheckedOut') \in Nat
           /\ Cardinality(CheckedOut') =
                IF c \in CheckedOut THEN Cardinality(CheckedOut) - 1 ELSE Cardinality(CheckedOut)
<1>1. IsFiniteSet(CheckedOut)
  BY Limits, FS_Subset, Zenon DEF CheckedOut
<1>2. CheckedOut' = CheckedOut \ {c}
  BY Zenon DEF CheckedOut, TypeOK
<1>3. /\ IsFiniteSet(CheckedOut \ {c})
      /\ Cardinality(CheckedOut \ {c}) =
            IF c \in CheckedOut THEN Cardinality(CheckedOut) - 1 ELSE Cardinality(CheckedOut)
  BY <1>1, FS_RemoveElement, Zenon
<1> QED
  BY <1>2, <1>3, FS_CardinalityType, Zenon

\* A connection nobody knows is granted; rest and gone are what stays in and what left the queue.
LEMMA NewTables ==
    ASSUME TypeOK, TableInv, NEW p \in Callers, NEW c \in Conns, c \notin monitors,
           NEW rest, NEW gone, Shrunk(rest, gone),
           Len(rest) + Cardinality(CheckedOut) < Capacity,
           idle' = rest, out' = [out EXCEPT ![c] = p], monitors' = (monitors \ gone) \cup {c},
           taken' = <<>>
    PROVE  TableInv'
<1>1. idle \in Seq(Conns) /\ Len(idle) \in Nat /\ Len(taken) \in Nat /\ Len(<<>>) = 0
  BY EmptyFacts, Zenon DEF TypeOK
<1>2. /\ monitors = Range(idle) \cup CheckedOut /\ Range(idle) \cap CheckedOut = {}
      /\ IsInjective(idle) /\ Len(idle) <= PoolSize /\ (NullPool => idle = <<>>)
  BY <1>1, Limits DEF TableInv, Tracked, Room
<1>3. /\ CheckedOut' = CheckedOut \cup {c}
      /\ Cardinality(CheckedOut') = Cardinality(CheckedOut) + 1 /\ Cardinality(CheckedOut) \in Nat
  BY <1>2, OutGranted, OutCount, Zenon
<1>4. /\ rest \in Seq(Conns) /\ Len(rest) \in Nat /\ Len(rest) <= Len(idle) /\ IsInjective(rest)
      /\ Range(rest) = Range(idle) \ gone /\ gone \subseteq Range(idle)
      /\ (NullPool => rest = <<>>)
  <2>1. CASE rest = idle /\ gone = {}
    BY <1>1, <1>2, <2>1
  <2>2. CASE ~NullPool /\ idle # <<>> /\ rest = Tail(idle) /\ gone = {Head(idle)}
    BY <1>1, <1>2, <2>2, TailFacts
  <2> QED
    BY <2>1, <2>2, Zenon DEF Shrunk
<1>5. Tracked'
  BY <1>2, <1>3, <1>4, Zenon DEF Tracked
<1>6. TakenApart'
  BY EmptyFacts, Zenon DEF TakenApart
<1>7. Room'
  BY <1>1, <1>2, <1>3, <1>4, Limits DEF Room
<1> QED
  BY <1>5, <1>6, <1>7, Zenon DEF TableInv

\* The first parked connection is granted.
LEMMA ParkedTables ==
    ASSUME TypeOK, TableInv, NEW p \in Callers, idle # <<>>,
           idle' = Tail(idle), out' = [out EXCEPT ![Head(idle)] = p],
           monitors' = (monitors \ {}) \cup {Head(idle)}, taken' = <<>>
    PROVE  TableInv'
<1>1. /\ idle \in Seq(Conns) /\ Len(idle) \in Nat /\ Len(taken) \in Nat /\ Len(<<>>) = 0
      /\ monitors = Range(idle) \cup CheckedOut /\ Range(idle) \cap CheckedOut = {}
      /\ IsInjective(idle)
  BY EmptyFacts, Zenon DEF TypeOK, TableInv, Tracked
<1>2. /\ Head(idle) \in Conns /\ Tail(idle) \in Seq(Conns) /\ Len(Tail(idle)) = Len(idle) - 1
      /\ Range(idle) = {Head(idle)} \cup Range(Tail(idle))
      /\ IsInjective(Tail(idle)) /\ Head(idle) \notin Range(Tail(idle))
  BY <1>1, TailFacts, Zenon
<1>3. /\ CheckedOut' = CheckedOut \cup {Head(idle)}
      /\ Cardinality(CheckedOut') = Cardinality(CheckedOut) + 1 /\ Cardinality(CheckedOut) \in Nat
  BY <1>1, <1>2, OutGranted, OutCount, Zenon
<1>4. Tracked'
  BY <1>1, <1>2, <1>3, Zenon DEF Tracked
<1>5. TakenApart'
  BY EmptyFacts, Zenon DEF TakenApart
<1>6. Room'
  BY <1>1, <1>2, <1>3, Limits DEF TableInv, Room
<1> QED
  BY <1>4, <1>5, <1>6, Zenon DEF TableInv

\* The first parked connection is closed, and remembered by a round that goes on.
LEMMA HeadTables ==
    ASSUME TypeOK, TableInv, idle # <<>>, idle' = Tail(idle), out' = out,
           monitors' = monitors \ {Head(idle)}, taken' \in {taken, Append(taken, Head(idle))},
           taken # <<>> \/ taken' # <<>> => ~NullPool
    PROVE  TableInv'
<1>1. /\ idle \in Seq(Conns) /\ Len(idle) \in Nat /\ taken \in Seq(Conns) /\ Len(taken) \in Nat
      /\ monitors = Range(idle) \cup CheckedOut /\ Range(idle) \cap CheckedOut = {}
      /\ IsInjective(idle) /\ IsInjective(taken) /\ Range(taken) \cap monitors = {}
  BY EmptyFacts, Zenon DEF TypeOK, TableInv, Tracked, TakenApart
<1>2. /\ Head(idle) \in Conns /\ Tail(idle) \in Seq(Conns) /\ Len(Tail(idle)) = Len(idle) - 1
      /\ Range(idle) = {Head(idle)} \cup Range(Tail(idle))
      /\ IsInjective(Tail(idle)) /\ Head(idle) \notin Range(Tail(idle))
  BY <1>1, TailFacts, Zenon
<1>3. CheckedOut' = CheckedOut /\ Cardinality(CheckedOut) \in Nat
  BY OutCount, Zenon DEF CheckedOut
<1>4. /\ Len(taken') \in Nat /\ Len(taken') <= Len(taken) + 1 /\ IsInjective(taken')
      /\ Range(taken') \subseteq Range(taken) \cup {Head(idle)}
  <2>1. Head(idle) \notin Range(taken)
    BY <1>1, <1>2, Zenon
  <2>2. CASE taken' = taken
    BY <1>1, <2>2
  <2>3. CASE taken' = Append(taken, Head(idle))
    BY <1>1, <1>2, <2>1, <2>3, AppendFacts
  <2> QED
    BY <2>2, <2>3, Zenon
<1>5. Tracked'
  BY <1>1, <1>2, <1>3, Zenon DEF Tracked
<1>6. TakenApart'
  BY <1>1, <1>4, Zenon DEF TakenApart
<1>7. Room'
  BY <1>1, <1>2, <1>3, <1>4, Limits DEF TableInv, Room
<1> QED
  BY <1>5, <1>6, <1>7, Zenon DEF TableInv

\* A connection comes back and is parked.
LEMMA ParkTables ==
    ASSUME TypeOK, TableInv, taken = <<>>, NEW c \in CheckedOut, ~Closes(c),
           idle' = Append(idle, c), out' = [out EXCEPT ![c] = NoOne], UNCHANGED <<monitors, taken>>
    PROVE  TableInv'
<1>1. /\ idle \in Seq(Conns) /\ Len(idle) \in Nat /\ Len(taken) = 0 /\ c \in Conns
      /\ monitors = Range(idle) \cup CheckedOut /\ Range(idle) \cap CheckedOut = {}
      /\ IsInjective(idle)
  BY EmptyFacts, OutCount, Zenon DEF TypeOK, TableInv, Tracked
<1>2. /\ Len(idle') = Len(idle) + 1 /\ Range(idle') = Range(idle) \cup {c} /\ IsInjective(idle')
  BY <1>1, AppendFacts
<1>3. /\ CheckedOut' = CheckedOut \ {c} /\ Cardinality(CheckedOut) \in Nat
      /\ Cardinality(CheckedOut') = Cardinality(CheckedOut) - 1
      /\ Cardinality(CheckedOut') \in Nat
  BY <1>1, OutReturned, OutCount, Zenon
<1>4. ~NullPool /\ ~(Len(idle) + Cardinality(CheckedOut') >= PoolSize)
  BY <1>3, Zenon DEF Closes
<1>5. Tracked'
  BY <1>1, <1>2, <1>3, Zenon DEF Tracked
<1>6. TakenApart'
  BY Zenon DEF TakenApart, TableInv
<1>7. Room'
  BY <1>1, <1>2, <1>3, <1>4, Limits DEF TableInv, Room
<1> QED
  BY <1>5, <1>6, <1>7, Zenon DEF TableInv

\* A connection is checked out to nobody any more, and not parked.
LEMMA GoneTables ==
    ASSUME TypeOK, TableInv, NEW c \in Conns, idle' = idle \/ idle' = Without(idle, c),
           c \in Range(idle) => idle' = Without(idle, c),
           out' = [out EXCEPT ![c] = NoOne], monitors' = monitors \ {c}, UNCHANGED taken
    PROVE  TableInv'
<1>1. /\ idle \in Seq(Conns) /\ Len(idle) \in Nat /\ Len(taken) \in Nat
      /\ monitors = Range(idle) \cup CheckedOut /\ Range(idle) \cap CheckedOut = {}
      /\ IsInjective(idle) /\ IsInjective(taken) /\ Range(taken) \cap monitors = {}
  BY EmptyFacts, Zenon DEF TypeOK, TableInv, Tracked, TakenApart
<1>2. /\ Len(idle') \in Nat /\ Len(idle') <= Len(idle) /\ Range(idle') = Range(idle) \ {c}
      /\ IsInjective(idle') /\ (idle = <<>> => idle' = <<>>)
  <2>1. CASE idle' = idle /\ c \notin Range(idle)
    BY <1>1, <2>1
  <2>2. CASE idle' = Without(idle, c)
    <3>1. /\ idle' \in Seq(Conns) /\ Len(idle') <= Len(idle) /\ Range(idle') = Range(idle) \ {c}
          /\ IsInjective(idle')
      BY <1>1, <2>2, WithoutFacts, Zenon
    <3>2. Len(idle') \in Nat /\ (Len(idle') = 0 <=> idle' = <<>>) /\ (idle = <<>> => Len(idle) = 0)
      BY <3>1, EmptyFacts, Zenon
    <3> QED
      BY <1>1, <3>1, <3>2
  <2> QED
    BY <2>1, <2>2, Zenon
<1>3. /\ CheckedOut' = CheckedOut \ {c} /\ Cardinality(CheckedOut) \in Nat
      /\ Cardinality(CheckedOut') \in {Cardinality(CheckedOut), Cardinality(CheckedOut) - 1}
  BY OutReturned, OutCount, Zenon
<1>4. Tracked'
  BY <1>1, <1>2, <1>3, Zenon DEF Tracked
<1>5. TakenApart'
  BY <1>1, Zenon DEF TakenApart
<1>6. Room'
  BY <1>1, <1>2, <1>3, Limits DEF TableInv, Room
<1> QED
  BY <1>4, <1>5, <1>6, Zenon DEF TableInv

\* serve_waiters/1 gives up: what it took is parked again.
LEMMA RestoredTables ==
    ASSUME TypeOK, TableInv, idle = <<>>, idle' = taken, UNCHANGED out,
           monitors' = monitors \cup Range(taken), taken' = <<>>
    PROVE  TableInv'
<1>1. /\ Len(idle) = 0 /\ Range(idle) = {} /\ Len(taken) \in Nat /\ Len(<<>>) = 0
      /\ monitors = CheckedOut /\ IsInjective(taken) /\ Range(taken) \cap monitors = {}
  BY EmptyFacts, Zenon DEF TypeOK, TableInv, Tracked, TakenApart
<1>2. CheckedOut' = CheckedOut /\ Cardinality(CheckedOut) \in Nat
  BY OutCount, Zenon DEF CheckedOut
<1>3. Tracked'
  BY <1>1, <1>2, Zenon DEF Tracked
<1>4. TakenApart'
  BY EmptyFacts, Zenon DEF TakenApart
<1>5. Room'
  BY <1>1, <1>2, Limits DEF TableInv, Room
<1> QED
  BY <1>3, <1>4, <1>5, Zenon DEF TableInv

\* A drain empties the tables.
LEMMA SweptTables ==
    ASSUME taken = <<>>, Sweep, UNCHANGED taken
    PROVE  TableInv'
<1>1. idle' = <<>> /\ monitors' = {} /\ taken' = <<>> /\ CheckedOut' = {}
  BY Zenon DEF Sweep, CheckedOut
<1>2. Cardinality({}) = 0
  BY FS_EmptySet, Zenon
<1> QED
  BY <1>1, <1>2, EmptyFacts, Limits DEF TableInv, Tracked, TakenApart, Room

\* The tables if nothing changes in them.
LEMMA SameTables ==
    ASSUME TableInv, UNCHANGED <<idle, out, monitors, taken>>
    PROVE  TableInv'
BY Zenon DEF TableInv, Tracked, TakenApart, Room, CheckedOut

LEMMA CheckoutTables ==
    ASSUME TypeOK, Round, TableInv, NEW p \in Callers, HandleCheckout(p)
    PROVE  TableInv'
<1>1. ~serving /\ taken = <<>> /\ taken' = <<>>
  BY CheckoutCases, Zenon DEF Due, Round
<1>2. CASE CheckoutError(p) /\ UNCHANGED <<tables, waiters>>
  BY <1>1, <1>2, SameTables, Zenon DEF tables
<1>3. CASE GrantParked(p)
  BY <1>1, <1>3, ParkedTables, Zenon DEF GrantParked, Hand
<1>4. ASSUME NEW rest, NEW gone, Shrunk(rest, gone), NEW c \in Free, GrantNew(p, c, rest, gone)
      PROVE  TableInv'
  <2>1. c \in Conns /\ c \notin monitors
    BY Zenon DEF Free
  <2> QED
    BY <1>1, <1>4, <2>1, NewTables, Zenon DEF GrantNew, Hand
<1>5. ASSUME NEW rest, NEW gone, Shrunk(rest, gone), Dropped(rest, gone)
      PROVE  TableInv'
  <2>1. CASE rest = idle /\ gone = {}
    BY <1>1, <1>5, <2>1, SameTables, Zenon DEF Dropped
  <2>2. CASE ~NullPool /\ idle # <<>> /\ rest = Tail(idle) /\ gone = {Head(idle)}
    BY <1>1, <1>5, <2>2, HeadTables, Zenon DEF Dropped
  <2> QED
    BY <1>5, <2>1, <2>2, Zenon DEF Shrunk
<1> QED
  BY <1>2, <1>3, <1>4, <1>5, CheckoutCases, Zenon DEF GrantError, Queued

\* What a check-in or discard of connection c does to the tables.
LEMMA ReturnCases ==
    ASSUME TypeOK, NEW p \in Callers, KindsOK(mail[p]), HandleCheckin(p) \/ HandleDiscard(p)
    PROVE  \E c \in Conns :
            /\ c = Head(mail[p]).conn /\ mail[p] # <<>> /\ ~serving /\ Settled(p)
            /\ UNCHANGED <<waiters, draining, deadline, taken, stalled>>
            /\ \/ out[c] = NoOne /\ UNCHANGED <<tables, serving>>
               \/ /\ out[c] # NoOne /\ out' = [out EXCEPT ![c] = NoOne]
                  /\ serving' = (waiters # <<>>) /\ unheard' = unheard \ {c}
                  /\ \/ monitors' = monitors \ {c} /\ UNCHANGED idle
                     \/ ~Closes(c) /\ idle' = Append(idle, c) /\ UNCHANGED monitors
<1>1. mail[p] # <<>> /\ Head(mail[p]).kind \in {"checkin", "discard"}
  BY Zenon DEF HandleCheckin, HandleDiscard, Due
<1>2. PICK c \in Conns : c = Head(mail[p]).conn
  BY <1>1 DEF TypeOK, KindsOK
<1>3. CASE HandleCheckin(p)
  BY <1>1, <1>2, <1>3, Zenon DEF HandleCheckin, Due, Close
<1>4. CASE HandleDiscard(p)
  BY <1>1, <1>2, <1>4, Zenon DEF HandleDiscard, Reclaim, Due
<1> QED
  BY <1>3, <1>4, Zenon

LEMMA ReturnTables ==
    ASSUME TypeOK, Round, TableInv, NEW p \in Callers, KindsOK(mail[p]),
           HandleCheckin(p) \/ HandleDiscard(p)
    PROVE  TableInv'
<1>1. PICK c \in Conns :
            /\ ~serving /\ UNCHANGED taken
            /\ \/ UNCHANGED tables
               \/ /\ out[c] # NoOne /\ out' = [out EXCEPT ![c] = NoOne]
                  /\ \/ monitors' = monitors \ {c} /\ UNCHANGED idle
                     \/ ~Closes(c) /\ idle' = Append(idle, c) /\ UNCHANGED monitors
  BY ReturnCases, Zenon
<1>2. taken = <<>>
  BY <1>1, Zenon DEF Round
<1>3. CASE UNCHANGED tables
  BY <1>1, <1>3, SameTables, Zenon DEF tables
<1>4. CASE ~UNCHANGED tables
  <2>1. c \in CheckedOut /\ c \notin Range(idle)
    BY <1>1, <1>4, Zenon DEF CheckedOut, TableInv, Tracked
  <2> QED
    BY <1>1, <1>2, <1>4, <2>1, GoneTables, ParkTables, Zenon
<1> QED
  BY <1>3, <1>4, Zenon

LEMMA RoundTables ==
    ASSUME TypeOK, Round, TableInv, Rounds
    PROVE  TableInv'
<1>1. Head(waiters) \in Callers
  BY RoundHasWaiter, Zenon
<1>2. CASE ServeDead
  BY <1>2, SameTables, Zenon DEF ServeDead, tables
<1>3. CASE ServeParked
  BY <1>1, <1>3, ParkedTables, Zenon DEF ServeParked, Serve, Hand
<1>4. CASE ServeExpired
  <2>1. ~NullPool
    BY <1>4, Zenon DEF ServeExpired, TableInv, Room
  <2> QED
    BY <1>4, <2>1, HeadTables, Zenon DEF ServeExpired
<1>5. CASE ServeOpened
  <2>1. PICK c \in Free : Serve(c, TRUE)
    BY <1>5, Zenon DEF ServeOpened
  <2>2. c \in Conns /\ c \notin monitors
    BY Zenon DEF Free
  <2>3. Shrunk(idle, {}) /\ Len(idle) + Cardinality(CheckedOut) < Capacity /\ idle' = idle
    BY <1>5, Zenon DEF ServeOpened, Shrunk, total
  <2> QED
    BY <1>1, <2>1, <2>2, <2>3, NewTables, Zenon DEF Serve, Hand
<1>6. CASE ServeNone
  BY <1>6, RestoredTables, Zenon DEF ServeNone
<1> QED
  BY <1>2, <1>3, <1>4, <1>5, <1>6, Zenon DEF Rounds

LEMMA DeathTables ==
    ASSUME TypeOK, Round, TableInv, NEW c \in Conns,
           ConnectionDied(c) \/ \E p \in Callers : OwnerDeparted(p, c)
    PROVE  TableInv'
<1>1. CASE ConnectionDied(c)
  BY <1>1, GoneTables, Zenon DEF ConnectionDied
<1>2. ASSUME NEW p \in Callers, OwnerDeparted(p, c) PROVE TableInv'
  <2>1. out[c] # NoOne /\ UNCHANGED <<idle, taken>>
    BY <1>2, Limits, Zenon DEF OwnerDeparted, Reclaim
  <2>2. c \notin Range(idle)
    BY <2>1, Zenon DEF TableInv, Tracked, CheckedOut
  <2> QED
    BY <1>2, <2>1, <2>2, GoneTables, Zenon DEF OwnerDeparted, Reclaim
<1> QED
  BY <1>1, <1>2, Zenon

LEMMA TableStep ==
    ASSUME TypeOK, Round, TableInv, \A p \in Callers : KindsOK(mail[p]), [Next]_vars
    PROVE  TableInv'
<1>1. CASE UNCHANGED <<idle, out, monitors, taken>>
  BY <1>1, SameTables, Zenon
<1>2. CASE UNCHANGED vars
  BY <1>1, <1>2, Zenon DEF vars, tables
<1>3. ASSUME NEW p \in Callers, Handle(p) PROVE TableInv'
  <2>1. CASE HandleAbandoned(p)
    BY <1>1, <2>1, Zenon DEF HandleAbandoned, tables
  <2> QED
    BY <1>3, <2>1, CheckoutTables, ReturnTables, Zenon DEF Handle
<1>4. ASSUME NEW p \in Callers,
             \/ WaiterDeparted(p) \/ Ask(p) \/ CheckoutTimeout(p) \/ Works(p)
             \/ SettleTimeout(p) \/ Crash(p) \/ Restart(p)
      PROVE  TableInv'
  BY <1>1, <1>4, Zenon DEF WaiterDeparted, Ask, CheckoutTimeout, Works, Ping, Exec, Settle,
                    SettleTimeout, Crash, Restart, poolVars, tables
<1>5. CASE Drain \/ DrainDeadline
  <2>1. taken = <<>> /\ UNCHANGED taken
    BY <1>5, Zenon DEF Drain, DrainDeadline, Round
  <2> QED
    BY <1>1, <1>5, <2>1, SweptTables, Zenon DEF Drain, DrainDeadline, tables
<1>6. ASSUME NEW c \in Conns, ConnectionDies(c) \/ ConnectionAges(c) PROVE TableInv'
  BY <1>1, <1>6, Zenon DEF ConnectionDies, ConnectionAges
<1> QED
  BY <1>2, <1>3, <1>4, <1>5, <1>6, RoundTables, DeathTables, Zenon DEF Next

-----------------------------------------------------------------------------
(* Rounds and the queue.                                                    *)

LEMMA RoundStep ==
    ASSUME TypeOK, Round, [Next]_vars
    PROVE  Round'
<1>1. serving \in BOOLEAN
  BY Zenon DEF TypeOK
<1>2. CASE UNCHANGED <<serving, waiters, taken>>
  BY <1>2, Zenon DEF Round
<1>3. CASE taken = <<>> /\ UNCHANGED taken /\ serving' = (waiters' # <<>>)
  BY <1>3, Zenon DEF Round
<1>4. CASE ~serving /\ UNCHANGED <<serving, taken>>
  BY <1>4, Zenon DEF Round
<1>5. ASSUME NEW p \in Callers, Handle(p) PROVE Round'
  <2>1. ~serving /\ taken = <<>> /\ UNCHANGED taken
    BY <1>5, Zenon
       DEF Handle, HandleCheckout, HandleCheckin, HandleDiscard, HandleAbandoned, Due, Round
  <2>2. CASE HandleCheckout(p)
    BY <1>4, <2>1, <2>2, Zenon DEF HandleCheckout
  <2>3. CASE HandleCheckin(p)
    BY <1>2, <1>3, <2>1, <2>3, Zenon DEF HandleCheckin
  <2>4. CASE HandleDiscard(p)
    BY <1>2, <1>3, <2>1, <2>4, Zenon DEF HandleDiscard, Reclaim
  <2>5. CASE HandleAbandoned(p)
    BY <1>3, <2>1, <2>5, Zenon DEF HandleAbandoned
  <2> QED
    BY <1>5, <2>2, <2>3, <2>4, <2>5, Zenon DEF Handle
<1>6. ASSUME Rounds PROVE Round'
  <2>1. CASE ServeDead
    BY <1>3, <2>1, Zenon DEF ServeDead, InRound
  <2>2. ASSUME NEW c, NEW fresh, Serve(c, fresh) PROVE Round'
    BY <2>2, Zenon DEF Serve, Round
  <2>3. CASE ServeExpired
    BY <2>3, Zenon DEF ServeExpired, InRound, Round
  <2>4. CASE ServeNone
    BY <2>4, Zenon DEF ServeNone, Round
  <2> QED
    BY <1>6, <2>1, <2>2, <2>3, <2>4, Zenon DEF Rounds, ServeParked, ServeOpened
<1>7. ASSUME NEW c \in Conns, ConnectionDied(c) \/ \E p \in Callers : OwnerDeparted(p, c)
      PROVE  Round'
  BY <1>3, <1>7, Zenon DEF ConnectionDied, OwnerDeparted, Reclaim, Round
<1>8. ASSUME \/ Drain \/ DrainDeadline \/ \E p \in Callers : WaiterDeparted(p)
      PROVE  Round'
  BY <1>4, <1>8, Zenon DEF Drain, DrainDeadline, WaiterDeparted
<1>9. ASSUME NEW c \in Conns, ConnectionDies(c) \/ ConnectionAges(c) PROVE Round'
  BY <1>2, <1>9, Zenon DEF ConnectionDies, ConnectionAges
<1>10. ASSUME NEW p \in Callers,
              \/ Ask(p) \/ CheckoutTimeout(p) \/ Works(p)
              \/ SettleTimeout(p) \/ Crash(p) \/ Restart(p)
       PROVE  Round'
  BY <1>2, <1>10, Zenon DEF Ask, CheckoutTimeout, Works, Ping, Exec, Settle, SettleTimeout, Crash,
                     Restart, poolVars
<1>11. CASE UNCHANGED vars
  BY <1>2, <1>11, Zenon DEF vars
<1> QED
  BY <1>5, <1>6, <1>7, <1>8, <1>9, <1>10, <1>11, Zenon DEF Next

\* A checkout never leaves somebody queued while a connection could be had.
LEMMA CheckoutServed ==
    ASSUME TypeOK, Round, TableInv, ServedWhenPossible, NEW p \in Callers, HandleCheckout(p)
    PROVE  ServedWhenPossible'
<1>1. /\ ~serving /\ UNCHANGED <<serving, stalled>>
      /\ Cardinality(CheckedOut) \in Nat /\ idle \in Seq(Conns) /\ Len(idle) \in Nat
      /\ Len(<<>>) = 0 /\ Capacity \in Nat
  BY CheckoutCases, OutCount, EmptyFacts, Limits, Zenon DEF Due, TypeOK
<1>2. Len(idle) + Cardinality(CheckedOut) <= Capacity /\ (NullPool => idle = <<>>)
  <2>1. Len(taken) \in Nat
    BY EmptyFacts, Zenon DEF TypeOK
  <2> QED
    BY <1>1, <2>1 DEF TableInv, Room
<1>3. waiters # <<>> /\ ~stalled => idle = <<>> /\ Cardinality(CheckedOut) >= Capacity
  BY <1>1, Zenon DEF ServedWhenPossible
<1>4. CASE CheckoutError(p) /\ UNCHANGED <<tables, waiters>>
  BY <1>1, <1>4, Zenon DEF ServedWhenPossible, tables, CheckedOut
<1>5. CASE GrantParked(p)
  BY <1>1, <1>3, <1>5, Zenon DEF GrantParked, ServedWhenPossible
<1>6. ASSUME NEW rest, NEW gone, Shrunk(rest, gone), NEW c, GrantNew(p, c, rest, gone)
      PROVE  ServedWhenPossible'
  <2>1. UNCHANGED waiters /\ Len(rest) + Cardinality(CheckedOut) < Capacity
    BY <1>6, Zenon DEF GrantNew
  <2>2. idle = <<>> => rest = <<>>
    BY <1>6, Zenon DEF Shrunk
  <2> QED
    BY <1>1, <1>3, <2>1, <2>2 DEF ServedWhenPossible
<1>7. ASSUME NEW rest, NEW gone, Shrunk(rest, gone), GrantError(p, rest, gone)
      PROVE  ServedWhenPossible'
  <2>1. UNCHANGED <<waiters, out>> /\ idle' = rest
    BY <1>7, Zenon DEF GrantError, Dropped
  <2>2. idle = <<>> => rest = <<>>
    BY <1>7, Zenon DEF Shrunk
  <2> QED
    BY <1>1, <1>3, <2>1, <2>2, Zenon DEF ServedWhenPossible, CheckedOut
<1>8. ASSUME NEW rest, NEW gone, Shrunk(rest, gone), Queued(p, rest, gone)
      PROVE  ServedWhenPossible'
  <2>1. UNCHANGED out /\ idle' = rest /\ Len(rest) + Cardinality(CheckedOut) >= Capacity
    BY <1>8, Zenon DEF Queued, Dropped
  <2>2. ~(idle # <<>> /\ rest = Tail(idle))
    <3>1. idle # <<>> => Len(Tail(idle)) = Len(idle) - 1
      BY <1>1
    <3> QED
      BY <1>1, <1>2, <2>1, <3>1
  <2>3. rest = <<>>
    BY <1>2, <1>8, <2>2, Zenon DEF Shrunk
  <2> QED
    BY <1>1, <2>1, <2>3 DEF ServedWhenPossible, CheckedOut
<1> QED
  BY <1>4, <1>5, <1>6, <1>7, <1>8, CheckoutCases, Zenon

LEMMA ServedStep ==
    ASSUME TypeOK, Round, TableInv, ServedWhenPossible, [Next]_vars
    PROVE  ServedWhenPossible'
<1>1. CASE UNCHANGED <<serving, waiters, stalled, idle, out>>
  BY <1>1, Zenon DEF ServedWhenPossible, CheckedOut
<1>2. CASE serving' = (waiters' # <<>>)
  BY <1>2, Zenon DEF ServedWhenPossible
<1>3. CASE waiters' = <<>>
  BY <1>3, Zenon DEF ServedWhenPossible
<1>4. ASSUME NEW p \in Callers, Handle(p) PROVE ServedWhenPossible'
  <2>1. CASE HandleCheckin(p)
    BY <1>1, <1>2, <2>1, Zenon DEF HandleCheckin, tables
  <2>2. CASE HandleDiscard(p)
    BY <1>1, <1>2, <2>2, Zenon DEF HandleDiscard, Reclaim, tables
  <2>3. CASE HandleAbandoned(p)
    BY <1>2, <2>3, Zenon DEF HandleAbandoned
  <2> QED
    BY <1>4, <2>1, <2>2, <2>3, CheckoutServed, Zenon DEF Handle
<1>5. ASSUME Rounds PROVE ServedWhenPossible'
  <2>1. CASE ServeDead
    BY <1>2, <2>1, Zenon DEF ServeDead
  <2>2. ASSUME NEW c, NEW fresh, Serve(c, fresh) PROVE ServedWhenPossible'
    BY <1>2, <2>2, Zenon DEF Serve
  <2>3. CASE ServeExpired
    BY <2>3, Zenon DEF ServeExpired, InRound, ServedWhenPossible
  <2>4. CASE ServeNone
    <3>1. /\ idle = <<>> /\ idle' = taken /\ stalled' = (total < Capacity) /\ UNCHANGED out
      BY <2>4, Zenon DEF ServeNone
    <3>2. /\ total \in Nat /\ total = Cardinality(CheckedOut) /\ Len(taken) \in Nat
          /\ Capacity \in Nat /\ (Len(taken) = 0 => taken = <<>>)
      <4>1. Len(idle) = 0
        BY <3>1, EmptyFacts, Zenon
      <4>2. Cardinality(CheckedOut) \in Nat /\ Capacity \in Nat
        BY OutCount, Limits, Zenon
      <4>3. taken \in Seq(Conns)
        BY Zenon DEF TypeOK
      <4> QED
        BY <4>1, <4>2, <4>3, EmptyFacts DEF total
    <3>3. Len(taken) + Cardinality(CheckedOut) <= Capacity
      <4>1. Len(idle) = 0
        BY <3>1, EmptyFacts, Zenon
      <4> QED
        BY <3>2, <4>1 DEF TableInv, Room
    <3>4. stalled' \/ (taken = <<>> /\ Cardinality(CheckedOut) >= Capacity)
      <4>1. CASE total < Capacity
        <5>1. stalled' = (total < Capacity)
          BY <3>1, Zenon
        <5> QED
          BY <4>1, <5>1, Zenon
      <4>2. CASE ~(total < Capacity)
        BY <3>2, <3>3, <4>2
      <4> QED
        BY <4>1, <4>2, Zenon
    <3> QED
      BY <3>1, <3>4, Zenon DEF ServedWhenPossible, CheckedOut
  <2> QED
    BY <1>5, <2>1, <2>2, <2>3, <2>4, Zenon DEF Rounds, ServeParked, ServeOpened
<1>6. ASSUME NEW p \in Callers, WaiterDeparted(p) PROVE ServedWhenPossible'
  <2>1. waiters' = Without(waiters, p) /\ waiters \in Seq(Callers)
    BY <1>6, Zenon DEF WaiterDeparted, TypeOK
  <2>2. waiters' \in Seq(Callers) /\ Len(waiters') <= Len(waiters)
    BY <2>1, WithoutFacts, Zenon
  <2>3. waiters = <<>> => waiters' = <<>>
    BY <2>1, <2>2
  <2> QED
    BY <1>6, <2>3, Zenon DEF WaiterDeparted, ServedWhenPossible, tables, CheckedOut
<1>7. ASSUME NEW c \in Conns, ConnectionDied(c) \/ \E p \in Callers : OwnerDeparted(p, c)
      PROVE  ServedWhenPossible'
  BY <1>2, <1>7, Zenon DEF ConnectionDied, OwnerDeparted, Reclaim
<1>8. CASE Drain \/ DrainDeadline
  BY <1>1, <1>3, <1>8, Zenon DEF Drain, DrainDeadline, Sweep, tables
<1>9. ASSUME NEW c \in Conns, ConnectionDies(c) \/ ConnectionAges(c) PROVE ServedWhenPossible'
  BY <1>1, <1>9, Zenon DEF ConnectionDies, ConnectionAges
<1>10. ASSUME NEW p \in Callers,
              \/ Ask(p) \/ CheckoutTimeout(p) \/ Works(p)
              \/ SettleTimeout(p) \/ Crash(p) \/ Restart(p)
       PROVE  ServedWhenPossible'
  BY <1>1, <1>10, Zenon DEF Ask, CheckoutTimeout, Works, Ping, Exec, Settle, SettleTimeout, Crash,
                     Restart, poolVars, tables
<1>11. CASE UNCHANGED vars
  BY <1>1, <1>11, Zenon DEF vars, tables
<1> QED
  BY <1>4, <1>5, <1>6, <1>7, <1>8, <1>9, <1>10, <1>11, Zenon DEF Next
=============================================================================
