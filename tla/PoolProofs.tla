----------------------------- MODULE PoolProofs -----------------------------
(* Who holds a connection, and the theorems about Pool.                     *)
EXTENDS PoolTables

-----------------------------------------------------------------------------
(* Who holds a connection.                                                  *)

LEMMA MailTail ==
    ASSUME NEW m \in Seq(Messages), m # <<>>, KindsOK(m)
    PROVE  /\ Tail(m) \in Seq(Messages) /\ KindsOK(Tail(m))
           /\ Head(m).conn \in Conns <=> Head(m).kind \in {"checkin", "discard"}
           /\ \A c \in Conns :
                /\ Mentions(m, c) <=> Head(m).conn = c \/ Mentions(Tail(m), c)
                /\ Once(m, c) => Once(Tail(m), c)
                /\ Once(m, c) /\ Head(m).conn = c => ~Mentions(Tail(m), c)
<1>1. /\ Tail(m) \in Seq(Messages) /\ DOMAIN Tail(m) = 1..(Len(m) - 1) /\ DOMAIN m = 1..Len(m)
      /\ Len(m) \in Nat /\ Len(m) >= 1 /\ Head(m) = m[1]
      /\ \A i \in DOMAIN Tail(m) : Tail(m)[i] = m[i + 1] /\ i + 1 \in DOMAIN m
  OBVIOUS
<1>2. 1 \in DOMAIN m /\ \A i \in DOMAIN m : i = 1 \/ (i - 1 \in DOMAIN Tail(m) /\ m[i] = Tail(m)[i - 1])
  BY <1>1
<1>3. KindsOK(Tail(m))
  BY <1>1, Zenon DEF KindsOK
<1>4. Head(m).conn \in Conns <=> Head(m).kind \in {"checkin", "discard"}
  BY <1>1, <1>2, Zenon DEF KindsOK
<1>5. ASSUME NEW c \in Conns
      PROVE  Mentions(m, c) <=> Head(m).conn = c \/ Mentions(Tail(m), c)
  <2>1. Mentions(Tail(m), c) => Mentions(m, c)
    BY <1>1, Zenon DEF Mentions
  <2>2. Head(m).conn = c => Mentions(m, c)
    BY <1>1, <1>2, Zenon DEF Mentions
  <2>3. Mentions(m, c) => Head(m).conn = c \/ Mentions(Tail(m), c)
    BY <1>1, <1>2, Zenon DEF Mentions
  <2> QED
    BY <2>1, <2>2, <2>3, Zenon
<1>6. ASSUME NEW c \in Conns, Once(m, c)
      PROVE  Once(Tail(m), c) /\ (Head(m).conn = c => ~Mentions(Tail(m), c))
  <2>1. ASSUME NEW i \in DOMAIN Tail(m), NEW j \in DOMAIN Tail(m),
               Tail(m)[i].conn = c, Tail(m)[j].conn = c
        PROVE  i = j
    <3>1. i + 1 = j + 1
      BY <1>1, <1>6, <2>1 DEF Once
    <3> QED
      BY <1>1, <3>1
  <2>2. ASSUME Head(m).conn = c, NEW i \in DOMAIN Tail(m), Tail(m)[i].conn = c
        PROVE  FALSE
    <3>1. i + 1 = 1
      BY <1>1, <1>2, <1>6, <2>2, Zenon DEF Once
    <3> QED
      BY <1>1, <3>1
  <2> QED
    BY <2>1, <2>2, Zenon DEF Once, Mentions
<1> QED
  BY <1>1, <1>3, <1>4, <1>5, <1>6, Zenon

LEMMA MailAppend ==
    ASSUME NEW m \in Seq(Messages), NEW x \in Messages, KindsOK(m),
           x.conn \in Conns <=> x.kind \in {"checkin", "discard"}
    PROVE  /\ KindsOK(Append(m, x))
           /\ \A c \in Conns :
                /\ Mentions(Append(m, x), c) <=> x.conn = c \/ Mentions(m, c)
                /\ Once(m, c) /\ (x.conn = c => ~Mentions(m, c)) => Once(Append(m, x), c)
<1> DEFINE n == Append(m, x)
<1>1. /\ DOMAIN n = 1..(Len(m) + 1) /\ DOMAIN m = 1..Len(m) /\ Len(m) \in Nat
      /\ n[Len(m) + 1] = x /\ \A i \in DOMAIN m : n[i] = m[i]
  OBVIOUS
<1>2. /\ Len(m) + 1 \in DOMAIN n /\ DOMAIN m \subseteq DOMAIN n
      /\ \A i \in DOMAIN n : (i \in DOMAIN m /\ n[i] = m[i]) \/ (i = Len(m) + 1 /\ n[i] = x)
  BY <1>1
<1> HIDE DEF n
<1>3. KindsOK(n)
  BY <1>2, Zenon DEF KindsOK
<1>4. ASSUME NEW c \in Conns
      PROVE  Mentions(n, c) <=> x.conn = c \/ Mentions(m, c)
  BY <1>1, <1>2, Zenon DEF Mentions
<1>5. ASSUME NEW c \in Conns, Once(m, c), x.conn = c => ~Mentions(m, c)
      PROVE  Once(n, c)
  BY <1>1, <1>2, <1>5, Zenon DEF Once, Mentions
<1> QED
  BY <1>3, <1>4, <1>5, Zenon DEF n

\* A connection in the idle queue, or put aside by a round.
Near(c) == c \in Range(idle) \cup Range(taken)

\* The connections q's messages are about stay the same.
Talks(q) ==
    /\ KindsOK(mail'[q])
    /\ \A c \in Conns :
        /\ Mentions(mail'[q], c) <=> Mentions(mail[q], c)
        /\ Once(mail'[q], c)

\* The step does not concern q.
Keeps(q) == caller'[q] = caller[q] /\ Talks(q)

LEMMA KeepsOK ==
    ASSUME HoldInv, NEW q \in Callers, Keeps(q)
    PROVE  /\ CallerOK(q)'
           /\ \A c \in Conns :
                /\ Holds(q, c)' <=> Holds(q, c)
                /\ Uses(q, c)' => ~Mentions(mail'[q], c)
                /\ Once(mail'[q], c)
<1>1. CallerOK(q) /\ \A c \in Conns : HeldOK(q, c)
  BY Zenon DEF HoldInv
<1>2. CallerOK(q)'
  BY <1>1, Zenon DEF CallerOK, Keeps, Talks
<1>3. ASSUME NEW c \in Conns
      PROVE  /\ Holds(q, c)' <=> Holds(q, c)
             /\ Uses(q, c)' => ~Mentions(mail'[q], c)
  BY <1>1, Zenon DEF HeldOK, Holds, Uses, Keeps, Talks
<1> QED
  BY <1>2, <1>3, Zenon DEF Keeps, Talks

\* A connection stays where it was, or leaves the tables.
Stays(c) == (Near(c)' => Near(c)) /\ out'[c] \in {out[c], NoOne}

\* A step of the pool that concerns no caller.
LEMMA HoldFrame ==
    ASSUME HoldInv, \A q \in Callers : Keeps(q), \A c \in Conns : Stays(c),
           out \in [Conns -> Callers \cup {NoOne}],
           \A c \in Conns : out'[c] # NoOne /\ c \notin unheard' => c \notin unheard
    PROVE  HoldInv'
<1>1. ASSUME NEW q \in Callers, NEW c \in Conns PROVE HeldOK(q, c)'
  <2>1. HeldOK(q, c) /\ Stays(c)
    BY Zenon DEF HoldInv
  <2>2. Holds(q, c)' => Near(c) = FALSE /\ out[c] \in {q, NoOne}
    BY <2>1, KeepsOK DEF HeldOK, Near
  <2>3. Holds(q, c)' => ~Near(c)' /\ out'[c] \in {q, NoOne}
    BY <2>1, <2>2, Zenon DEF Stays
  <2> QED
    BY <2>3, KeepsOK, Zenon DEF HeldOK, Near
<1>2. ASSUME NEW c \in Conns PROVE UsedOK(c)'
  <2>1. UsedOK(c) /\ Stays(c)
    BY Zenon DEF HoldInv
  <2>2. CASE out'[c] # NoOne /\ c \notin unheard'
    <3>1. out'[c] = out[c] /\ c \notin unheard /\ out[c] \in Callers
      BY <2>1, <2>2, Zenon DEF Stays
    <3>2. Keeps(out[c])
      BY <3>1, Zenon
    <3> QED
      BY <2>1, <3>1, <3>2, Zenon DEF UsedOK, Keeps, Talks
  <2>3. CASE ~(out'[c] # NoOne /\ c \notin unheard')
    BY <2>3, Zenon DEF UsedOK
  <2> QED
    BY <2>2, <2>3, Zenon
<1> QED
  BY <1>1, <1>2, KeepsOK, Zenon DEF HoldInv

\* A connection changes hands: nobody but p holds it, and p only if it is in no queue and
\* checked out to nobody else.
Moves(p, c) ==
    /\ \A q \in Callers : q # p => ~Holds(q, c)
    /\ Holds(p, c)' => ~Near(c)' /\ out'[c] \in {p, NoOne}

\* What is checked out after the step is used, by p or as before.
Accounted(p, c) ==
    out'[c] # NoOne /\ c \notin unheard' =>
        \/ out'[c] # p /\ out'[c] = out[c] /\ c \notin unheard
        \/ /\ out'[c] = p
           /\ caller'[p].conn = c \/ caller'[p].pc = "dead" \/ Mentions(mail'[p], c)

\* A step that concerns caller p alone.
LEMMA HoldOne ==
    ASSUME HoldInv, NEW p \in Callers, \A q \in Callers : q # p => Keeps(q),
           out \in [Conns -> Callers \cup {NoOne}], CallerOK(p)',
           \A c \in Conns : Once(mail'[p], c) /\ (Uses(p, c)' => ~Mentions(mail'[p], c)),
           \A c \in Conns : (Stays(c) /\ (Holds(p, c)' => Holds(p, c))) \/ Moves(p, c),
           \A c \in Conns : Accounted(p, c)
    PROVE  HoldInv'
<1>1. ASSUME NEW q \in Callers, q # p, NEW c \in Conns PROVE HeldOK(q, c)'
  <2>1. HeldOK(q, c) /\ Keeps(q)
    BY <1>1, Zenon DEF HoldInv
  <2>2. Holds(q, c)' => Near(c) = FALSE /\ out[c] \in {q, NoOne} /\ Holds(q, c)
    BY <2>1, KeepsOK DEF HeldOK, Near
  <2>3. Holds(q, c)' => ~Near(c)' /\ out'[c] \in {q, NoOne}
    BY <1>1, <2>2, Zenon DEF Stays, Moves
  <2> QED
    BY <2>1, <2>3, KeepsOK, Zenon DEF HeldOK, Near
<1>2. ASSUME NEW c \in Conns PROVE HeldOK(p, c)'
  <2>1. HeldOK(p, c)
    BY Zenon DEF HoldInv
  <2>2. Holds(p, c) => Near(c) = FALSE /\ out[c] \in {p, NoOne}
    BY <2>1 DEF HeldOK, Near
  <2>3. Holds(p, c)' => ~Near(c)' /\ out'[c] \in {p, NoOne}
    BY <2>2, Zenon DEF Stays, Moves
  <2> QED
    BY <2>3, Zenon DEF HeldOK, Near
<1>3. ASSUME NEW c \in Conns PROVE UsedOK(c)'
  <2>1. UsedOK(c) /\ Accounted(p, c)
    BY Zenon DEF HoldInv
  <2>2. CASE out'[c] # NoOne /\ c \notin unheard' /\ out'[c] # p
    <3>1. out'[c] = out[c] /\ c \notin unheard /\ out[c] \in Callers
      BY <2>1, <2>2, Zenon DEF Accounted
    <3>2. Keeps(out[c])
      BY <2>2, <3>1, Zenon
    <3> QED
      BY <2>1, <3>1, <3>2, Zenon DEF UsedOK, Keeps, Talks
  <2>3. CASE out'[c] # NoOne /\ c \notin unheard' /\ out'[c] = p
    BY <2>1, <2>3, Zenon DEF UsedOK, Accounted
  <2>4. CASE ~(out'[c] # NoOne /\ c \notin unheard')
    BY <2>4, Zenon DEF UsedOK
  <2> QED
    BY <2>2, <2>3, <2>4, Zenon
<1>4. \A q \in Callers : CallerOK(q)'
  BY KeepsOK, Zenon
<1> QED
  BY <1>1, <1>2, <1>3, <1>4, Zenon DEF HoldInv

LEMMA SameTalk ==
    ASSUME HoldInv, NEW q \in Callers, mail'[q] = mail[q]
    PROVE  Talks(q)
<1>1. KindsOK(mail[q]) /\ \A c \in Conns : Once(mail[q], c)
  BY Zenon DEF HoldInv, CallerOK, HeldOK
<1> QED
  BY <1>1, Zenon DEF Talks

\* A checkout or the notice of an abandoned one, handled or sent, is about no connection.
LEMMA NoticeTalk ==
    ASSUME TypeOK, HoldInv, NEW p \in Callers,
           \/ (Due(p, "checkout") \/ Due(p, "abandoned")) /\ Consume(p)
           \/ \E x \in {Checkout, Abandoned} : mail' = [mail EXCEPT ![p] = Append(@, x)]
    PROVE  \A q \in Callers : Talks(q)
<1>1. mail[p] \in Seq(Messages) /\ KindsOK(mail[p]) /\ \A c \in Conns : Once(mail[p], c)
  BY Zenon DEF TypeOK, HoldInv, CallerOK, HeldOK
<1>2. ASSUME NEW q \in Callers, q # p PROVE Talks(q)
  <2>1. mail'[q] = mail[q]
    BY <1>2, Zenon DEF Consume, TypeOK
  <2> QED
    BY <2>1, SameTalk, Zenon
<1>3. ASSUME Due(p, "checkout") \/ Due(p, "abandoned"), Consume(p) PROVE Talks(p)
  <2>1. /\ mail[p] # <<>> /\ Head(mail[p]).kind \notin {"checkin", "discard"}
        /\ mail'[p] = Tail(mail[p])
    BY <1>3, Zenon DEF Due, Consume, TypeOK
  <2>2. Head(mail[p]).conn \notin Conns
    BY <1>1, <2>1, MailTail, Zenon
  <2> QED
    BY <1>1, <2>1, <2>2, MailTail DEF Talks
<1>4. ASSUME NEW x \in {Checkout, Abandoned}, mail' = [mail EXCEPT ![p] = Append(@, x)]
      PROVE  Talks(p)
  <2>1. mail'[p] = Append(mail[p], x)
    BY <1>4, Zenon DEF TypeOK
  <2>2. x \in Messages
    BY RecordTypes, Zenon
  <2>3. x.conn \notin Conns /\ x.kind \notin {"checkin", "discard"}
    BY Limits DEF Checkout, Abandoned
  <2> QED
    BY <1>1, <2>1, <2>2, <2>3, MailAppend DEF Talks
<1> QED
  BY <1>2, <1>3, <1>4, Zenon

\* What the history of unheard grants forgets is no longer checked out.
Unheard == \A c \in Conns : out'[c] # NoOne /\ c \notin unheard' => c \notin unheard

\* Caller p ends up with no connection.
LEMMA HoldLets ==
    ASSUME TypeOK, HoldInv, NEW p \in Callers, \A q \in Callers : Talks(q),
           \A q \in Callers : q # p => caller'[q] = caller[q],
           caller'[p].pc \in {"idle", "asking", "dead"}, caller'[p].conn = NoOne,
           \A c \in Conns : Stays(c), Unheard,
           \A c \in Conns : out[c] = p /\ c \notin unheard =>
              caller'[p].pc = "dead" \/ Mentions(mail[p], c)
    PROVE  HoldInv'
<1>1. CallerOK(p)'
  BY Zenon DEF CallerOK, Talks, Using
<1>2. ASSUME NEW c \in Conns
      PROVE  Once(mail'[p], c) /\ ~Uses(p, c)' /\ (Holds(p, c)' => Holds(p, c))
  BY Zenon DEF Talks, Uses, Holds, Using
<1>3. ASSUME NEW c \in Conns PROVE Accounted(p, c)
  <2>1. Stays(c) /\ (Mentions(mail'[p], c) <=> Mentions(mail[p], c))
    BY Zenon DEF Talks
  <2> QED
    BY <2>1, Zenon DEF Stays, Accounted, Unheard
<1>4. \A q \in Callers : q # p => Keeps(q)
  BY Zenon DEF Keeps
<1>5. out \in [Conns -> Callers \cup {NoOne}]
  BY Zenon DEF TypeOK
<1> QED
  BY <1>1, <1>2, <1>3, <1>4, <1>5, HoldOne, Zenon

\* Connection c is given to p, which receives it if it still waits for it.
Heard(p, c) ==
    /\ caller[p].pc = "asking" /\ unheard' = unheard \ {c}
    /\ \E fresh \in BOOLEAN : caller' = Receives(p, c, fresh)
Given(p, c) ==
    /\ out' = [out EXCEPT ![c] = p]
    /\ Heard(p, c) \/ (UNCHANGED caller /\ unheard' = unheard \cup {c})

\* A connection nobody holds is given to p.
LEMMA HoldGrant ==
    ASSUME TypeOK, HoldInv, NEW p \in Callers, NEW c \in Conns, \A q \in Callers : Talks(q),
           \A q \in Callers : ~Holds(q, c), ~Near(c)', \A d \in Conns : Near(d)' => Near(d),
           Given(p, c)
    PROVE  HoldInv'
<1>1. out \in [Conns -> Callers \cup {NoOne}] /\ caller \in [Callers -> Caller]
  BY Zenon DEF TypeOK
<1>2. /\ out'[c] = p /\ \A d \in Conns : d # c => out'[d] = out[d]
      /\ Heard(p, c) => c \notin unheard' /\ \A d \in Conns : d # c => (d \in unheard' <=> d \in unheard)
      /\ ~Heard(p, c) => c \in unheard' /\ \A d \in Conns : d # c => (d \in unheard' <=> d \in unheard)
  BY <1>1, Zenon DEF Given, Heard
<1>3. \A q \in Callers : q # p => caller'[q] = caller[q]
  BY <1>1, Zenon DEF Given, Heard, Receives
<1>4. /\ Heard(p, c) => caller'[p].pc \in {"exec", "ping"} /\ caller'[p].conn = c
      /\ ~Heard(p, c) => caller'[p] = caller[p]
  <2>1. ASSUME Heard(p, c) PROVE caller'[p].pc \in {"exec", "ping"} /\ caller'[p].conn = c
    <3>1. PICK fresh \in BOOLEAN : caller' = Receives(p, c, fresh)
      BY <2>1, Zenon DEF Heard
    <3>2. caller'[p] = [[caller[p] EXCEPT !.pc = IF fresh THEN "exec" ELSE "ping"] EXCEPT !.conn = c]
      BY <1>1, <3>1, Zenon DEF Receives
    <3>3. caller[p] \in Caller
      BY <1>1, Zenon
    <3> QED
      BY <3>2, <3>3, Zenon DEF Caller
  <2> QED
    BY <2>1, Zenon DEF Given
<1>5. CallerOK(p) /\ \A d \in Conns : HeldOK(p, d) /\ UsedOK(d)
  BY Zenon DEF HoldInv
<1>6. CallerOK(p)'
  <2>1. CASE Heard(p, c)
    BY <1>4, <2>1, Zenon DEF CallerOK, Talks, Using
  <2>2. CASE ~Heard(p, c)
    BY <1>4, <1>5, <2>2, Zenon DEF CallerOK, Talks, Using
  <2> QED
    BY <2>1, <2>2, Zenon
<1>7. ASSUME NEW d \in Conns
      PROVE  /\ Once(mail'[p], d) /\ (Uses(p, d)' => ~Mentions(mail'[p], d))
             /\ (Stays(d) /\ (Holds(p, d)' => Holds(p, d))) \/ Moves(p, d)
  <2>1. Talks(p) /\ HeldOK(p, d)
    BY <1>5, Zenon
  <2>2. CASE d = c
    <3>1. ~Mentions(mail'[p], c) /\ Once(mail'[p], c)
      BY <2>1, <2>2, Zenon DEF Talks, Holds
    <3>2. Moves(p, c)
      BY <1>2, Zenon DEF Moves
    <3> QED
      BY <2>2, <3>1, <3>2, Zenon
  <2>3. CASE d # c
    <3>1. Stays(d)
      BY <1>2, <2>3, Zenon DEF Stays
    <3>2. Uses(p, d)' => Uses(p, d)
      BY <1>4, <2>3, Zenon DEF Uses
    <3> QED
      BY <2>1, <3>1, <3>2, Zenon DEF Talks, HeldOK, Holds
  <2> QED
    BY <2>2, <2>3, Zenon
<1>8. ASSUME NEW d \in Conns PROVE Accounted(p, d)
  <2>1. CASE d = c
    BY <1>2, <1>4, <2>1, Zenon DEF Accounted
  <2>2. CASE d # c
    <3>1. out'[d] = out[d] /\ (d \in unheard' <=> d \in unheard)
      BY <1>2, <2>2, Zenon
    <3>2. CASE Heard(p, c)
      <4>1. caller[p].conn # d /\ caller[p].pc # "dead"
        BY <1>5, <3>2, Limits, Zenon DEF CallerOK, Heard
      <4> QED
        BY <1>5, <3>1, <4>1, Zenon DEF Accounted, UsedOK, Talks
    <3>3. CASE ~Heard(p, c)
      BY <1>4, <1>5, <3>1, <3>3, Zenon DEF Accounted, UsedOK, Talks
    <3> QED
      BY <3>2, <3>3, Zenon
  <2> QED
    BY <2>1, <2>2, Zenon
<1>9. \A q \in Callers : q # p => Keeps(q)
  BY <1>3, Zenon DEF Keeps
<1> QED
  BY <1>1, <1>6, <1>7, <1>8, <1>9, HoldOne

\* A name nobody remembers, and a parked connection, are held by nobody.
LEMMA Unheld ==
    ASSUME TypeOK, TableInv, HoldInv, NEW c \in Conns, c \in Free \/ c \in Range(idle)
    PROVE  /\ \A q \in Callers : ~Holds(q, c)
           /\ c \in Free => ~Near(c)
<1>1. CASE c \in Range(idle)
  <2>1. \A q \in Callers : ~Holds(q, c)
    BY <1>1, Zenon DEF HoldInv, HeldOK
  <2>2. c \notin Free
    BY <1>1, Zenon DEF TableInv, Tracked, Free
  <2> QED
    BY <2>1, <2>2, Zenon
<1>2. CASE c \in Free
  <2>1. ~Near(c)
    BY <1>2, Zenon DEF TableInv, Tracked, Free, Near
  <2>2. ASSUME NEW q \in Callers PROVE ~Holds(q, c)
    <3>1. caller[q].conn # c /\ \A m \in Range(mail[q]) : m.conn # c
      BY <1>2, Zenon DEF Free
    <3>2. ~Mentions(mail[q], c)
      BY <3>1, Zenon DEF Mentions, Range
    <3> QED
      BY <3>1, <3>2, Zenon DEF Holds, Uses
  <2> QED
    BY <2>1, <2>2, Zenon
<1> QED
  BY <1>1, <1>2, Zenon

\* What is left of the idle queue.
LEMMA TailNear ==
    ASSUME TypeOK, TableInv, idle # <<>>
    PROVE  /\ Head(idle) \in Conns /\ Head(idle) \in Range(idle)
           /\ Head(idle) \notin Range(Tail(idle)) /\ Range(Tail(idle)) \subseteq Range(idle)
<1>1. idle \in Seq(Conns) /\ IsInjective(idle)
  BY Zenon DEF TypeOK, TableInv, Tracked
<1> QED
  BY <1>1, TailFacts

LEMMA ShrunkNear ==
    ASSUME TypeOK, TableInv, NEW rest, NEW gone, Shrunk(rest, gone), idle' = rest, UNCHANGED taken
    PROVE  \A d \in Conns : Near(d)' => Near(d)
<1>1. Range(rest) \subseteq Range(idle)
  BY TailNear, Zenon DEF Shrunk
<1> QED
  BY <1>1, Zenon DEF Near

LEMMA ErrorHold ==
    ASSUME TypeOK, HoldInv, NEW p \in Callers, CheckoutError(p), \A q \in Callers : Talks(q),
           UNCHANGED <<out, unheard>>, \A d \in Conns : Near(d)' => Near(d)
    PROVE  HoldInv'
<1>1. out \in [Conns -> Callers \cup {NoOne}] /\ caller \in [Callers -> Caller]
  BY Zenon DEF TypeOK
<1>2. Unheard /\ \A c \in Conns : Stays(c)
  BY Zenon DEF Unheard, Stays
<1>3. CASE Current(p)
  <2>1. caller'[p] = IdleCaller /\ \A q \in Callers : q # p => caller'[q] = caller[q]
    BY <1>1, <1>3, Zenon DEF CheckoutError
  <2>2. caller'[p].pc = "idle" /\ caller'[p].conn = NoOne
    BY <2>1 DEF IdleCaller
  <2>3. caller[p].pc = "asking" /\ caller[p].conn = NoOne
    BY <1>3, Zenon DEF Current, HoldInv, CallerOK
  <2>4. \A c \in Conns : out[c] = p /\ c \notin unheard => Mentions(mail[p], c)
    BY <2>3, Limits, Zenon DEF HoldInv, UsedOK
  <2> QED
    BY <1>2, <2>1, <2>2, <2>4, HoldLets, Zenon
<1>4. CASE ~Current(p)
  <2>1. \A q \in Callers : Keeps(q)
    BY <1>4, Zenon DEF CheckoutError, Keeps
  <2> QED
    BY <1>1, <1>2, <2>1, HoldFrame, Zenon DEF Unheard
<1> QED
  BY <1>3, <1>4, Zenon

LEMMA CheckoutHold ==
    ASSUME TypeOK, TableInv, HoldInv, NEW p \in Callers, HandleCheckout(p)
    PROVE  HoldInv'
<1>1. UNCHANGED taken /\ Due(p, "checkout") /\ Consume(p)
  BY CheckoutCases, Zenon
<1>2. \A q \in Callers : Talks(q)
  BY <1>1, NoticeTalk, Zenon
<1>3. CASE CheckoutError(p) /\ UNCHANGED <<tables, waiters>>
  BY <1>1, <1>2, <1>3, ErrorHold, Zenon DEF tables, Near
<1>4. ASSUME NEW c \in Conns, NEW gone, NEW fresh \in BOOLEAN, Hand(c, p, gone, Current(p)),
             caller' = IF Current(p) THEN Receives(p, c, fresh) ELSE caller
      PROVE  Given(p, c)
  <2>1. CASE Current(p)
    BY <1>4, <2>1, Zenon DEF Hand, Given, Heard, Current
  <2>2. CASE ~Current(p)
    BY <1>4, <2>2, Zenon DEF Hand, Given
  <2> QED
    BY <2>1, <2>2, Zenon
<1>5. CASE GrantParked(p)
  <2>1. /\ idle # <<>> /\ idle' = Tail(idle) /\ Hand(Head(idle), p, {}, Current(p))
        /\ caller' = IF Current(p) THEN Receives(p, Head(idle), FALSE) ELSE caller
    BY <1>5, Zenon DEF GrantParked
  <2>2. PICK c \in Conns : c = Head(idle)
    BY <2>1, TailNear, Zenon
  <2>3. c \in Range(idle) /\ c \notin Range(idle') /\ Range(idle') \subseteq Range(idle)
    BY <2>1, <2>2, TailNear, Zenon
  <2>4. c \notin Range(taken)
    BY <2>3, Zenon DEF TableInv, TakenApart, Tracked
  <2>5. ~Near(c)' /\ \A d \in Conns : Near(d)' => Near(d)
    BY <1>1, <2>3, <2>4, Zenon DEF Near
  <2>6. Given(p, c)
    BY <1>4, <2>1, <2>2, Zenon
  <2> QED
    BY <1>2, <2>3, <2>5, <2>6, Unheld, HoldGrant, Zenon
<1>6. ASSUME NEW rest, NEW gone, Shrunk(rest, gone), NEW c \in Free, GrantNew(p, c, rest, gone)
      PROVE  HoldInv'
  <2>1. /\ idle' = rest /\ Hand(c, p, gone, Current(p))
        /\ caller' = IF Current(p) THEN Receives(p, c, TRUE) ELSE caller
    BY <1>6, Zenon DEF GrantNew
  <2>2. c \in Conns
    BY <1>6, Zenon DEF Free
  <2>3. Given(p, c)
    BY <1>4, <2>1, <2>2, Zenon
  <2>4. \A d \in Conns : Near(d)' => Near(d)
    BY <1>1, <1>6, <2>1, ShrunkNear, Zenon
  <2> QED
    BY <1>2, <1>6, <2>2, <2>3, <2>4, Unheld, HoldGrant, Zenon
<1>7. ASSUME NEW rest, NEW gone, Shrunk(rest, gone), GrantError(p, rest, gone)
      PROVE  HoldInv'
  <2>1. idle' = rest /\ CheckoutError(p) /\ UNCHANGED <<out, unheard>>
    BY <1>7, Zenon DEF GrantError, Dropped
  <2> QED
    BY <1>1, <1>2, <1>7, <2>1, ShrunkNear, ErrorHold, Zenon
<1>8. ASSUME NEW rest, NEW gone, Shrunk(rest, gone), Queued(p, rest, gone)
      PROVE  HoldInv'
  <2>1. idle' = rest /\ UNCHANGED <<out, unheard, caller>>
    BY <1>8, Zenon DEF Queued, Dropped
  <2>2. \A c \in Conns : Stays(c)
    BY <1>1, <1>8, <2>1, ShrunkNear, Zenon DEF Stays
  <2>3. \A q \in Callers : Keeps(q)
    BY <1>2, <2>1, Zenon DEF Keeps
  <2>4. out \in [Conns -> Callers \cup {NoOne}]
    BY Zenon DEF TypeOK
  <2> QED
    BY <2>1, <2>2, <2>3, <2>4, HoldFrame, Zenon
<1> QED
  BY <1>3, <1>5, <1>6, <1>7, <1>8, CheckoutCases, Zenon

\* The reply to a check-in or discard of c.
LEMMA Answered ==
    ASSUME TypeOK, HoldInv, NEW p \in Callers, mail[p] # <<>>, Settled(p),
           NEW c \in Conns, c = Head(mail[p]).conn
    PROVE  /\ \A q \in Callers : q # p => Keeps(q)
           /\ Mentions(mail[p], c) /\ KindsOK(mail'[p])
           /\ \A d \in Conns :
                /\ Mentions(mail'[p], d) <=> d # c /\ Mentions(mail[p], d)
                /\ Once(mail'[p], d)
           /\ \/ caller'[p] = caller[p] /\ caller[p].pc # "settling"
              \/ /\ caller[p].pc = "settling" /\ caller'[p].pc \in {"idle", "asking"}
                 /\ caller'[p].conn = NoOne
<1>1. mail[p] \in Seq(Messages) /\ KindsOK(mail[p]) /\ \A d \in Conns : Once(mail[p], d)
  BY Zenon DEF TypeOK, HoldInv, CallerOK, HeldOK
<1>2. caller \in [Callers -> Caller] /\ mail \in [Callers -> Seq(Messages)]
  BY Zenon DEF TypeOK
<1>3. \A q \in Callers : q # p => caller'[q] = caller[q] /\ mail'[q] = mail[q]
  BY <1>2, Zenon DEF Settled, Consume
<1>4. \A q \in Callers : q # p => Keeps(q)
  BY <1>3, SameTalk, Zenon DEF Keeps
<1>5. mail'[p] = Tail(mail[p]) \/ mail'[p] = Append(Tail(mail[p]), Checkout)
  BY <1>2, Zenon DEF Settled, Consume
<1>6. \/ caller'[p] = caller[p] /\ caller[p].pc # "settling"
      \/ /\ caller[p].pc = "settling" /\ caller'[p].pc \in {"idle", "asking"}
         /\ caller'[p].conn = NoOne
  BY <1>2 DEF Settled, IdleCaller
<1>7. /\ Tail(mail[p]) \in Seq(Messages) /\ KindsOK(Tail(mail[p])) /\ Mentions(mail[p], c)
      /\ \A d \in Conns :
            /\ Mentions(Tail(mail[p]), d) <=> d # c /\ Mentions(mail[p], d)
            /\ Once(Tail(mail[p]), d)
  BY <1>1, MailTail, Zenon
<1>8. Checkout \in Messages /\ Checkout.conn \notin Conns /\ Checkout.kind \notin {"checkin", "discard"}
  BY RecordTypes, Limits, Zenon DEF Checkout
<1>9. /\ KindsOK(mail'[p])
      /\ \A d \in Conns :
            /\ Mentions(mail'[p], d) <=> d # c /\ Mentions(mail[p], d)
            /\ Once(mail'[p], d)
  <2>1. CASE mail'[p] = Tail(mail[p])
    BY <1>7, <2>1, Zenon
  <2>2. CASE mail'[p] = Append(Tail(mail[p]), Checkout)
    <3>1. PICK t \in Seq(Messages) : t = Tail(mail[p])
      BY <1>7, Zenon
    <3>2. /\ KindsOK(Append(t, Checkout))
          /\ \A d \in Conns :
                /\ Mentions(Append(t, Checkout), d) <=> Checkout.conn = d \/ Mentions(t, d)
                /\ Once(t, d) /\ (Checkout.conn = d => ~Mentions(t, d)) => Once(Append(t, Checkout), d)
      BY <1>7, <1>8, <3>1, MailAppend, Zenon
    <3>3. \A d \in Conns : Checkout.conn # d
      BY <1>8, Zenon
    <3> QED
      BY <1>7, <2>2, <3>1, <3>2, <3>3, Zenon
  <2> QED
    BY <1>5, <2>1, <2>2, Zenon
<1> QED
  BY <1>4, <1>6, <1>7, <1>9, Zenon

LEMMA ReturnHold ==
    ASSUME TypeOK, HoldInv, NEW p \in Callers, HandleCheckin(p) \/ HandleDiscard(p)
    PROVE  HoldInv'
<1>1. KindsOK(mail[p]) /\ CallerOK(p) /\ \A d \in Conns : HeldOK(p, d) /\ UsedOK(d)
  BY Zenon DEF HoldInv, CallerOK
<1>2. PICK c \in Conns :
            /\ c = Head(mail[p]).conn /\ mail[p] # <<>> /\ Settled(p) /\ UNCHANGED taken
            /\ \/ out[c] = NoOne /\ UNCHANGED <<out, unheard, idle>>
               \/ /\ out[c] # NoOne /\ out' = [out EXCEPT ![c] = NoOne]
                  /\ unheard' = unheard \ {c}
                  /\ idle' = idle \/ idle' = Append(idle, c)
  BY <1>1, ReturnCases, Zenon DEF tables
<1>3. /\ \A q \in Callers : q # p => Keeps(q)
      /\ Mentions(mail[p], c) /\ KindsOK(mail'[p])
      /\ \A d \in Conns :
            /\ Mentions(mail'[p], d) <=> d # c /\ Mentions(mail[p], d)
            /\ Once(mail'[p], d)
      /\ \/ caller'[p] = caller[p] /\ caller[p].pc # "settling"
         \/ /\ caller[p].pc = "settling" /\ caller'[p].pc \in {"idle", "asking"}
            /\ caller'[p].conn = NoOne
  BY <1>2, Answered, Zenon
<1>4. out \in [Conns -> Callers \cup {NoOne}] /\ idle \in Seq(Conns)
  BY Zenon DEF TypeOK
<1>5. /\ out'[c] = NoOne
      /\ \A d \in Conns : d # c =>
            out'[d] = out[d] /\ (d \in unheard' <=> d \in unheard) /\ (Near(d)' => Near(d))
  <2>1. out'[c] = NoOne /\ \A d \in Conns : d # c => out'[d] = out[d] /\ (d \in unheard' <=> d \in unheard)
    BY <1>2, <1>4, Zenon
  <2>2. Range(idle') \subseteq Range(idle) \cup {c}
    <3>1. Range(Append(idle, c)) = Range(idle) \cup {c}
      BY <1>4, AppendFacts
    <3> QED
      BY <1>2, <3>1, Zenon
  <2>3. \A d \in Conns : d # c => (Near(d)' => Near(d))
    BY <1>2, <2>2, Zenon DEF Near
  <2> QED
    BY <2>1, <2>3, Zenon
<1>6. CallerOK(p)'
  BY <1>1, <1>3, Zenon DEF CallerOK, Using
<1>7. \A d \in Conns : Uses(p, d)' => Uses(p, d)
  BY <1>3, Zenon DEF Uses, Using
<1>8. ASSUME NEW d \in Conns PROVE Once(mail'[p], d) /\ (Uses(p, d)' => ~Mentions(mail'[p], d))
  BY <1>1, <1>3, <1>7, Zenon DEF HeldOK
<1>9. ~Holds(p, c)'
  BY <1>1, <1>3, <1>7, Zenon DEF HeldOK, Holds
<1>10. ASSUME NEW d \in Conns
       PROVE  (Stays(d) /\ (Holds(p, d)' => Holds(p, d))) \/ Moves(p, d)
  <2>1. CASE d # c
    <3>1. Stays(d)
      BY <1>5, <2>1, Zenon DEF Stays
    <3>2. Holds(p, d)' => Holds(p, d)
      BY <1>3, <1>7, Zenon DEF Holds
    <3> QED
      BY <3>1, <3>2, Zenon
  <2>2. CASE d = c /\ out[c] = NoOne
    <3>1. Stays(c)
      BY <1>2, <2>2, Zenon DEF Stays, Near
    <3> QED
      BY <1>9, <2>2, <3>1, Zenon
  <2>3. CASE d = c /\ out[c] # NoOne
    <3>1. out[c] = p
      BY <1>1, <1>3, <2>3, Zenon DEF HeldOK, Holds
    <3>2. \A q \in Callers : q # p => ~Holds(q, c)
      BY <2>3, <3>1, Zenon DEF HoldInv, HeldOK
    <3> QED
      BY <1>9, <2>3, <3>2, Zenon DEF Moves
  <2> QED
    BY <2>1, <2>2, <2>3, Zenon
<1>11. ASSUME NEW d \in Conns PROVE Accounted(p, d)
  <2>1. CASE d = c
    BY <1>5, <2>1, Zenon DEF Accounted
  <2>2. CASE d # c
    <3>1. out'[d] = out[d] /\ (d \in unheard' <=> d \in unheard)
      BY <1>5, <2>2, Zenon
    <3>2. Mentions(mail[p], d) => Mentions(mail'[p], d)
      BY <1>3, <2>2, Zenon
    <3>3. UsedOK(d)
      BY <1>1, Zenon
    <3>4. CASE caller'[p] = caller[p]
      BY <3>1, <3>2, <3>3, <3>4, Zenon DEF Accounted, UsedOK
    <3>5. CASE caller[p].pc = "settling"
      BY <1>1, <3>1, <3>2, <3>3, <3>5 DEF Accounted, UsedOK, CallerOK
    <3> QED
      BY <1>3, <3>4, <3>5, Zenon
  <2> QED
    BY <2>1, <2>2, Zenon
<1> QED
  BY <1>3, <1>4, <1>6, <1>8, <1>10, <1>11, HoldOne

LEMMA RoundHold ==
    ASSUME TypeOK, Round, TableInv, HoldInv, Rounds
    PROVE  HoldInv'
<1>1. out \in [Conns -> Callers \cup {NoOne}]
  BY Zenon DEF TypeOK
<1>2. PICK p \in Callers : p = Head(waiters)
  BY RoundHasWaiter, Zenon
<1>3. UNCHANGED mail
  BY Zenon DEF Rounds, ServeDead, ServeParked, ServeExpired, ServeOpened, ServeNone, Serve
<1>4. \A q \in Callers : Talks(q)
  BY <1>3, SameTalk, Zenon
<1>5. ASSUME UNCHANGED <<caller, out, unheard>>, \A c \in Conns : Near(c)' => Near(c) PROVE HoldInv'
  <2>1. \A q \in Callers : Keeps(q)
    BY <1>4, <1>5, Zenon DEF Keeps
  <2>2. \A c \in Conns : Stays(c)
    BY <1>5, Zenon DEF Stays
  <2> QED
    BY <1>1, <1>5, <2>1, <2>2, HoldFrame, Zenon
<1>6. CASE ServeDead
  BY <1>5, <1>6, Zenon DEF ServeDead, tables, Near
<1>7. CASE ServeExpired
  <2>1. PICK c \in Conns : c = Head(idle)
    BY <1>7, TailNear, Zenon DEF ServeExpired
  <2>2. /\ idle # <<>> /\ idle' = Tail(idle) /\ taken' = Append(taken, c)
        /\ UNCHANGED <<caller, out, unheard>>
    BY <1>7, <2>1, Zenon DEF ServeExpired
  <2>3. Range(idle') \subseteq Range(idle) /\ c \in Range(idle)
    BY <2>1, <2>2, TailNear, Zenon
  <2>4. Range(taken') = Range(taken) \cup {c}
    BY <2>2, AppendFacts DEF TypeOK
  <2> QED
    BY <1>5, <2>2, <2>3, <2>4, Zenon DEF Near
<1>8. CASE ServeNone
  <2>1. idle' = taken /\ taken' = <<>> /\ UNCHANGED <<caller, out, unheard>>
    BY <1>8, Zenon DEF ServeNone
  <2>2. Range(taken') = {}
    BY <2>1, EmptyFacts, Zenon
  <2> QED
    BY <1>5, <2>1, <2>2, Zenon DEF Near
<1>9. ASSUME NEW c \in Conns, NEW fresh \in BOOLEAN, Serve(c, fresh),
             \A q \in Callers : ~Holds(q, c),
             c \notin Range(idle'), Range(idle') \subseteq Range(idle)
      PROVE  HoldInv'
  <2>1. Range(taken') = {}
    BY <1>9, EmptyFacts, Zenon DEF Serve
  <2>2. ~Near(c)' /\ \A d \in Conns : Near(d)' => Near(d)
    BY <1>9, <2>1, Zenon DEF Near
  <2>3. CASE Listening(p)
    <3>1. Given(p, c)
      BY <1>2, <1>9, <2>3 DEF Serve, Hand, Given, Heard, Listening
    <3> QED
      BY <1>4, <1>9, <2>2, <3>1, HoldGrant
  <2>4. CASE ~Listening(p)
    <3>1. Given(p, c)
      BY <1>2, <1>9, <2>4, Zenon DEF Serve, Hand, Given
    <3> QED
      BY <1>4, <1>9, <2>2, <3>1, HoldGrant, Zenon
  <2> QED
    BY <2>3, <2>4, Zenon
<1>10. CASE ServeParked
  <2>1. PICK c \in Conns : c = Head(idle)
    BY <1>10, TailNear, Zenon DEF ServeParked
  <2>2. idle # <<>> /\ idle' = Tail(idle) /\ Serve(c, FALSE)
    BY <1>10, <2>1, Zenon DEF ServeParked
  <2>3. c \in Range(idle) /\ c \notin Range(idle') /\ Range(idle') \subseteq Range(idle)
    BY <2>1, <2>2, TailNear, Zenon
  <2> QED
    BY <1>9, <2>2, <2>3, Unheld, Zenon
<1>11. CASE ServeOpened
  <2>1. PICK c \in Free : Serve(c, TRUE)
    BY <1>11, Zenon DEF ServeOpened
  <2>2. c \in Conns /\ UNCHANGED idle
    BY <1>11, Zenon DEF ServeOpened, Free
  <2>3. (\A q \in Callers : ~Holds(q, c)) /\ ~Near(c)
    BY <2>2, Unheld, Zenon
  <2> QED
    BY <1>9, <2>1, <2>2, <2>3, Zenon DEF Near
<1> QED
  BY <1>6, <1>7, <1>8, <1>10, <1>11, Zenon DEF Rounds

\* The pool takes note of a death, or sweeps its tables.
LEMMA DeathHold ==
    ASSUME TypeOK, Round, HoldInv,
           \/ \E c \in Conns : ConnectionDied(c) \/ \E p \in Callers : OwnerDeparted(p, c)
           \/ \E p \in Callers : WaiterDeparted(p)
           \/ \E c \in Conns : ConnectionDies(c) \/ ConnectionAges(c)
           \/ Drain \/ DrainDeadline \/ UNCHANGED vars
    PROVE  HoldInv'
<1>1. out \in [Conns -> Callers \cup {NoOne}] /\ idle \in Seq(Conns)
  BY Zenon DEF TypeOK
<1>2. UNCHANGED <<mail, taken>>
  BY Zenon
     DEF ConnectionDied, OwnerDeparted, WaiterDeparted, ConnectionDies, ConnectionAges, Drain,
         DrainDeadline, vars
<1>3. \A q \in Callers : Talks(q)
  BY <1>2, SameTalk, Zenon
<1>4. ASSUME UNCHANGED caller, Range(idle') \subseteq Range(idle),
             \/ UNCHANGED <<out, unheard>>
             \/ \E c \in Conns : out' = [out EXCEPT ![c] = NoOne] /\ unheard' = unheard \ {c}
      PROVE  HoldInv'
  <2>1. \A q \in Callers : Keeps(q)
    BY <1>3, <1>4, Zenon DEF Keeps
  <2>2. \A c \in Conns : Stays(c)
    BY <1>1, <1>2, <1>4, Zenon DEF Stays, Near
  <2>3. \A c \in Conns : out'[c] # NoOne /\ c \notin unheard' => c \notin unheard
    BY <1>1, <1>4, Zenon
  <2> QED
    BY <1>1, <2>1, <2>2, <2>3, HoldFrame, Zenon
<1>5. ASSUME NEW c \in Conns, ConnectionDied(c) PROVE HoldInv'
  <2>1. Range(Without(idle, c)) = Range(idle) \ {c}
    BY <1>1, WithoutFacts, Zenon
  <2> QED
    BY <1>4, <1>5, <2>1, Zenon DEF ConnectionDied
<1>6. ASSUME NEW c \in Conns, \E p \in Callers : OwnerDeparted(p, c) PROVE HoldInv'
  BY <1>4, <1>6, Zenon DEF OwnerDeparted, Reclaim
<1>7. ASSUME \/ \E p \in Callers : WaiterDeparted(p)
             \/ \E c \in Conns : ConnectionDies(c) \/ ConnectionAges(c)
             \/ UNCHANGED vars
      PROVE  HoldInv'
  BY <1>4, <1>7, Zenon DEF WaiterDeparted, ConnectionDies, ConnectionAges, vars, tables
<1>8. ASSUME ~serving, Sweep PROVE HoldInv'
  <2>1. Range(idle') = {} /\ Range(taken') = {} /\ \A c \in Conns : out'[c] = NoOne
    BY <1>2, <1>8, EmptyFacts, Zenon DEF Sweep, Round
  <2>2. ASSUME NEW q \in Callers
        PROVE  \/ caller'[q] = caller[q]
               \/ caller'[q].pc = "idle" /\ caller'[q].conn = NoOne
    BY <1>8, Zenon DEF Sweep, IdleCaller
  <2>3. ASSUME NEW q \in Callers PROVE CallerOK(q)'
    <3>1. CallerOK(q) /\ Talks(q)
      BY <1>3, Zenon DEF HoldInv
    <3> QED
      BY <2>2, <3>1, Zenon DEF CallerOK, Talks, Using
  <2>4. ASSUME NEW q \in Callers, NEW c \in Conns PROVE HeldOK(q, c)'
    <3>1. HeldOK(q, c) /\ Talks(q)
      BY <1>3, Zenon DEF HoldInv
    <3>2. Uses(q, c)' => Uses(q, c)
      BY <2>2, Zenon DEF Uses, Using
    <3> QED
      BY <2>1, <3>1, <3>2, Zenon DEF HeldOK, Talks
  <2>5. \A c \in Conns : UsedOK(c)'
    BY <2>1, Zenon DEF UsedOK
  <2> QED
    BY <2>3, <2>4, <2>5, Zenon DEF HoldInv
<1>9. CASE Drain \/ DrainDeadline
  <2>1. ~serving /\ (Sweep \/ UNCHANGED <<tables, waiters, caller>>)
    BY <1>9, Zenon DEF Drain, DrainDeadline
  <2> QED
    BY <1>4, <1>8, <2>1, Zenon DEF tables
<1> QED
  BY <1>5, <1>6, <1>7, <1>9, Zenon

\* A caller asks, gives up, lets go or dies.
LEMMA LetsHold ==
    ASSUME TypeOK, HoldInv, NEW p \in Callers,
           Ask(p) \/ CheckoutTimeout(p) \/ SettleTimeout(p) \/ Crash(p) \/ Restart(p)
    PROVE  HoldInv'
<1>1. caller \in [Callers -> Caller] /\ CallerOK(p) /\ \A c \in Conns : UsedOK(c)
  BY Zenon DEF TypeOK, HoldInv
<1>2. UNCHANGED <<idle, taken, out, unheard>>
  BY Zenon DEF Ask, CheckoutTimeout, SettleTimeout, Crash, Restart, poolVars, tables
<1>3. Unheard /\ \A c \in Conns : Stays(c)
  BY <1>2, Zenon DEF Unheard, Stays, Near
<1>4. \A q \in Callers : Talks(q)
  <2>1. CASE Ask(p) \/ CheckoutTimeout(p)
    BY <2>1, NoticeTalk, Zenon DEF Ask, CheckoutTimeout
  <2>2. CASE UNCHANGED mail
    BY <2>2, SameTalk, Zenon
  <2> QED
    BY <2>1, <2>2, Zenon DEF SettleTimeout, Crash, Restart
<1>5. /\ \A q \in Callers : q # p => caller'[q] = caller[q]
      /\ caller'[p].pc \in {"idle", "asking", "dead"} /\ caller'[p].conn = NoOne
  BY <1>1 DEF Ask, CheckoutTimeout, SettleTimeout, Crash, Restart, IdleCaller
<1>6. ASSUME NEW c \in Conns, out[c] = p, c \notin unheard
      PROVE  caller'[p].pc = "dead" \/ Mentions(mail[p], c)
  <2>1. caller[p].conn = c \/ caller[p].pc = "dead" \/ Mentions(mail[p], c)
    BY <1>1, <1>6, Limits, Zenon DEF UsedOK
  <2>2. CASE Ask(p) \/ CheckoutTimeout(p)
    BY <1>1, <2>1, <2>2, Limits, Zenon DEF Ask, CheckoutTimeout, CallerOK
  <2>3. CASE SettleTimeout(p)
    BY <1>1, <2>1, <2>3, Zenon DEF SettleTimeout, CallerOK
  <2>4. CASE Crash(p)
    BY <1>1, <2>4, Zenon DEF Crash, IdleCaller
  <2>5. CASE Restart(p)
    BY <1>6, <2>5, Zenon DEF Restart
  <2> QED
    BY <2>2, <2>3, <2>4, <2>5, Zenon
<1> QED
  BY <1>3, <1>4, <1>5, <1>6, HoldLets

\* A caller works with its connection, or sends it back.
LEMMA WorksHold ==
    ASSUME TypeOK, HoldInv, NEW p \in Callers, Works(p)
    PROVE  HoldInv'
<1>1. /\ caller \in [Callers -> Caller] /\ caller[p] \in Caller
      /\ out \in [Conns -> Callers \cup {NoOne}]
      /\ mail \in [Callers -> Seq(Messages)] /\ mail[p] \in Seq(Messages)
  BY Zenon DEF TypeOK
<1>2. CallerOK(p) /\ KindsOK(mail[p]) /\ \A d \in Conns : HeldOK(p, d) /\ UsedOK(d)
  BY Zenon DEF HoldInv, CallerOK
<1>3. UNCHANGED <<idle, taken, out, unheard>>
  BY Zenon DEF Works, Ping, Exec, Settle, poolVars, tables
<1>4. caller[p].pc \in Using
  BY Zenon DEF Works, Ping, Exec, Settle, Using
<1>5. PICK c \in Conns : c = caller[p].conn
  BY <1>2, <1>4, Zenon DEF CallerOK
<1>6. ~Mentions(mail[p], c) /\ Uses(p, c)
  BY <1>2, <1>4, <1>5, Zenon DEF HeldOK, Uses
<1>7. \A d \in Conns : Stays(d)
  BY <1>3, Zenon DEF Stays, Near
<1>8. \A q \in Callers : q # p => caller'[q] = caller[q] /\ mail'[q] = mail[q]
  BY <1>1, Zenon DEF Works, Ping, Exec, Settle
<1>9. \A q \in Callers : q # p => Keeps(q)
  BY <1>8, SameTalk, Zenon DEF Keeps
<1>10. caller'[p].conn = c
  <2>1. /\ [caller[p] EXCEPT !.pc = "exec"].conn = c
        /\ [caller[p] EXCEPT !.pc = "settling"].conn = c
        /\ \A b : [[caller[p] EXCEPT !.pc = "settling"] EXCEPT !.again = b].conn = c
        /\ \A b : [[caller[p] EXCEPT !.pc = "settle"] EXCEPT !.again = b].conn = c
    BY <1>1, <1>5, Zenon DEF Caller
  <2>2. CASE Ping(p)
    <3>1. CASE caller' = [caller EXCEPT ![p].pc = "exec"]
      BY <1>1, <2>1, <3>1, Zenon
    <3>2. CASE caller' = [caller EXCEPT ![p].pc = "settling", ![p].again = caller[p].left > 0]
      <4>1. caller'[p] = [[caller[p] EXCEPT !.pc = "settling"] EXCEPT !.again = caller[p].left > 0]
        BY <1>1, <3>2, Zenon
      <4> QED
        BY <2>1, <4>1, Zenon
    <3> QED
      BY <2>2, <3>1, <3>2, Zenon DEF Ping
  <2>3. CASE Exec(p)
    BY <1>1, <2>1, <2>3 DEF Exec
  <2>4. CASE Settle(p)
    BY <1>1, <2>1, <2>4, Zenon DEF Settle
  <2> QED
    BY <2>2, <2>3, <2>4, Zenon DEF Works
<1>11. CASE caller'[p].pc \in Using /\ UNCHANGED mail
  <2>1. CallerOK(p)'
    BY <1>2, <1>10, <1>11, Zenon DEF CallerOK, Using
  <2>2. \A d \in Conns : Uses(p, d)' <=> Uses(p, d)
    BY <1>4, <1>5, <1>10, <1>11, Zenon DEF Uses
  <2>3. ASSUME NEW d \in Conns
        PROVE  /\ Once(mail'[p], d) /\ (Uses(p, d)' => ~Mentions(mail'[p], d))
               /\ Holds(p, d)' => Holds(p, d)
    BY <1>2, <1>11, <2>2, Zenon DEF HeldOK, Holds
  <2>4. ASSUME NEW d \in Conns PROVE Accounted(p, d)
    BY <1>2, <1>3, <1>4, <1>5, <1>10, <1>11, Zenon DEF Accounted, UsedOK, Using
  <2> QED
    BY <1>1, <1>7, <1>9, <2>1, <2>3, <2>4, HoldOne, Zenon
<1>12. ASSUME caller'[p].pc = "settling", NEW k \in {"checkin", "discard"},
              mail'[p] = Append(mail[p], [kind |-> k, conn |-> c])
       PROVE  HoldInv'
  <2>1. PICK x \in Messages : x = [kind |-> k, conn |-> c]
    BY Zenon DEF Messages
  <2>2. x.conn = c /\ x.kind \in {"checkin", "discard"} /\ mail'[p] = Append(mail[p], x)
    BY <1>12, <2>1, Zenon
  <2>3. /\ KindsOK(mail'[p])
        /\ \A d \in Conns :
            /\ Mentions(mail'[p], d) <=> d = c \/ Mentions(mail[p], d)
            /\ Once(mail[p], d) /\ (d = c => ~Mentions(mail[p], d)) => Once(mail'[p], d)
    BY <1>1, <1>2, <2>2, MailAppend
  <2>4. CallerOK(p)'
    BY <1>10, <1>12, <2>3, Zenon DEF CallerOK, Using
  <2>5. ASSUME NEW d \in Conns
        PROVE  Once(mail'[p], d) /\ ~Uses(p, d)' /\ (Holds(p, d)' => Holds(p, d))
    BY <1>2, <1>6, <1>12, <2>3, Zenon DEF HeldOK, Uses, Holds, Using
  <2>6. ASSUME NEW d \in Conns PROVE Accounted(p, d)
    BY <1>2, <1>3, <1>4, <1>5, <1>10, <2>3 DEF Accounted, UsedOK, Using
  <2> QED
    BY <1>1, <1>7, <1>9, <2>4, <2>5, <2>6, HoldOne
<1>13. CASE Ping(p)
  <2>1. CASE caller' = [caller EXCEPT ![p].pc = "exec"] /\ UNCHANGED mail
    BY <1>1, <1>11, <2>1, Zenon DEF Caller, Using
  <2>2. ASSUME caller' = [caller EXCEPT ![p].pc = "settling", ![p].again = caller[p].left > 0],
               mail' = [mail EXCEPT ![p] = Append(@, [kind |-> "discard", conn |-> caller[p].conn])]
        PROVE  HoldInv'
    <3>1. caller'[p].pc = "settling"
      BY <1>1, <2>2, Zenon DEF Caller
    <3>2. mail'[p] = Append(mail[p], [kind |-> "discard", conn |-> c])
      BY <1>1, <1>5, <2>2, Zenon
    <3> QED
      BY <1>12, <3>1, <3>2, Zenon
  <2> QED
    BY <1>13, <2>1, <2>2, Zenon DEF Ping
<1>14. CASE Exec(p)
  <2>1. caller'[p].pc = "settle" /\ UNCHANGED mail
    BY <1>1, <1>14 DEF Exec, Caller
  <2> QED
    BY <1>11, <2>1, Zenon DEF Using
<1>15. CASE Settle(p)
  <2>1. caller'[p].pc = "settling"
    BY <1>1, <1>15, Zenon DEF Settle, Caller
  <2>2. PICK k \in {"checkin", "discard"} : mail'[p] = Append(mail[p], [kind |-> k, conn |-> c])
    BY <1>1, <1>5, <1>15, Zenon DEF Settle
  <2> QED
    BY <1>12, <2>1, <2>2, Zenon
<1> QED
  BY <1>13, <1>14, <1>15, Zenon DEF Works

LEMMA HoldStep ==
    ASSUME TypeOK, Round, TableInv, HoldInv, [Next]_vars
    PROVE  HoldInv'
<1>1. ASSUME NEW p \in Callers, HandleAbandoned(p) PROVE HoldInv'
  <2>1. Due(p, "abandoned") /\ Consume(p) /\ UNCHANGED <<idle, taken, out, unheard, caller>>
    BY <1>1, Zenon DEF HandleAbandoned, tables
  <2>2. \A q \in Callers : Keeps(q)
    BY <2>1, NoticeTalk, Zenon DEF Keeps
  <2>3. \A c \in Conns : Stays(c)
    BY <2>1, Zenon DEF Stays, Near
  <2>4. out \in [Conns -> Callers \cup {NoOne}]
    BY Zenon DEF TypeOK
  <2> QED
    BY <2>1, <2>2, <2>3, <2>4, HoldFrame, Zenon
<1>2. ASSUME NEW p \in Callers, Handle(p) PROVE HoldInv'
  BY <1>1, <1>2, CheckoutHold, ReturnHold, Zenon DEF Handle
<1>3. ASSUME NEW p \in Callers,
             \/ Ask(p) \/ CheckoutTimeout(p) \/ Works(p)
             \/ SettleTimeout(p) \/ Crash(p) \/ Restart(p)
      PROVE  HoldInv'
  BY <1>3, LetsHold, WorksHold, Zenon
<1>4. CASE Rounds
  BY <1>4, RoundHold, Zenon
<1>5. CASE \/ \E c \in Conns : ConnectionDied(c) \/ \E p \in Callers : OwnerDeparted(p, c)
           \/ \E p \in Callers : WaiterDeparted(p)
           \/ \E c \in Conns : ConnectionDies(c) \/ ConnectionAges(c)
           \/ Drain \/ DrainDeadline \/ UNCHANGED vars
  BY <1>5, DeathHold, Zenon
<1> QED
  BY <1>2, <1>3, <1>4, <1>5, Zenon DEF Next

-----------------------------------------------------------------------------
(* The theorems.                                                            *)

LEMMA InitInv == Init => PoolInv
<1> SUFFICES ASSUME Init PROVE PoolInv
  BY Zenon
<1>1. TypeOK
  BY RecordTypes, EmptyFacts, Limits, ZenonT(30) DEF Init, TypeOK
<1>2. Round /\ ServedWhenPossible
  BY Zenon DEF Init, Round, ServedWhenPossible
<1>3. CheckedOut = {}
  BY Zenon DEF Init, CheckedOut
<1>4. TableInv
  <2>1. Cardinality(CheckedOut) = 0
    BY <1>3, FS_EmptySet, Zenon
  <2>2. /\ Range(idle) = {} /\ Range(taken) = {} /\ Len(idle) = 0 /\ Len(taken) = 0
        /\ IsInjective(idle) /\ IsInjective(taken) /\ monitors = {} /\ idle = <<>> /\ taken = <<>>
    BY EmptyFacts, Zenon DEF Init
  <2>3. Room
    BY <2>1, <2>2, Limits DEF Room
  <2> QED
    BY <1>3, <2>2, <2>3, Zenon DEF TableInv, Tracked, TakenApart
<1>5. HoldInv
  <2>1. ASSUME NEW p \in Callers
        PROVE  caller[p].pc = "idle" /\ caller[p].conn = NoOne /\ mail[p] = <<>>
    BY Zenon DEF Init, IdleCaller
  <2>2. \A c \in Conns : out[c] = NoOne
    BY Zenon DEF Init
  <2>3. KindsOK(<<>>) /\ \A c \in Conns : ~Mentions(<<>>, c) /\ Once(<<>>, c)
    BY DEF KindsOK, Mentions, Once
  <2>4. \A p \in Callers : CallerOK(p)
    BY <2>1, <2>3, Zenon DEF CallerOK, Using
  <2>5. \A p \in Callers, c \in Conns : HeldOK(p, c)
    BY <2>1, <2>3, Zenon DEF HeldOK, Holds, Uses, Using
  <2> QED
    BY <2>2, <2>4, <2>5, Zenon DEF HoldInv, UsedOK
<1> QED
  BY <1>1, <1>2, <1>4, <1>5, Zenon DEF PoolInv

LEMMA StepInv == PoolInv /\ [Next]_vars => PoolInv'
<1> SUFFICES ASSUME PoolInv, [Next]_vars PROVE PoolInv'
  BY Zenon
<1>1. TypeOK /\ Round /\ TableInv /\ ServedWhenPossible /\ HoldInv
  BY Zenon DEF PoolInv
<1>2. \A p \in Callers : KindsOK(mail[p])
  BY <1>1, Zenon DEF HoldInv, CallerOK
<1> QED
  BY <1>1, <1>2, TypeStep, RoundStep, TableStep, ServedStep, HoldStep, Zenon DEF PoolInv

LEMMA Inductive == Spec => []PoolInv
BY InitInv, StepInv, PTL DEF Spec

\* The pool's tables, the callers' states and their messages keep their types.
THEOREM PoolTypes == Spec => []TypeOK
<1>1. PoolInv => TypeOK
  BY Zenon DEF PoolInv
<1> QED
  BY <1>1, Inductive, PTL

\* The pool never has more than pool_size + max_overflow connections in its tables, and never
\* parks more than pool_size: a round that closes expired connections and then fails puts back
\* no more than it took.
THEOREM PoolWithinCapacity == Spec => []WithinCapacity
<1>1. PoolInv => WithinCapacity
  <2> SUFFICES ASSUME PoolInv PROVE WithinCapacity
    BY Zenon
  <2>1. TypeOK /\ Room
    BY Zenon DEF PoolInv, TableInv
  <2>2. /\ Len(idle) \in Nat /\ Len(taken) \in Nat /\ Cardinality(CheckedOut) \in Nat
        /\ Capacity \in Nat /\ PoolSize \in Nat
    BY <2>1, OutCount, EmptyFacts, Limits DEF TypeOK
  <2> QED
    BY <2>1, <2>2 DEF Room, WithinCapacity, total
<1> QED
  BY <1>1, Inductive, PTL

\* A connection a caller is using is neither parked nor checked out to another, whatever
\* times out, dies or is drained meanwhile.
THEOREM PoolExclusive == Spec => []Exclusive
<1>1. PoolInv => Exclusive
  <2> SUFFICES ASSUME PoolInv, NEW p \in Callers, caller[p].pc \in {"ping", "exec", "settle"}
               PROVE  caller[p].conn \notin Range(idle) /\ out[caller[p].conn] \in {p, NoOne}
    BY Zenon DEF Exclusive
  <2>1. CallerOK(p) /\ \A c \in Conns : HeldOK(p, c)
    BY Zenon DEF PoolInv, HoldInv
  <2>2. caller[p].conn \in Conns
    BY <2>1, Zenon DEF CallerOK, Using
  <2>3. Holds(p, caller[p].conn)
    BY Zenon DEF Holds, Uses, Using
  <2> QED
    BY <2>1, <2>2, <2>3, Zenon DEF HeldOK
<1> QED
  BY <1>1, Inductive, PTL

\* The monitor table lists exactly the connections in the tables, each in one place.
THEOREM PoolTracked == Spec => []Tracked
<1>1. PoolInv => Tracked
  BY Zenon DEF PoolInv, TableInv
<1> QED
  BY <1>1, Inductive, PTL

\* Nobody is left in the queue while a connection could be had, unless a connect failed when
\* the queue was last served.
THEOREM PoolServes == Spec => []ServedWhenPossible
<1>1. PoolInv => ServedWhenPossible
  BY Zenon DEF PoolInv
<1> QED
  BY <1>1, Inductive, PTL

\* No connection leaks: one that is checked out and was received is used, on its way back, or
\* its owner has died.
THEOREM PoolNoLeak == Spec => []CheckedOutIsUsed
<1>1. PoolInv => CheckedOutIsUsed
  <2> SUFFICES ASSUME PoolInv, NEW c \in CheckedOut \ unheard
               PROVE  \/ caller[out[c]].conn = c \/ caller[out[c]].pc = "dead"
                      \/ \E m \in Range(mail[out[c]]) : m.conn = c
    BY Zenon DEF CheckedOutIsUsed
  <2>1. c \in Conns /\ out[c] # NoOne /\ UsedOK(c)
    BY Zenon DEF PoolInv, HoldInv, CheckedOut
  <2>2. Mentions(mail[out[c]], c) => \E m \in Range(mail[out[c]]) : m.conn = c
    BY Zenon DEF Mentions, Range
  <2> QED
    BY <2>1, <2>2, Zenon DEF UsedOK
<1> QED
  BY <1>1, Inductive, PTL
=============================================================================
