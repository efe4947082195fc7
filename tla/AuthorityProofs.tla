-------------------------- MODULE AuthorityProofs ---------------------------
(* Proofs about Authority, for any members, handlers, requests and loads.    *)
(* The inductive invariant says what each request has read, what it has      *)
(* locked and how far the rows can have moved since; then who writes the     *)
(* rows and takes the locks, what becomes of requests, names, pairing codes  *)
(* and the seed, and the authorization revision.                             *)
EXTENDS Authority, TLAPS

Places ==
    {"idle", "organization", "create", "membership", "flush", "bump", "seed", "lookup", "owner", "insert",
     "seeded", "publish", "issue", "select", "mint", "lock", "creator", "grant", "granted"}
Kinds == {"none", "bootstrap", "read", "publish", "issue", "exchange", "push"}

Requests ==
    [pc : Places, op : Kinds, n : Ids, member : Members \cup {NoRow}, want : Wanted \cup {NoRow}, rev : Nat,
     seen : Authorities \cup {NoRow}, first : Nat, attempt : Nat, lost : BOOLEAN, stored : BOOLEAN,
     content : Contents \cup {NoRow}, code : Ids, late : BOOLEAN, customer : Customers \cup {NoRow}]

RowTypes ==
    /\ org \in Nat \cup {NoRow} /\ member \in [Members -> Authorities \cup {NoRow}]
    /\ session \in [Ids -> Sessions \cup {NoRow}] /\ code \in [Ids -> Codes \cup {NoRow}]
    /\ changes \in Nat /\ overlapped \in BOOLEAN

\* The rows, the locks the argument needs, and the requests.
TypeOK ==
    /\ RowTypes /\ orgLock \in Handlers \cup {Free} /\ codeLock \in [Ids -> Handlers \cup {Free}]
    /\ req \in [Handlers -> Requests] /\ begun \in Ids

\* What a request has been given, by its kind and its place.
KindOK(h) ==
    LET r == req[h] IN
    /\ r.pc \in {"organization", "create", "membership", "flush", "bump"} =>
           r.op = "bootstrap" /\ ~r.stored /\ ~r.lost
    /\ r.stored => r.op = "bootstrap" /\ r.pc = "seeded"
    /\ r.pc \in {"lock", "creator", "grant", "granted"} => r.op = "push"
    /\ r.pc \in {"select", "mint"} => r.op = "exchange"
    /\ r.pc = "issue" => r.op = "issue"
    /\ r.pc = "publish" => r.op = "publish"
    /\ r.op \in {"bootstrap", "push", "issue"} => r.member \in Members
    /\ r.op = "bootstrap" => r.want \in Wanted
    /\ r.op = "publish" => r.content \in Contents
    /\ r.op = "push" => member[r.member] # NoRow /\ r.customer \in Customers
    /\ r.op = "exchange" => code[r.code] # NoRow
    /\ r.op \in {"bootstrap", "issue", "exchange"} => r.n # 0

\* The name of a session or a code belongs to one request, which has used it once at most.
NamesOK ==
    /\ \A h \in Handlers :
           LET r == req[h] IN
           /\ r.n <= begun
           /\ r.n # 0 => code[r.n] = NoRow /\ (session[r.n] # NoRow <=> r.stored)
           /\ r.n # 0 => \A g \in Handlers : req[g].n = r.n => g = h
    /\ \A s \in Ids : s > begun => session[s] = NoRow /\ code[s] = NoRow

\* Who is about to mint a session has locked a code that is not spent.
CodesOK ==
    /\ CodeMintsOnce
    /\ \A c \in Ids : code[c] = NoRow => \A s \in Ids : ~MintedBy(s, c)
    /\ \A h \in Handlers :
           req[h].pc = "mint" => codeLock[req[h].code] = h /\ ~code[req[h].code].consumed

\* The first publication a seed has found missing is there only when all of them are.
SeedOK ==
    /\ SeedGivesWay
    /\ \A h \in Handlers :
           LET r == req[h] IN
           /\ r.attempt # 1 \/ r.pc \in {"seeded", "publish"} => Baselines \subseteq baseline
           /\ r.pc \in {"lookup", "owner", "insert"} =>
                  r.attempt = 1 /\ (r.first \in baseline => Baselines \subseteq baseline)

\* A bootstrap has written what it was asked for, and the seed is next.
Seeding == {"seed", "lookup", "owner", "insert", "seeded"}
Bootstrapped(r) == r.op = "bootstrap" /\ r.pc \in Seeding

\* A request has read the membership it is about to write.
HasSeen(r) == Bootstrapped(r) \/ r.pc \in {"flush", "bump", "grant", "granted"}

\* The revision a request has read; what it knows of the membership, whose authority has not moved
\* since unless the changes have; and the organization's row, which it has locked when it is about
\* to write it.
Knows(h) ==
    LET r == req[h] IN
    /\ r.rev <= changes
    /\ HasSeen(r) => /\ r.seen # NoRow => member[r.member] # NoRow
                     /\ Authority(r.seen) # Authority(member[r.member]) => r.rev + 1 <= changes
    /\ Bootstrapped(r) /\ ~r.stored /\ ~r.lost /\ Changed(r) => orgLock = h
    /\ r.pc \in {"creator", "grant", "granted"} => orgLock = h /\ org # NoRow /\ r.rev = org
    /\ r.pc \in {"grant", "granted"} =>
           r.seen # NoRow /\ r.customer \notin r.seen.scope /\ member[r.member].active

RevisionOK ==
    /\ RevisionCountsChanges
    /\ org = NoRow => changes = 0 /\ \A m \in Members : member[m] = NoRow
    /\ \A h \in Handlers : Knows(h)

Inv == /\ TypeOK /\ (\A h \in Handlers : KindOK(h)) /\ NamesOK /\ CodesOK /\ SeedOK
       /\ RevisionOK /\ AnswersAreTrue

-----------------------------------------------------------------------------
LEMMA IdleType == IdleRequest \in Requests
<1>1. 0 \in Ids /\ 0 \in Nat /\ 1 \in Nat
  BY AuthorityConstants DEF Ids
<1>2. "idle" \in Places /\ "none" \in Kinds
  BY Zenon DEF Places, Kinds
<1> QED
  BY <1>1, <1>2, Zenon DEF IdleRequest, Requests

LEMMA InitInv == Init => Inv
<1> SUFFICES ASSUME Init PROVE Inv
  BY Zenon
<1> USE AuthorityConstants
<1>0. IdleRequest \in Requests
  BY IdleType, Zenon
<1>1. TypeOK
  <2>1. /\ org \in Nat \cup {NoRow} /\ member \in [Members -> Authorities \cup {NoRow}]
        /\ session \in [Ids -> Sessions \cup {NoRow}] /\ code \in [Ids -> Codes \cup {NoRow}]
    <3>1. CASE org = NoRow
      BY <3>1 DEF Init
    <3>2. CASE org = 0
      <4>1. PICK m \in Members, a \in Held :
                /\ member = [k \in Members |-> IF k = m THEN a ELSE NoRow]
                /\ session = [s \in Ids |-> IF s = 0 THEN [member |-> m, revoked |-> FALSE, code |-> NoRow]
                                            ELSE NoRow]
                /\ code = [c \in Ids |-> IF c = 0 THEN [member |-> m, consumed |-> FALSE, expired |-> FALSE]
                                         ELSE NoRow]
        BY <3>2 DEF Init
      <4>2. /\ a \in Authorities
            /\ [member |-> m, revoked |-> FALSE, code |-> NoRow] \in Sessions
            /\ [member |-> m, consumed |-> FALSE, expired |-> FALSE] \in Codes
        BY Zenon DEF Authorities, Sessions, Codes
      <4> QED
        BY <3>2, <4>1, <4>2, Zenon
    <3> QED
      BY <3>1, <3>2, Zenon DEF Init
  <2>2. begun \in Ids /\ changes \in Nat
    BY DEF Init, Ids
  <2>3. overlapped \in BOOLEAN
    BY Zenon DEF Init
  <2> QED
    BY <1>0, <2>1, <2>2, <2>3, Zenon DEF Init, TypeOK, RowTypes
<1>2. \A h \in Handlers : KindOK(h)
  BY Zenon DEF Init, KindOK, IdleRequest
<1>3. NamesOK
  BY <1>1 DEF Init, NamesOK, IdleRequest, Ids, TypeOK, RowTypes
<1>4. CodesOK
  BY <1>1
     DEF Init, CodesOK, CodeMintsOnce, MintedBy, IdleRequest, Ids, Codes, Sessions, TypeOK, RowTypes
<1>5. SeedOK
  BY Zenon DEF Init, SeedOK, SeedGivesWay, IdleRequest
<1>6. RevisionOK
  BY DEF Init, RevisionOK, Knows, RevisionCountsChanges, HasSeen, Bootstrapped, Seeding, IdleRequest
<1>7. AnswersAreTrue
  BY Zenon DEF Init, AnswersAreTrue, IdleRequest
<1> QED
  BY <1>1, <1>2, <1>3, <1>4, <1>5, <1>6, <1>7, Zenon DEF Inv

\* A handler changes its own request, and requests stay requests.
OnlyMine(h) ==
    req' \in [Handlers -> Requests] /\ \A g \in Handlers \ {h} : req'[g] = req[g]

\* The updates the actions make.
LEMMA RequestUpdates ==
    ASSUME NEW r \in Requests, NEW p \in Places
    PROVE  /\ [r EXCEPT !.pc = p] \in Requests
           /\ \A v \in Nat : [r EXCEPT !.pc = p, !.rev = v] \in Requests
           /\ \A a \in Authorities \cup {NoRow} : [r EXCEPT !.pc = p, !.seen = a] \in Requests
           /\ \A v \in Nat : [r EXCEPT !.pc = p, !.first = v] \in Requests
           /\ [r EXCEPT !.pc = p, !.stored = TRUE] \in Requests
           /\ \A v \in Nat : [r EXCEPT !.pc = p, !.attempt = v, !.lost = TRUE] \in Requests
<1>1. [r EXCEPT !.pc = p] \in Requests
  BY Zenon DEF Requests
<1>2. \A v \in Nat : [r EXCEPT !.pc = p, !.rev = v] \in Requests
  BY Zenon DEF Requests
<1>3. \A a \in Authorities \cup {NoRow} : [r EXCEPT !.pc = p, !.seen = a] \in Requests
  BY Zenon DEF Requests
<1>4. \A v \in Nat : [r EXCEPT !.pc = p, !.first = v] \in Requests
  BY Zenon DEF Requests
<1>5. [r EXCEPT !.pc = p, !.stored = TRUE] \in Requests
  BY Zenon DEF Requests
<1>6. \A v \in Nat : [r EXCEPT !.pc = p, !.attempt = v, !.lost = TRUE] \in Requests
  BY ZenonT(60) DEF Requests
<1> QED
  BY <1>1, <1>2, <1>3, <1>4, <1>5, <1>6, Zenon

\* The requests that arrive.
LEMMA NewRequests ==
    ASSUME begun \in Ids, begun < MaxRequests
    PROVE  /\ \A m \in Members, want \in Wanted :
                  [IdleRequest EXCEPT !.op = "bootstrap", !.pc = "organization", !.n = begun + 1,
                                      !.member = m, !.want = want] \in Requests
           /\ \A content \in Contents \cup {NoRow}, op \in {"read", "publish"} :
                  [IdleRequest EXCEPT !.op = op, !.pc = "seed", !.content = content] \in Requests
           /\ \A m \in Members :
                  [IdleRequest EXCEPT !.op = "issue", !.pc = "issue", !.n = begun + 1, !.member = m] \in Requests
           /\ \A c \in Ids, late \in BOOLEAN :
                  [IdleRequest EXCEPT !.op = "exchange", !.pc = "select", !.n = begun + 1,
                                      !.code = c, !.late = late] \in Requests
           /\ \A m \in Members, c \in Customers :
                  [IdleRequest EXCEPT !.op = "push", !.pc = "lock", !.member = m, !.customer = c] \in Requests
<1>1. begun + 1 \in Ids
  BY AuthorityConstants DEF Ids
<1> USE IdleType, <1>1 DEF Requests, Places, Kinds
<1>2. \A m \in Members, want \in Wanted :
          [IdleRequest EXCEPT !.op = "bootstrap", !.pc = "organization", !.n = begun + 1,
                              !.member = m, !.want = want] \in Requests
  BY ZenonT(60)
<1>3. \A content \in Contents \cup {NoRow}, op \in {"read", "publish"} :
          [IdleRequest EXCEPT !.op = op, !.pc = "seed", !.content = content] \in Requests
  BY ZenonT(60)
<1>4. \A m \in Members :
          [IdleRequest EXCEPT !.op = "issue", !.pc = "issue", !.n = begun + 1, !.member = m] \in Requests
  BY Zenon
<1>5. \A c \in Ids, late \in BOOLEAN :
          [IdleRequest EXCEPT !.op = "exchange", !.pc = "select", !.n = begun + 1,
                              !.code = c, !.late = late] \in Requests
  BY ZenonT(60)
<1>6. \A m \in Members, c \in Customers :
          [IdleRequest EXCEPT !.op = "push", !.pc = "lock", !.member = m, !.customer = c] \in Requests
  BY ZenonT(60)
<1> QED
  BY <1>2, <1>3, <1>4, <1>5, <1>6, Zenon

LEMMA RequestsStep ==
    ASSUME Inv, NEW h \in Handlers, Arrival(h) \/ Step(h)
    PROVE  OnlyMine(h)
<1>1. TypeOK /\ KindOK(h) /\ req[h] \in Requests
  BY Zenon DEF Inv, TypeOK, RowTypes
<1>2. ASSUME NEW new \in Requests, req' = [req EXCEPT ![h] = new]
      PROVE  OnlyMine(h)
  BY <1>1, <1>2, Zenon DEF OnlyMine, TypeOK, RowTypes
<1>3. ASSUME NEW p \in Places, req' = [req EXCEPT ![h].pc = p]
      PROVE  OnlyMine(h)
  BY <1>1, <1>3, RequestUpdates, Zenon DEF OnlyMine, TypeOK, RowTypes
<1>4. End(h) => OnlyMine(h)
  BY <1>2, IdleType, Zenon DEF End
<1>5. ASSUME NEW p \in Places, Goto(h, p)
      PROVE  OnlyMine(h)
  BY <1>3, <1>5, Zenon DEF Goto
<1>6. ASSUME Arrival(h)
      PROVE  OnlyMine(h)
  <2>1. begun \in Ids
    BY <1>1, Zenon DEF TypeOK, RowTypes
  <2>2. CASE \E m \in Members, want \in Wanted : BeginBootstrap(h, m, want)
    <3>1. PICK m \in Members, want \in Wanted : BeginBootstrap(h, m, want)
      BY <2>2, Zenon
    <3> DEFINE new == [IdleRequest EXCEPT !.op = "bootstrap", !.pc = "organization", !.n = begun + 1,
                                          !.member = m, !.want = want]
    <3>2. new \in Requests
      BY <2>1, <3>1, NewRequests, Zenon DEF BeginBootstrap, Begin
    <3>3. req' = [req EXCEPT ![h] = new]
      BY <3>1, Zenon DEF BeginBootstrap, Begin
    <3> QED
      BY <1>2, <3>2, <3>3, Zenon
  <2>3. CASE \E s \in Ids, content \in Contents \cup {NoRow} : BeginReference(h, s, content)
    <3>1. PICK s \in Ids, content \in Contents \cup {NoRow} : BeginReference(h, s, content)
      BY <2>3, Zenon
    <3> DEFINE op == IF content = NoRow THEN "read" ELSE "publish"
               new == [IdleRequest EXCEPT !.op = op, !.pc = "seed", !.content = content]
    <3>2. new \in Requests
      BY <2>1, <3>1, NewRequests, Zenon DEF BeginReference, Begin
    <3>3. req' = [req EXCEPT ![h] = new]
      BY <3>1, Zenon DEF BeginReference, Begin
    <3> QED
      BY <1>2, <3>2, <3>3, Zenon
  <2>4. CASE \E m \in Members : BeginIssue(h, m)
    <3>1. PICK m \in Members : BeginIssue(h, m)
      BY <2>4, Zenon
    <3> DEFINE new == [IdleRequest EXCEPT !.op = "issue", !.pc = "issue", !.n = begun + 1, !.member = m]
    <3>2. new \in Requests
      BY <2>1, <3>1, NewRequests, Zenon DEF BeginIssue, Begin
    <3>3. req' = [req EXCEPT ![h] = new]
      BY <3>1, Zenon DEF BeginIssue, Begin
    <3> QED
      BY <1>2, <3>2, <3>3, Zenon
  <2>5. CASE \E c \in Ids : BeginExchange(h, c)
    <3>1. PICK c \in Ids : BeginExchange(h, c)
      BY <2>5, Zenon
    <3>2. code[c].expired \in BOOLEAN
      BY <1>1, <3>1, Zenon DEF BeginExchange, TypeOK, RowTypes, Codes
    <3> DEFINE new == [IdleRequest EXCEPT !.op = "exchange", !.pc = "select", !.n = begun + 1,
                                          !.code = c, !.late = code[c].expired]
    <3>3. new \in Requests
      BY <2>1, <3>1, <3>2, NewRequests, Zenon DEF BeginExchange, Begin
    <3>4. req' = [req EXCEPT ![h] = new]
      BY <3>1, Zenon DEF BeginExchange, Begin
    <3> QED
      BY <1>2, <3>3, <3>4, Zenon
  <2>6. CASE \E s \in Ids, c \in Customers : BeginPush(h, s, c)
    <3>1. PICK s \in Ids, c \in Customers : BeginPush(h, s, c)
      BY <2>6, Zenon
    <3>2. session[s].member \in Members
      BY <1>1, <3>1, Zenon DEF BeginPush, Usable, TypeOK, RowTypes, Sessions
    <3> DEFINE new == [IdleRequest EXCEPT !.op = "push", !.pc = "lock", !.member = session[s].member,
                                          !.customer = c]
    <3>3. new \in Requests
      BY <2>1, <3>1, <3>2, NewRequests, Zenon DEF BeginPush, Begin
    <3>4. req' = [req EXCEPT ![h] = new]
      BY <3>1, Zenon DEF BeginPush, Begin
    <3> QED
      BY <1>2, <3>3, <3>4, Zenon
  <2> QED
    BY <1>6, <2>2, <2>3, <2>4, <2>5, <2>6, Zenon DEF Arrival
<1>7. ASSUME Step(h)
      PROVE  OnlyMine(h)
  <2> USE DEF Places
  <2>1. CASE ReadOrganization(h)
    BY <1>1, <2>1, RequestUpdates, ZenonT(60) DEF ReadOrganization, OnlyMine, TypeOK, RowTypes
  <2>2. CASE CreateOrganization(h)
    BY <1>4, <1>5, <2>2, Zenon DEF CreateOrganization, Fail
  <2>3. CASE ReadMembership(h)
    <3>1. member[req[h].member] \in Authorities \cup {NoRow}
      BY <1>1, <2>3, Zenon DEF ReadMembership, KindOK, TypeOK, RowTypes
    <3> DEFINE new == [req[h] EXCEPT !.pc = "flush", !.seen = member[req[h].member]]
    <3>2. new \in Requests
      BY <1>1, <3>1, RequestUpdates, Zenon
    <3>3. req' = [req EXCEPT ![h] = new]
      BY <2>3, Zenon DEF ReadMembership
    <3> QED
      BY <1>2, <3>2, <3>3, Zenon
  <2>4. CASE Flush(h)
    BY <1>4, <1>5, <2>4, Zenon DEF Flush, Fail
  <2>5. CASE Bump(h)
    BY <1>5, <2>5, Zenon DEF Bump
  <2>6. CASE SeedCheck(h)
    <3>1. CASE Baselines \subseteq baseline
      BY <1>5, <2>6, <3>1, Zenon DEF SeedCheck
    <3>2. CASE ~(Baselines \subseteq baseline)
      <4>1. PICK p \in Baselines : req' = [req EXCEPT ![h].pc = "lookup", ![h].first = p]
        BY <2>6, <3>2, Zenon DEF SeedCheck
      <4>2. p \in Nat
        BY AuthorityConstants, Zenon
      <4> QED
        BY <1>1, <4>1, <4>2, RequestUpdates, ZenonT(60) DEF OnlyMine, TypeOK, RowTypes
    <3> QED
      BY <3>1, <3>2, Zenon
  <2>7. CASE SeedLookup(h) \/ SeedOwner(h) \/ SeedInsert(h)
    <3>1. CASE req' = [req EXCEPT ![h].pc = "seeded", ![h].stored = TRUE]
      BY <1>1, <3>1, RequestUpdates, ZenonT(60) DEF OnlyMine, TypeOK, RowTypes
    <3>2. CASE req' = [req EXCEPT ![h].pc = "seed", ![h].attempt = req[h].attempt + 1, ![h].lost = TRUE]
      <4>1. req[h].attempt + 1 \in Nat
        BY <1>1 DEF Requests
      <4> QED
        BY <1>1, <3>2, <4>1, RequestUpdates, ZenonT(60) DEF OnlyMine, TypeOK, RowTypes
    <3> QED
      BY <1>4, <1>5, <2>7, <3>1, <3>2, Zenon DEF SeedLookup, SeedOwner, SeedInsert, CommitSeed, Fail
  <2>8. CASE PublishCheck(h) \/ SelectGrant(h) \/ GrantScope(h) \/ Publish(h)
    BY <1>4, <1>5, <2>8, Zenon DEF PublishCheck, SelectGrant, GrantScope, Publish, Fail
  <2>9. CASE LockOrganization(h)
    <3>1. req[h].member \in Members /\ member[req[h].member] # NoRow
      BY <1>1, <2>9, Zenon DEF LockOrganization, KindOK
    <3>2. org \in Nat
      BY <1>1, <3>1, Zenon DEF Inv, RevisionOK, TypeOK, RowTypes
    <3> QED
      BY <1>1, <2>9, <3>2, RequestUpdates, ZenonT(60) DEF LockOrganization, OnlyMine, TypeOK, RowTypes
  <2>10. CASE ReadCreator(h)
    <3>1. member[req[h].member] \in Authorities \cup {NoRow}
      BY <1>1, <2>10, Zenon DEF ReadCreator, KindOK, TypeOK, RowTypes
    <3> DEFINE new == [req[h] EXCEPT !.pc = "grant", !.seen = member[req[h].member]]
    <3>2. new \in Requests
      BY <1>1, <3>1, RequestUpdates, Zenon
    <3>3. End(h) \/ req' = [req EXCEPT ![h] = new]
      BY <2>10, Zenon DEF ReadCreator
    <3> QED
      BY <1>2, <1>4, <3>2, <3>3, Zenon
  <2>11. CASE FinishBootstrap(h) \/ FinishRead(h) \/ IssueGrant(h) \/ MintSession(h) \/ CommitPush(h) \/ Abort(h)
    BY <1>4, <2>11, Zenon
       DEF FinishBootstrap, FinishRead, IssueGrant, MintSession, CommitPush, Abort
  <2> QED
    BY <1>7, <2>1, <2>2, <2>3, <2>4, <2>5, <2>6, <2>7, <2>8, <2>9, <2>10, <2>11, SMTT(30) DEF Step
<1> QED
  BY <1>6, <1>7, Zenon

-----------------------------------------------------------------------------
(* What is stored in a membership.                                          *)

LEMMA RowOf ==
    ASSUME NEW a \in BOOLEAN, NEW c \in SUBSET Customers, NEW o \in BOOLEAN
    PROVE  [active |-> a, scope |-> c, sorted |-> o] \in Authorities
  BY DEF Authorities

\* Two memberships have the same authority when they differ in the order of a list only.
LEMMA SameAuthority ==
    ASSUME NEW a \in Authorities
    PROVE  /\ Authority(a) # NoRow /\ Authority(NoRow) = NoRow
           /\ \A b \in Authorities : Authority(a) = Authority(b) <=> a.active = b.active /\ a.scope = b.scope
<1>1. a # NoRow /\ <<a.active, a.scope>> \in BOOLEAN \X SUBSET Customers
  BY AuthorityConstants DEF Authorities
<1>2. Authority(a) # NoRow /\ Authority(NoRow) = NoRow
  BY <1>1, AuthorityConstants, Zenon DEF Authority
<1>3. ASSUME NEW b \in Authorities
      PROVE  Authority(a) = Authority(b) <=> a.active = b.active /\ a.scope = b.scope
  <2>1. Authority(a) = <<a.active, a.scope>> /\ Authority(b) = <<b.active, b.scope>>
    BY <1>1, AuthorityConstants, Zenon DEF Authority
  <2> QED
    BY <2>1
<1> QED
  BY <1>2, <1>3, Zenon

\* A membership that is stored is counted when its authority changes.
LEMMA MembershipStored ==
    ASSUME Inv, NEW m \in Members, NEW row \in Authorities, StoreMembership(m, row)
    PROVE  /\ member' \in [Members -> Authorities \cup {NoRow}] /\ changes' \in Nat /\ changes' >= changes
           /\ member'[m] = row /\ \A k \in Members \ {m} : member'[k] = member[k]
           /\ \A k \in Members : member[k] # NoRow => member'[k] # NoRow
           /\ \A k \in Members : Authority(member'[k]) # Authority(member[k]) => changes' = changes + 1
           /\ changes' = IF Authority(row) # Authority(member[m]) THEN changes + 1 ELSE changes
<1>1. member \in [Members -> Authorities \cup {NoRow}] /\ changes \in Nat /\ row # NoRow
  BY AuthorityConstants, Zenon DEF Inv, TypeOK, RowTypes
<1>2. /\ member' = [member EXCEPT ![m] = row]
      /\ changes' = IF Authority(row) # Authority(member[m]) THEN changes + 1 ELSE changes
  BY Zenon DEF StoreMembership
<1>3. /\ member' \in [Members -> Authorities \cup {NoRow}]
      /\ member'[m] = row /\ \A k \in Members \ {m} : member'[k] = member[k]
  BY <1>1, <1>2, Zenon
<1>4. changes' \in Nat /\ changes' >= changes
  BY <1>1, <1>2
<1> QED
  BY <1>1, <1>2, <1>3, <1>4, Zenon

\* The columns a bootstrap writes: no other authority unless it asks for one; and then another
\* one, unless the authority has moved since it was read.
LEMMA WrittenRow ==
    ASSUME Inv, NEW h \in Handlers, HasSeen(req[h]), req[h].op = "bootstrap"
    PROVE  LET r == req[h]
               m == member[r.member]
           IN  /\ r.member \in Members /\ Written(r) \in Authorities
               /\ ~Changed(r) => m # NoRow /\ Written(r).active = m.active
               /\ ~Changed(r) /\ (~Writes(r) \/ Authority(r.seen) = Authority(m)) =>
                      Authority(Written(r)) = Authority(m)
               /\ Changed(r) /\ Authority(r.seen) = Authority(m) => Authority(Written(r)) # Authority(m)
<1>0. PICK r : r = req[h]
  BY Zenon
<1>1. PICK m : m = member[r.member]
  BY Zenon
<1>2. r.member \in Members /\ r.want \in Authorities /\ r.want # NoRow /\ r.want.sorted
  BY <1>0, AuthorityConstants, Zenon DEF Inv, KindOK
<1>3. r.seen \in Authorities \cup {NoRow} /\ m \in Authorities \cup {NoRow}
  BY <1>0, <1>1, <1>2, Zenon DEF Inv, TypeOK, RowTypes, Requests
<1>4. r.seen # NoRow => m # NoRow
  BY <1>0, <1>1, Zenon DEF Inv, RevisionOK, Knows
<1>5. CASE r.seen = NoRow
  <2>1. Written(r) = r.want
    BY <1>5, Zenon DEF Written
  <2>2. Changed(r)
    BY <1>2, <1>5, SameAuthority, Zenon DEF Changed
  <2> QED
    BY <1>0, <1>1, <1>2, <1>5, <2>1, <2>2, Zenon DEF Changed
<1>6. CASE r.seen # NoRow
  <2>1. PICK seen \in Authorities, want \in Authorities : seen = r.seen /\ want = r.want /\ want.sorted
    BY <1>2, <1>3, <1>6, Zenon
  <2>2. m \in Authorities
    BY <1>3, <1>4, <1>6, Zenon
  <2>3. PICK relisted : relisted = (seen.scope # want.scope \/ ~seen.sorted)
    BY Zenon
  <2>4. PICK active, scope, sorted :
            /\ active = (IF seen.active # want.active THEN want.active ELSE m.active)
            /\ scope = (IF relisted THEN want.scope ELSE m.scope)
            /\ sorted = (relisted \/ m.sorted)
            /\ Written(r) = [active |-> active, scope |-> scope, sorted |-> sorted]
    BY <1>1, <1>6, <2>1, <2>3, Zenon DEF Written
  <2>5. /\ Changed(r) <=> seen.active # want.active \/ seen.scope # want.scope
        /\ Writes(r) <=> seen # want
        /\ Authority(seen) = Authority(m) <=> seen.active = m.active /\ seen.scope = m.scope
    BY <2>1, <2>2, SameAuthority, Zenon DEF Changed, Writes
  <2>6. PICK row : row = Written(r)
    BY Zenon
  <2>7. row \in Authorities
    <3>1. sorted \in BOOLEAN
      BY <2>4, Zenon
    <3>2. /\ want.active \in BOOLEAN /\ m.active \in BOOLEAN
          /\ want.scope \in SUBSET Customers /\ m.scope \in SUBSET Customers
      BY <2>1, <2>2, Zenon DEF Authorities
    <3>3. active \in BOOLEAN /\ scope \in SUBSET Customers
      BY <2>4, <3>2, Zenon
    <3> QED
      BY <2>4, <2>6, <3>1, <3>3, RowOf, Zenon
  <2>8. /\ row.active = IF seen.active # want.active THEN want.active ELSE m.active
        /\ row.scope = IF relisted THEN want.scope ELSE m.scope
    BY <2>4, <2>6
  <2>9. Authority(row) = Authority(m) <=> row.active = m.active /\ row.scope = m.scope
    BY <2>2, <2>7, SameAuthority, Zenon
  <2>10. ~Changed(r) => row.active = m.active
    BY <2>5, <2>8, Zenon
  <2>11. ~Changed(r) /\ (~Writes(r) \/ Authority(seen) = Authority(m)) => Authority(row) = Authority(m)
    BY <2>1, <2>3, <2>5, <2>8, <2>9, <2>10, Zenon
  <2>12. Changed(r) /\ Authority(seen) = Authority(m) => Authority(row) # Authority(m)
    BY <2>3, <2>5, <2>8, <2>9, Zenon
  <2> QED
    BY <1>0, <1>1, <1>2, <1>4, <1>6, <2>1, <2>6, <2>7, <2>10, <2>11, <2>12, Zenon
<1> QED
  BY <1>5, <1>6, Zenon

\* What a push writes changes the authority, unless that has moved since it was read.
LEMMA GrantedRow ==
    ASSUME Inv, NEW h \in Handlers, req[h].pc = "granted"
    PROVE  LET r == req[h]
               m == member[r.member]
           IN  /\ r.member \in Members /\ Granted(r) \in Authorities /\ Granted(r).active = m.active
               /\ Authority(r.seen) = Authority(m) => Authority(Granted(r)) # Authority(m)
<1>0. PICK r : r = req[h]
  BY Zenon
<1>1. PICK m : m = member[r.member]
  BY Zenon
<1>2. /\ r.member \in Members /\ r.customer \in Customers /\ r.seen \in Authorities \cup {NoRow}
      /\ m \in Authorities \cup {NoRow}
  BY <1>0, <1>1, Zenon DEF Inv, KindOK, TypeOK, RowTypes, Requests
<1>3. /\ r.seen \in Authorities /\ m \in Authorities /\ r.customer \notin r.seen.scope
  BY <1>0, <1>1, <1>2, Zenon DEF Inv, RevisionOK, Knows, HasSeen
<1>4. PICK active, scope, sorted :
          /\ active = m.active /\ scope = r.seen.scope \cup {r.customer}
          /\ sorted = (r.seen.sorted /\ \A x \in r.seen.scope : x < r.customer)
          /\ Granted(r) = [active |-> active, scope |-> scope, sorted |-> sorted]
  BY <1>1, Zenon DEF Granted
<1>5. active \in BOOLEAN /\ r.seen.scope \in SUBSET Customers
  BY <1>3, <1>4, Zenon DEF Authorities
<1>6. sorted \in BOOLEAN
  BY <1>4, Zenon
<1>7. scope \in SUBSET Customers
  BY <1>2, <1>4, <1>5, Zenon
<1>8. Granted(r) \in Authorities
  BY <1>4, <1>5, <1>6, <1>7, RowOf, Zenon
<1>9. PICK row \in Authorities : row = Granted(r)
  BY <1>8, Zenon
<1>10. row.active = m.active /\ row.scope = r.seen.scope \cup {r.customer}
  BY <1>4, <1>9
<1>11. Authority(r.seen) = Authority(m) => Authority(row) # Authority(m)
  <2>1. Authority(r.seen) = Authority(m) <=> r.seen.active = m.active /\ r.seen.scope = m.scope
    BY <1>3, SameAuthority, Zenon
  <2>2. Authority(row) = Authority(m) <=> row.active = m.active /\ row.scope = m.scope
    BY <1>3, <1>9, SameAuthority, Zenon
  <2>3. r.customer \in row.scope
    BY <1>10, Zenon
  <2> QED
    BY <1>3, <2>1, <2>2, <2>3, Zenon
<1> QED
  BY <1>0, <1>1, <1>2, <1>8, <1>9, <1>10, <1>11, Zenon

\* The commit of a bootstrap, in one place for the steps below.
LEMMA IdentityStored ==
    ASSUME Inv, NEW h \in Handlers, HasSeen(req[h]), req[h].op = "bootstrap", StoreIdentity(req[h])
    PROVE  LET r == req[h] IN
           /\ org' \in Nat \cup {NoRow} /\ overlapped' \in BOOLEAN /\ session' \in [Ids -> Sessions \cup {NoRow}]
           /\ r.member \in Members /\ Written(r) \in Authorities /\ StoreMembership(r.member, Written(r))
           /\ ~Changed(r) => /\ org' = org /\ org # NoRow /\ member[r.member] # NoRow
                             /\ Written(r).active = member[r.member].active
                             /\ ~overlapped' => ~overlapped /\ changes' = changes
           /\ Changed(r) => org' = r.rev + 1 /\ org' <= changes' /\ (~overlapped' => org' = changes')
<1>0. PICK r, row : r = req[h] /\ row = Written(r)
  BY Zenon
<1>1. PICK m : m = member[r.member]
  BY Zenon
<1>2. /\ r.member \in Members /\ row \in Authorities
      /\ ~Changed(r) => m # NoRow /\ row.active = m.active
      /\ ~Changed(r) /\ (~Writes(r) \/ Authority(r.seen) = Authority(m)) => Authority(row) = Authority(m)
      /\ Changed(r) /\ Authority(r.seen) = Authority(m) => Authority(row) # Authority(m)
  BY <1>0, <1>1, WrittenRow, Zenon
<1>3. /\ org' = IF Changed(r) THEN r.rev + 1 ELSE org
      /\ StoreMembership(r.member, row)
      /\ session' = [session EXCEPT ![r.n] = [member |-> r.member, revoked |-> FALSE, code |-> NoRow]]
      /\ overlapped' = (overlapped \/ (Writes(r) /\ org \notin {NoRow, r.rev}))
  BY <1>0, Zenon DEF StoreIdentity
<1>4. /\ org \in Nat \cup {NoRow} /\ changes \in Nat /\ overlapped \in BOOLEAN
      /\ session \in [Ids -> Sessions \cup {NoRow}] /\ r.rev \in Nat /\ r.n \in Ids
  BY <1>0, Zenon DEF Inv, TypeOK, RowTypes, Requests
<1>5. /\ org # NoRow => org <= changes /\ (~overlapped => org = changes)
      /\ org = NoRow => changes = 0 /\ m = NoRow
      /\ r.rev <= changes
      /\ Authority(r.seen) # Authority(m) => r.rev + 1 <= changes
  BY <1>0, <1>1, <1>2, Zenon DEF Inv, RevisionOK, Knows, RevisionCountsChanges
<1>6. /\ changes' \in Nat /\ changes' >= changes
      /\ changes' = IF Authority(row) # Authority(m) THEN changes + 1 ELSE changes
  BY <1>1, <1>2, <1>3, MembershipStored, Zenon
<1>7. org' \in Nat \cup {NoRow}
  BY <1>3, <1>4
<1>8. overlapped' \in BOOLEAN
  BY <1>3, Zenon
<1>9. session' \in [Ids -> Sessions \cup {NoRow}]
  BY <1>2, <1>3, <1>4, Zenon DEF Sessions
<1>10. ASSUME ~Changed(r)
       PROVE  org' = org /\ org # NoRow /\ m # NoRow /\ (~overlapped' => ~overlapped /\ changes' = changes)
  <2>1. org' = org /\ org # NoRow /\ m # NoRow
    BY <1>2, <1>3, <1>5, <1>10, Zenon
  <2>2. ASSUME ~overlapped'
        PROVE  ~overlapped /\ changes' = changes
    <3>1. ~overlapped /\ (Writes(r) => org = r.rev)
      BY <1>3, <2>1, <2>2, Zenon
    <3>2. Writes(r) => r.rev = changes
      BY <1>5, <2>1, <3>1, Zenon
    <3>3. Writes(r) => Authority(r.seen) = Authority(m)
      BY <1>4, <1>5, <3>2
    <3>4. Authority(row) = Authority(m)
      BY <1>2, <1>10, <3>3, Zenon
    <3> QED
      BY <1>6, <3>1, <3>4, Zenon
  <2> QED
    BY <2>1, <2>2, Zenon
<1>11. ASSUME Changed(r)
       PROVE  org' = r.rev + 1 /\ org' <= changes' /\ (~overlapped' => org' = changes')
  <2>1. org' = r.rev + 1
    BY <1>3, <1>11, Zenon
  <2>2. Authority(row) = Authority(m) => r.rev + 1 <= changes
    BY <1>2, <1>5, <1>11, Zenon
  <2>3. org' <= changes'
    BY <1>4, <1>5, <1>6, <2>1, <2>2
  <2>4. Writes(r)
    BY <1>11, Zenon DEF Changed, Writes
  <2>5. ~overlapped' => ~overlapped /\ org \in {NoRow, r.rev}
    BY <1>3, <2>4, Zenon
  <2>6. ~overlapped' => r.rev = changes
    BY <1>4, <1>5, <2>5
  <2>7. ~overlapped' => changes' = changes + 1
    BY <1>4, <1>6, <2>2, <2>6
  <2> QED
    BY <2>1, <2>3, <2>6, <2>7, Zenon
<1> QED
  BY <1>0, <1>1, <1>2, <1>3, <1>7, <1>8, <1>9, <1>10, <1>11, Zenon

-----------------------------------------------------------------------------
(* Who writes, and who locks.                                               *)

\* A bootstrap that has yet to store what it was asked for does.
Bootstraps(h) ==
    /\ HasSeen(req[h]) /\ Bootstrapped(req[h]) /\ req[h].op = "bootstrap"
    /\ ~req[h].stored /\ ~req[h].lost /\ StoreIdentity(req[h]) /\ code' = code

\* Only four kinds of steps write memberships, sessions or codes.
LEMMA Writers ==
    ASSUME Inv, NEW h \in Handlers, Arrival(h) \/ Step(h)
    PROVE  \/ KeepIdentity /\ code' = code
           \/ Bootstraps(h)
           \/ IssueGrant(h) \/ MintSession(h) \/ CommitPush(h)
<1> USE DEF rows, history, KeepIdentity
<1>1. Arrival(h) => KeepIdentity /\ code' = code
  BY Zenon DEF Arrival, BeginBootstrap, BeginReference, BeginIssue, BeginExchange, BeginPush
<1>2. CASE FinishBootstrap(h)
  BY <1>2, Zenon DEF FinishBootstrap, Bootstraps, HasSeen, Bootstrapped, Seeding
<1>3. CASE SeedLookup(h) \/ SeedOwner(h) \/ SeedInsert(h)
  <2>0. req[h].pc \in {"lookup", "owner", "insert"} /\ ~req[h].stored
    BY <1>3, Zenon DEF SeedLookup, SeedOwner, SeedInsert, Inv, KindOK
  <2>1. CASE StoreIdentity(req[h]) /\ req[h].op = "bootstrap" /\ ~req[h].lost /\ code' = code
    BY <2>0, <2>1, SMTT(30) DEF Bootstraps, HasSeen, Bootstrapped, Seeding
  <2> QED
    BY <1>3, <2>1, Zenon DEF SeedLookup, SeedOwner, SeedInsert, CommitSeed, Fail
<1>4. CASE \/ ReadOrganization(h) \/ CreateOrganization(h) \/ ReadMembership(h) \/ Flush(h) \/ Bump(h)
           \/ SeedCheck(h) \/ FinishRead(h) \/ PublishCheck(h) \/ Publish(h)
           \/ SelectGrant(h) \/ LockOrganization(h) \/ ReadCreator(h) \/ GrantScope(h) \/ Abort(h)
  BY <1>4, Zenon
     DEF ReadOrganization, CreateOrganization, ReadMembership, Flush, Bump, SeedCheck, FinishRead,
         PublishCheck, Publish, SelectGrant, LockOrganization, ReadCreator, GrantScope, Abort, Fail
<1> QED
  BY <1>1, <1>2, <1>3, <1>4, Zenon DEF Step

\* Locks have a type, and nobody takes a lock from another request.
LocksStay(h) ==
    /\ orgLock' \in Handlers \cup {Free} /\ codeLock' \in [Ids -> Handlers \cup {Free}]
    /\ \A g \in Handlers \ {h} :
           /\ orgLock = g => orgLock' = g
           /\ \A c \in Ids : codeLock[c] = g => codeLock'[c] = g

LEMMA LocksStep ==
    ASSUME Inv, NEW h \in Handlers, Arrival(h) \/ Step(h)
    PROVE  LocksStay(h)
<1>1. orgLock \in Handlers \cup {Free} /\ codeLock \in [Ids -> Handlers \cup {Free}] /\ Free \notin Handlers
  BY AuthorityConstants, Zenon DEF Inv, TypeOK, RowTypes
<1>2. KindOK(h) /\ req[h].code \in Ids
  BY Zenon DEF Inv, TypeOK, RowTypes, Requests
<1>3. UNCHANGED <<orgLock, codeLock>> => LocksStay(h)
  BY <1>1, Zenon DEF LocksStay
<1>4. Release(h) => LocksStay(h)
  BY <1>1, Zenon DEF LocksStay, Release
<1>5. UNCHANGED codeLock /\ orgLock' = h /\ orgLock \in {Free, h} => LocksStay(h)
  BY <1>1, SMTT(30) DEF LocksStay
<1> USE DEF locks, End
<1>6. Arrival(h) => LocksStay(h)
  BY <1>3, Zenon DEF Arrival, BeginBootstrap, BeginReference, BeginIssue, BeginExchange, BeginPush
<1>7. CASE CreateOrganization(h) \/ Flush(h) \/ Bump(h) \/ LockOrganization(h)
  BY <1>3, <1>4, <1>5, <1>7, Zenon DEF CreateOrganization, Flush, Bump, LockOrganization, Fail
<1>8. CASE SelectGrant(h)
  <2>1. CASE UNCHANGED orgLock /\ codeLock[req[h].code] = Free /\ codeLock' = [codeLock EXCEPT ![req[h].code] = h]
    BY <1>1, <1>2, <2>1, SMTT(30) DEF LocksStay
  <2> QED
    BY <1>4, <1>8, <2>1, Zenon DEF SelectGrant
<1>9. CASE \/ ReadOrganization(h) \/ ReadMembership(h) \/ FinishBootstrap(h) \/ SeedCheck(h)
           \/ SeedLookup(h) \/ SeedOwner(h) \/ SeedInsert(h)
           \/ FinishRead(h) \/ PublishCheck(h) \/ Publish(h) \/ IssueGrant(h) \/ MintSession(h)
           \/ ReadCreator(h) \/ GrantScope(h) \/ CommitPush(h) \/ Abort(h)
  BY <1>3, <1>4, <1>9, Zenon
     DEF ReadOrganization, ReadMembership, FinishBootstrap, SeedCheck, SeedLookup, SeedOwner, SeedInsert,
         CommitSeed, FinishRead, PublishCheck, Publish, IssueGrant, MintSession, ReadCreator, GrantScope,
         CommitPush, Abort, Fail
<1> QED
  BY <1>6, <1>7, <1>8, <1>9, Zenon DEF Step

\* The rows that are there stay there.
RowsStay ==
    /\ \A m \in Members : member[m] # NoRow => member'[m] # NoRow
    /\ \A s \in Ids : session[s] # NoRow => session'[s] # NoRow
    /\ \A c \in Ids : code[c] # NoRow => code'[c] # NoRow

LEMMA RowsStep ==
    ASSUME Inv, Next
    PROVE  RowTypes' /\ RowsStay
<1>1. RowTypes /\ req \in [Handlers -> Requests] /\ NoRow \notin Sessions \cup Codes \cup Authorities
  BY AuthorityConstants, Zenon DEF Inv, TypeOK
<1>2. KeepIdentity /\ code' = code => RowTypes' /\ RowsStay
  BY <1>1, Zenon DEF KeepIdentity, RowTypes, RowsStay
<1>3. ASSUME NEW h \in Handlers, Bootstraps(h)
      PROVE  RowTypes' /\ RowsStay
  <2>1. RowTypes' /\ \A m \in Members : member[m] # NoRow => member'[m] # NoRow
    BY <1>1, <1>3, IdentityStored, MembershipStored, Zenon DEF RowTypes, Bootstraps
  <2>2. \A s \in Ids : session[s] # NoRow => session'[s] # NoRow
    <3>1. session' = [session EXCEPT ![req[h].n] =
                          [member |-> req[h].member, revoked |-> FALSE, code |-> NoRow]]
      BY <1>3, Zenon DEF Bootstraps, StoreIdentity
    <3>2. req[h].member \in Members
      BY <1>3, WrittenRow, Zenon DEF Bootstraps
    <3>3. [member |-> req[h].member, revoked |-> FALSE, code |-> NoRow] \in Sessions
      BY <3>2, Zenon DEF Sessions
    <3> QED
      BY <1>1, <3>1, <3>3, Zenon DEF RowTypes
  <2> QED
    BY <1>3, <2>1, <2>2, Zenon DEF RowsStay, Bootstraps
<1>4. ASSUME NEW h \in Handlers, IssueGrant(h)
      PROVE  RowTypes' /\ RowsStay
  <2>1. /\ UNCHANGED <<org, member, session, changes, overlapped>>
        /\ code' = [code EXCEPT ![req[h].n] = [member |-> req[h].member, consumed |-> FALSE, expired |-> FALSE]]
    BY <1>4, Zenon DEF IssueGrant, history
  <2>2. req[h].member \in Members
    BY <1>4, Zenon DEF Inv, KindOK, IssueGrant
  <2>3. [member |-> req[h].member, consumed |-> FALSE, expired |-> FALSE] \in Codes
    BY <2>2, Zenon DEF Codes
  <2> QED
    BY <1>1, <2>1, <2>3, Zenon DEF RowTypes, RowsStay
<1>5. ASSUME NEW h \in Handlers, MintSession(h)
      PROVE  RowTypes' /\ RowsStay
  <2> DEFINE c == req[h].code
             s == [member |-> code[c].member, revoked |-> FALSE, code |-> c]
  <2>1. /\ UNCHANGED <<org, member, changes, overlapped>>
        /\ code' = [code EXCEPT ![c].consumed = TRUE] /\ session' = [session EXCEPT ![req[h].n] = s]
    BY <1>5, Zenon DEF MintSession
  <2>2. c \in Ids /\ code[c] \in Codes
    BY <1>1, <1>5, Zenon DEF Inv, KindOK, MintSession, RowTypes, Requests
  <2>3. s \in Sessions /\ [code[c] EXCEPT !.consumed = TRUE] \in Codes
    BY <2>2, Zenon DEF Sessions, Codes
  <2> HIDE DEF s
  <2> QED
    BY <1>1, <2>1, <2>2, <2>3, Zenon DEF RowTypes, RowsStay
<1>6. ASSUME NEW h \in Handlers, CommitPush(h)
      PROVE  RowTypes' /\ RowsStay
  <2>1. /\ UNCHANGED <<session, code, overlapped>> /\ org' = req[h].rev + 1
        /\ StoreMembership(req[h].member, Granted(req[h]))
    BY <1>6, Zenon DEF CommitPush
  <2>2. req[h].member \in Members /\ Granted(req[h]) \in Authorities
    BY <1>6, GrantedRow, Zenon DEF CommitPush
  <2>3. /\ member' \in [Members -> Authorities \cup {NoRow}] /\ changes' \in Nat
        /\ \A m \in Members : member[m] # NoRow => member'[m] # NoRow
    BY <2>1, <2>2, MembershipStored, Zenon
  <2>4. org' \in Nat
    BY <1>1, <2>1 DEF Requests
  <2> QED
    BY <1>1, <2>1, <2>3, <2>4, Zenon DEF RowTypes, RowsStay
<1>7. ASSUME NEW s \in Ids, Revoke(s) \/ Logout(s)
      PROVE  RowTypes' /\ RowsStay
  <2>1. /\ session[s] # NoRow /\ UNCHANGED <<org, member, code, changes, overlapped>>
        /\ session' = [session EXCEPT ![s].revoked = TRUE]
    BY <1>7, Zenon DEF Revoke, Logout, history
  <2>2. [session[s] EXCEPT !.revoked = TRUE] \in Sessions
    BY <1>1, <2>1, Zenon DEF RowTypes, Sessions
  <2> QED
    BY <1>1, <2>1, <2>2, Zenon DEF RowTypes, RowsStay
<1>8. ASSUME NEW c \in Ids, ExpireGrant(c)
      PROVE  RowTypes' /\ RowsStay
  <2>1. /\ code[c] # NoRow /\ UNCHANGED <<org, member, session, changes, overlapped>>
        /\ code' = [code EXCEPT ![c].expired = TRUE]
    BY <1>8, Zenon DEF ExpireGrant, history
  <2>2. [code[c] EXCEPT !.expired = TRUE] \in Codes
    BY <1>1, <2>1, Zenon DEF RowTypes, Codes
  <2> QED
    BY <1>1, <2>1, <2>2, Zenon DEF RowTypes, RowsStay
<1> QED
  BY <1>2, <1>3, <1>4, <1>5, <1>6, <1>7, <1>8, Writers, Zenon DEF Next


-----------------------------------------------------------------------------
(* What becomes of a request.                                               *)

\* What a request is about.
SameRequest(r, s) ==
    /\ s.op = r.op /\ s.n = r.n /\ s.member = r.member /\ s.want = r.want
    /\ s.content = r.content /\ s.code = r.code /\ s.customer = r.customer

\* It ends, or goes on being about the same; and stores an identity at most once.
Fate(h) ==
    \/ req'[h] = IdleRequest
    \/ /\ SameRequest(req[h], req'[h])
       /\ \/ KeepIdentity /\ code' = code /\ (req'[h].stored <=> req[h].stored)
          \/ Bootstraps(h) /\ req'[h].stored

LEMMA FateStep ==
    ASSUME Inv, NEW h \in Handlers, Step(h)
    PROVE  Fate(h)
<1>1. req \in [Handlers -> Requests]
  BY Zenon DEF Inv, TypeOK
<1>2. End(h) => Fate(h)
  BY <1>1, Zenon DEF End, Fate
<1>3. ASSUME NEW p, Goto(h, p), KeepIdentity, code' = code
      PROVE  Fate(h)
  BY <1>1, <1>3 DEF Goto, Fate, SameRequest, Requests
<1> USE DEF rows, history, KeepIdentity
<1>4. CASE ReadOrganization(h) \/ ReadMembership(h)
  BY <1>1, <1>4 DEF ReadOrganization, ReadMembership, Fate, SameRequest, Requests
<1>5. CASE SeedCheck(h)
  <2>1. CASE Goto(h, "seeded")
    BY <1>3, <1>5, <2>1, Zenon DEF SeedCheck
  <2>2. CASE \E p \in Baselines : req' = [req EXCEPT ![h].pc = "lookup", ![h].first = p]
    <3>1. PICK p \in Baselines : req' = [req EXCEPT ![h].pc = "lookup", ![h].first = p]
      BY <2>2, ZenonT(60)
    <3>2. SameRequest(req[h], req'[h]) /\ req'[h].stored = req[h].stored
      BY <1>1, <3>1 DEF SameRequest, Requests
    <3> QED
      BY <1>5, <3>2, Zenon DEF SeedCheck, Fate
  <2> QED
    BY <1>5, <2>1, <2>2, Zenon DEF SeedCheck
<1>6. CASE SeedLookup(h) \/ SeedOwner(h) \/ SeedInsert(h)
  <2>1. CASE /\ StoreIdentity(req[h]) /\ req[h].op = "bootstrap" /\ ~req[h].lost /\ code' = code
             /\ req' = [req EXCEPT ![h].pc = "seeded", ![h].stored = TRUE]
    <3>0. req[h].pc \in {"lookup", "owner", "insert"} /\ ~req[h].stored
      BY <1>6, Zenon DEF SeedLookup, SeedOwner, SeedInsert, Inv, KindOK
    <3>1. Bootstraps(h)
      BY <2>1, <3>0, SMTT(30) DEF Bootstraps, HasSeen, Bootstrapped, Seeding
    <3>2. SameRequest(req[h], req'[h]) /\ req'[h].stored
      BY <1>1, <2>1 DEF SameRequest, Requests
    <3> QED
      BY <3>1, <3>2, Zenon DEF Fate
  <2>2. CASE KeepIdentity /\ code' = code /\ \E p \in Places : Goto(h, p)
    BY <1>3, <2>2, Zenon
  <2>3. CASE /\ KeepIdentity /\ code' = code
             /\ req' = [req EXCEPT ![h].pc = "seed", ![h].attempt = req[h].attempt + 1, ![h].lost = TRUE]
    BY <1>1, <2>3 DEF Fate, SameRequest, Requests
  <2> QED
    BY <1>2, <1>6, <2>1, <2>2, <2>3, Zenon DEF SeedLookup, SeedOwner, SeedInsert, CommitSeed, Fail, Places
<1>7. CASE CreateOrganization(h) \/ Flush(h) \/ Bump(h)
  BY <1>2, <1>3, <1>7, Zenon DEF CreateOrganization, Flush, Bump, Fail
<1>8. CASE PublishCheck(h) \/ SelectGrant(h) \/ GrantScope(h) \/ Publish(h)
  BY <1>2, <1>3, <1>8, Zenon DEF PublishCheck, SelectGrant, GrantScope, Publish, Fail
<1>9. CASE LockOrganization(h) \/ ReadCreator(h)
  <2>1. CASE LockOrganization(h)
    BY <1>1, <2>1 DEF LockOrganization, Fate, SameRequest, Requests
  <2>2. CASE ReadCreator(h) /\ req' = [req EXCEPT ![h].pc = "grant", ![h].seen = member[req[h].member]]
    BY <1>1, <2>2 DEF ReadCreator, Fate, SameRequest, Requests
  <2> QED
    BY <1>2, <1>9, <2>1, <2>2, Zenon DEF ReadCreator
<1>10. CASE FinishBootstrap(h) \/ FinishRead(h) \/ IssueGrant(h) \/ MintSession(h) \/ CommitPush(h) \/ Abort(h)
  BY <1>2, <1>10, SMTT(30)
     DEF FinishBootstrap, FinishRead, IssueGrant, MintSession, CommitPush, Abort
<1> QED
  BY <1>4, <1>5, <1>6, <1>7, <1>8, <1>9, <1>10, Zenon DEF Step

\* What another request is given and where it is does not change.
LEMMA KindOfOthers ==
    ASSUME Inv, RowsStay, NEW g \in Handlers, req'[g] = req[g]
    PROVE  KindOK(g)'
<1>1. KindOK(g) /\ req[g].code \in Ids
  BY SMTT(30) DEF Inv, TypeOK, Requests
<1> QED
  BY <1>1, Zenon DEF KindOK, RowsStay

\* Where a request that goes on may get to.
MayMove(r, q) ==
    \/ r.pc = "organization" /\ q \in {"create", "membership"}
    \/ r.pc = "create" /\ q = "membership"
    \/ r.pc = "membership" /\ q = "flush"
    \/ r.pc = "flush" /\ q \in {"bump", "seed"}
    \/ r.pc = "bump" /\ q = "seed"
    \/ r.pc = "seed" /\ q \in {"seeded", "lookup"}
    \/ r.pc = "lookup" /\ q \in {"seeded", "owner"}
    \/ r.pc = "owner" /\ q = "insert"
    \/ r.pc = "insert" /\ q \in {"seeded", "seed"}
    \/ r.pc = "seeded" /\ q = "publish" /\ r.op = "publish"
    \/ r.pc = "select" /\ q = "mint"
    \/ r.pc = "lock" /\ q = "creator"
    \/ r.pc = "creator" /\ q = "grant"
    \/ r.pc = "grant" /\ q = "granted"

LEMMA Moves ==
    ASSUME Inv, NEW h \in Handlers, Step(h), req'[h] # IdleRequest
    PROVE  MayMove(req[h], req'[h].pc)
<1> USE DEF MayMove
<1>1. req \in [Handlers -> Requests]
  BY Zenon DEF Inv, TypeOK
<1>2. ~End(h)
  BY <1>1, Zenon DEF End
<1>3. \A p : Goto(h, p) => req'[h].pc = p
  BY <1>1 DEF Goto, Requests
<1>4. CASE ReadOrganization(h) \/ ReadMembership(h) \/ LockOrganization(h) \/ ReadCreator(h)
  BY <1>1, <1>2, <1>4 DEF ReadOrganization, ReadMembership, LockOrganization, ReadCreator, Requests
<1>5. CASE SeedCheck(h)
  BY <1>1, <1>3, <1>5, Zenon DEF SeedCheck, Requests
<1>6. CASE SeedLookup(h) \/ SeedOwner(h) \/ SeedInsert(h)
  BY <1>1, <1>2, <1>3, <1>6, SMTT(30) DEF SeedLookup, SeedOwner, SeedInsert, CommitSeed, Fail, Requests
<1>7. CASE CreateOrganization(h) \/ Flush(h) \/ Bump(h)
  BY <1>2, <1>3, <1>7, ZenonT(60) DEF CreateOrganization, Flush, Bump, Fail
<1>8. CASE PublishCheck(h) \/ SelectGrant(h) \/ GrantScope(h) \/ Publish(h)
  BY <1>2, <1>3, <1>8, Zenon DEF PublishCheck, SelectGrant, GrantScope, Publish, Fail
<1>9. CASE FinishBootstrap(h) \/ FinishRead(h) \/ IssueGrant(h) \/ MintSession(h) \/ CommitPush(h) \/ Abort(h)
  BY <1>2, <1>9, SMTT(30)
     DEF FinishBootstrap, FinishRead, IssueGrant, MintSession, CommitPush, Abort
<1> QED
  BY <1>4, <1>5, <1>6, <1>7, <1>8, <1>9, Zenon DEF Step

\* A request is marked as having stored its identity, or as having lost it, by its seed.
LEMMA Marks ==
    ASSUME Inv, NEW h \in Handlers, Step(h), req'[h] # IdleRequest
    PROVE  /\ \/ req'[h].stored <=> req[h].stored
              \/ req[h].pc \in {"lookup", "insert"} /\ req'[h].pc = "seeded" /\ req[h].op = "bootstrap"
           /\ (req'[h].lost <=> req[h].lost) \/ (req[h].pc = "insert" /\ req'[h].pc = "seed")
<1>1. req \in [Handlers -> Requests]
  BY Zenon DEF Inv, TypeOK
<1>2. ~End(h)
  BY <1>1, Zenon DEF End
<1>3. \A p : Goto(h, p) => req'[h].lost = req[h].lost /\ req'[h].stored = req[h].stored
  BY <1>1, Zenon DEF Goto, Requests
<1>4. CASE ReadOrganization(h) \/ ReadMembership(h) \/ LockOrganization(h) \/ ReadCreator(h)
  BY <1>1, <1>2, <1>4 DEF ReadOrganization, ReadMembership, LockOrganization, ReadCreator, Requests
<1>5. CASE SeedCheck(h)
  BY <1>1, <1>3, <1>5 DEF SeedCheck, Requests
<1>6. CASE SeedLookup(h) \/ SeedOwner(h) \/ SeedInsert(h)
  BY <1>1, <1>2, <1>3, <1>6, SMTT(30) DEF SeedLookup, SeedOwner, SeedInsert, CommitSeed, Fail, Requests
<1>7. CASE CreateOrganization(h) \/ Flush(h) \/ Bump(h)
  BY <1>2, <1>3, <1>7, SMTT(30) DEF CreateOrganization, Flush, Bump, Fail
<1>8. CASE PublishCheck(h) \/ SelectGrant(h) \/ GrantScope(h) \/ Publish(h)
  BY <1>2, <1>3, <1>8, Zenon DEF PublishCheck, SelectGrant, GrantScope, Publish, Fail
<1>9. CASE FinishBootstrap(h) \/ FinishRead(h) \/ IssueGrant(h) \/ MintSession(h) \/ CommitPush(h) \/ Abort(h)
  BY <1>2, <1>9, SMTT(30)
     DEF FinishBootstrap, FinishRead, IssueGrant, MintSession, CommitPush, Abort
<1> QED
  BY <1>4, <1>5, <1>6, <1>7, <1>8, <1>9, Zenon DEF Step

\* A request that arrives.
NewRequest(r) ==
    /\ r.rev = 0 /\ r.attempt = 1 /\ ~r.stored /\ ~r.lost
    /\ \/ r.op = "bootstrap" /\ r.pc = "organization" /\ r.n = begun + 1 /\ r.member \in Members /\ r.want \in Wanted
       \/ r.op \in {"read", "publish"} /\ r.pc = "seed" /\ r.n = 0 /\ (r.op = "publish" => r.content \in Contents)
       \/ r.op = "issue" /\ r.pc = "issue" /\ r.n = begun + 1 /\ r.member \in Members
       \/ r.op = "exchange" /\ r.pc = "select" /\ r.n = begun + 1 /\ code[r.code] # NoRow
       \/ r.op = "push" /\ r.pc = "lock" /\ r.n = 0 /\ r.member \in Members /\ r.customer \in Customers
          /\ member[r.member] # NoRow

LEMMA Arrives ==
    ASSUME Inv, NEW h \in Handlers, Arrival(h)
    PROVE  /\ req[h] = IdleRequest /\ begun \in Nat /\ begun < MaxRequests /\ begun' = begun + 1
           /\ UNCHANGED <<rows, locks, history>> /\ NewRequest(req'[h])
<1>1. req \in [Handlers -> Requests] /\ begun \in Nat /\ session \in [Ids -> Sessions \cup {NoRow}]
  BY AuthorityConstants DEF Inv, TypeOK, RowTypes, Ids
<1> USE DEF Begin, IdleRequest, NewRequest
<1>2. CASE \E m \in Members, want \in Wanted : BeginBootstrap(h, m, want)
  BY <1>1, <1>2 DEF BeginBootstrap
<1>3. CASE \E s \in Ids, content \in Contents \cup {NoRow} : BeginReference(h, s, content)
  BY <1>1, <1>3 DEF BeginReference
<1>4. CASE \E m \in Members : BeginIssue(h, m)
  BY <1>1, <1>4 DEF BeginIssue
<1>5. CASE \E c \in Ids : BeginExchange(h, c)
  BY <1>1, <1>5 DEF BeginExchange
<1>6. CASE \E s \in Ids, c \in Customers : BeginPush(h, s, c)
  BY <1>1, <1>6 DEF BeginPush, Usable, Sessions
<1> QED
  BY <1>2, <1>3, <1>4, <1>5, <1>6, Zenon DEF Arrival

LEMMA KindStep ==
    ASSUME Inv, Next
    PROVE  \A g \in Handlers : KindOK(g)'
<1>1. RowsStay /\ req \in [Handlers -> Requests]
  BY RowsStep, Zenon DEF Inv, TypeOK
<1>2. ASSUME NEW h \in Handlers, Arrival(h) \/ Step(h)
      PROVE  \A g \in Handlers : KindOK(g)'
  <2>1. OnlyMine(h)
    BY <1>2, RequestsStep, Zenon
  <2>2. \A g \in Handlers \ {h} : KindOK(g)'
    BY <1>1, <2>1, KindOfOthers, SMTT(30) DEF OnlyMine
  <2>3. req'[h] = IdleRequest => KindOK(h)'
    BY DEF KindOK, IdleRequest
  <2>4. ASSUME Arrival(h)
        PROVE  KindOK(h)'
    <3>1. NewRequest(req'[h]) /\ begun \in Nat /\ UNCHANGED <<code, member>>
      BY <2>4, Arrives, SMTT(30) DEF rows
    <3> QED
      BY <3>1 DEF KindOK, NewRequest
  <2>5. ASSUME Step(h), req'[h] # IdleRequest
        PROVE  KindOK(h)'
    <3>1. /\ SameRequest(req[h], req'[h]) /\ KindOK(h) /\ req[h].code \in Ids
      BY <1>1, <2>5, FateStep, Zenon DEF Fate, Inv, Requests
    <3>2. /\ \/ req'[h].stored <=> req[h].stored
             \/ req[h].pc \in {"lookup", "insert"} /\ req'[h].pc = "seeded" /\ req[h].op = "bootstrap"
          /\ (req'[h].lost <=> req[h].lost) \/ (req[h].pc = "insert" /\ req'[h].pc = "seed")
      BY <2>5, Marks, Zenon
    <3>3. MayMove(req[h], req'[h].pc)
      BY <2>5, Moves, Zenon
    <3> QED
      BY <1>1, <3>1, <3>2, <3>3, ZenonT(60) DEF KindOK, SameRequest, RowsStay, MayMove
  <2> QED
    BY <1>2, <2>2, <2>3, <2>4, <2>5, Zenon
<1>3. ASSUME req' = req
      PROVE  \A g \in Handlers : KindOK(g)'
  BY <1>1, <1>3, KindOfOthers, Zenon
<1> QED
  BY <1>2, <1>3, Zenon DEF Next, Revoke, Logout, ExpireGrant

LEMMA TypeStep ==
    ASSUME Inv, Next
    PROVE  TypeOK'
<1>1. RowTypes'
  BY RowsStep, Zenon
<1>2. TypeOK
  BY Zenon DEF Inv
<1>3. ASSUME NEW h \in Handlers, Arrival(h) \/ Step(h)
      PROVE  TypeOK'
  <2>1. OnlyMine(h) /\ LocksStay(h)
    BY <1>3, RequestsStep, LocksStep, Zenon
  <2>2. begun' \in Ids
    <3>1. Arrival(h) => begun' \in Ids
      BY Arrives, AuthorityConstants, SMTT(30) DEF Ids
    <3>2. Step(h) => begun' = begun
      BY Zenon
         DEF Step, ReadOrganization, CreateOrganization, ReadMembership, Flush, Bump, FinishBootstrap, SeedCheck,
             SeedLookup, SeedOwner, SeedInsert, CommitSeed, FinishRead, PublishCheck, Publish, IssueGrant,
             SelectGrant, MintSession, LockOrganization, ReadCreator, GrantScope, CommitPush, Abort, Fail, input
    <3> QED
      BY <1>2, <1>3, <3>1, <3>2, Zenon DEF TypeOK
  <2> QED
    BY <1>1, <2>1, <2>2, Zenon DEF TypeOK, OnlyMine, LocksStay
<1>4. ASSUME UNCHANGED <<req, locks, input>>
      PROVE  TypeOK'
  BY <1>1, <1>2, <1>4, Zenon DEF TypeOK, locks, input
<1> QED
  BY <1>3, <1>4, Zenon DEF Next, Revoke, Logout, ExpireGrant

-----------------------------------------------------------------------------
(* Names and codes.                                                         *)

\* A request makes rows of its own name only.
LEMMA OwnNames ==
    ASSUME Inv, NEW h \in Handlers, Arrival(h) \/ Step(h), NEW s \in Ids, s = 0 \/ s # req[h].n
    PROVE  (session'[s] = NoRow <=> session[s] = NoRow) /\ (code'[s] = NoRow <=> code[s] = NoRow)
<1>1. RowTypes /\ req[h] \in Requests /\ KindOK(h) /\ NoRow \notin Codes
  BY AuthorityConstants, SMTT(30) DEF Inv, TypeOK
<1>2. CASE KeepIdentity /\ code' = code
  BY <1>2, SMTT(30) DEF KeepIdentity
<1>3. CASE Bootstraps(h)
  BY <1>1, <1>3, SMTT(30) DEF Bootstraps, StoreIdentity, KindOK, RowTypes
<1>4. CASE IssueGrant(h)
  BY <1>1, <1>4, Zenon DEF IssueGrant, KindOK, RowTypes
<1>5. CASE MintSession(h)
  <2>1. session'[s] = session[s]
    BY <1>1, <1>5, Zenon DEF MintSession, KindOK, RowTypes
  <2>2. code' = [code EXCEPT ![req[h].code].consumed = TRUE] /\ code[req[h].code] # NoRow /\ req[h].code \in Ids
    BY <1>1, <1>5, Zenon DEF MintSession, KindOK, Requests
  <2>3. [code[req[h].code] EXCEPT !.consumed = TRUE] \in Codes
    BY <1>1, <2>2, Zenon DEF RowTypes, Codes
  <2> QED
    BY <1>1, <2>1, <2>2, <2>3, Zenon DEF RowTypes
<1>6. CASE CommitPush(h)
  BY <1>6, Zenon DEF CommitPush
<1> QED
  BY <1>2, <1>3, <1>4, <1>5, <1>6, Writers, Zenon

LEMMA NamesStep ==
    ASSUME Inv, Next
    PROVE  NamesOK'
<1>1. NamesOK /\ TypeOK /\ (\A h \in Handlers : req[h].n \in Ids /\ req[h].n \in Nat) /\ begun \in Nat
  BY AuthorityConstants DEF Inv, TypeOK, Requests, Ids
<1>2. ASSUME NEW h \in Handlers, Arrival(h) \/ Step(h)
      PROVE  NamesOK'
  <2>1. \A g \in Handlers \ {h} : req'[g] = req[g]
    BY <1>2, RequestsStep, Zenon DEF OnlyMine
  <2>2. \A s \in Ids : s = 0 \/ s # req[h].n =>
            (session'[s] = NoRow <=> session[s] = NoRow) /\ (code'[s] = NoRow <=> code[s] = NoRow)
    BY <1>2, OwnNames, Zenon
  <2>3. ASSUME Arrival(h)
        PROVE  NamesOK'
    <3>1. /\ begun' = begun + 1 /\ begun < MaxRequests /\ UNCHANGED <<session, code>>
          /\ req'[h].n \in {0, begun + 1} /\ ~req'[h].stored
      BY <2>3, Arrives, Zenon DEF NewRequest, rows
    <3>2. begun + 1 \in Ids
      BY <1>1, <3>1, AuthorityConstants DEF Ids
    <3>3. /\ req'[h].n <= begun'
          /\ req'[h].n # 0 => code'[req'[h].n] = NoRow /\ (session'[req'[h].n] # NoRow <=> req'[h].stored)
      BY <1>1, <3>1, <3>2 DEF NamesOK
    <3>4. \A g \in Handlers \ {h} : req'[g].n # begun + 1
      BY <1>1, <2>1, SMTT(30) DEF NamesOK
    <3> QED
      BY <1>1, <2>1, <3>1, <3>3, <3>4, SMTT(30) DEF NamesOK, Ids
  <2>4. ASSUME Step(h)
        PROVE  NamesOK'
    <3>1. begun' = begun
      BY <2>4, ZenonT(60)
         DEF Step, ReadOrganization, CreateOrganization, ReadMembership, Flush, Bump, FinishBootstrap,
             SeedCheck, SeedLookup, SeedOwner, SeedInsert, CommitSeed, FinishRead, PublishCheck, Publish,
             IssueGrant, SelectGrant, MintSession, LockOrganization, ReadCreator, GrantScope, CommitPush, Abort, Fail, input
    <3>2. /\ req'[h].n \in {0, req[h].n}
          /\ req'[h].n # 0 => code'[req[h].n] = NoRow /\ (session'[req[h].n] # NoRow <=> req'[h].stored)
      <4>1. CASE req'[h] = IdleRequest
        BY <4>1, SMTT(30) DEF IdleRequest
      <4>2. CASE /\ SameRequest(req[h], req'[h]) /\ KeepIdentity /\ code' = code
                 /\ req'[h].stored <=> req[h].stored
        BY <1>1, <4>2, SMTT(30) DEF SameRequest, KeepIdentity, NamesOK
      <4>3. CASE SameRequest(req[h], req'[h]) /\ Bootstraps(h) /\ req'[h].stored
        <5>1. session' = [session EXCEPT ![req[h].n] = [member |-> req[h].member, revoked |-> FALSE, code |-> NoRow]]
          BY <4>3, SMTT(30) DEF Bootstraps, StoreIdentity
        <5>2. [member |-> req[h].member, revoked |-> FALSE, code |-> NoRow] \in Sessions
          BY <4>3, WrittenRow, SMTT(30) DEF Bootstraps, Sessions
        <5>3. session'[req[h].n] # NoRow
          BY <1>1, <5>1, <5>2, AuthorityConstants, ZenonT(60) DEF TypeOK, RowTypes
        <5> QED
          BY <1>1, <4>3, <5>3, SMTT(30) DEF SameRequest, Bootstraps, NamesOK
      <4> QED
        BY <2>4, <4>1, <4>2, <4>3, FateStep, SMTT(30) DEF Fate
    <3>3. \A s \in Ids : s > begun => s # req[h].n
      BY <1>1 DEF NamesOK, Ids
    <3> QED
      BY <1>1, <2>1, <2>2, <3>1, <3>2, <3>3, SMTT(30) DEF NamesOK
  <2> QED
    BY <1>2, <2>3, <2>4, Zenon
<1>3. ASSUME NEW s \in Ids, Revoke(s) \/ Logout(s)
      PROVE  NamesOK'
  <2>1. /\ UNCHANGED <<req, code, begun>> /\ session[s] # NoRow
        /\ session' = [session EXCEPT ![s].revoked = TRUE]
    BY <1>3, Zenon DEF Revoke, Logout, input
  <2>2. \A t \in Ids : session'[t] = NoRow <=> session[t] = NoRow
    BY <1>1, <1>3, <2>1, RowsStep, Zenon DEF RowsStay, TypeOK, RowTypes, Next
  <2> QED
    BY <1>1, <2>1, <2>2 DEF NamesOK
<1>4. ASSUME NEW c \in Ids, ExpireGrant(c)
      PROVE  NamesOK'
  <2>1. /\ UNCHANGED <<req, session, begun>> /\ code[c] # NoRow
        /\ code' = [code EXCEPT ![c].expired = TRUE]
    BY <1>4, Zenon DEF ExpireGrant, input
  <2>2. \A t \in Ids : code'[t] = NoRow <=> code[t] = NoRow
    BY <1>1, <1>4, <2>1, RowsStep, Zenon DEF RowsStay, TypeOK, RowTypes, Next
  <2> QED
    BY <1>1, <2>1, <2>2, Zenon DEF NamesOK
<1> QED
  BY <1>2, <1>3, <1>4, Zenon DEF Next

\* The first two parts of CodesOK, of one code.
SpentOnce(c) ==
    /\ code[c] = NoRow => \A s \in Ids : ~MintedBy(s, c)
    /\ code[c] # NoRow => /\ code[c].consumed <=> \E s \in Ids : MintedBy(s, c)
                          /\ \A s, t \in Ids : MintedBy(s, c) /\ MintedBy(t, c) => s = t

\* A code is as spent as before when it is consumed as before and has minted what it had.
LEMMA SpentAsBefore ==
    ASSUME NEW c, SpentOnce(c), \A s \in Ids : MintedBy(s, c)' <=> MintedBy(s, c),
           code'[c] = NoRow <=> code[c] = NoRow, code[c] # NoRow => (code'[c].consumed <=> code[c].consumed)
    PROVE  SpentOnce(c)'
BY Zenon DEF SpentOnce

LEMMA CodesStep ==
    ASSUME Inv, Next
    PROVE  CodesOK'
<1> USE AuthorityConstants
<1>1. /\ RowTypes /\ req \in [Handlers -> Requests] /\ (\A c \in Ids : SpentOnce(c))
      /\ NoRow \notin Ids /\ NoRow \notin Sessions /\ NoRow \notin Codes /\ Free \notin Handlers
  BY DEF Inv, TypeOK, CodesOK, CodeMintsOnce, SpentOnce, Ids
<1>2. ASSUME NEW h \in Handlers, Arrival(h) \/ Step(h)
      PROVE  \A c \in Ids : SpentOnce(c)'
  <2>1. CASE UNCHANGED <<session, code>>
    BY <1>1, <2>1, SpentAsBefore, Zenon DEF MintedBy
  <2>2. CASE Bootstraps(h)
    <3>1. /\ session' = [session EXCEPT ![req[h].n] = [member |-> req[h].member, revoked |-> FALSE, code |-> NoRow]]
          /\ code' = code /\ session[req[h].n] = NoRow
      BY <2>2, ZenonT(60) DEF Bootstraps, StoreIdentity, Inv, NamesOK, KindOK
    <3>2. \A s, c \in Ids : MintedBy(s, c)' <=> MintedBy(s, c)
      BY <1>1, <3>1, Zenon DEF MintedBy, RowTypes
    <3> QED
      BY <1>1, <3>1, <3>2, SpentAsBefore, Zenon
  <2>3. CASE IssueGrant(h)
    <3>0. PICK n \in Ids : n = req[h].n
      BY <1>1, SMTT(30) DEF Requests
    <3> DEFINE new == [member |-> req[h].member, consumed |-> FALSE, expired |-> FALSE]
    <3>1. code' = [code EXCEPT ![n] = new] /\ session' = session /\ n \in Ids /\ code[n] = NoRow
      BY <1>1, <3>0, <2>3, SMTT(30) DEF IssueGrant, Inv, NamesOK, KindOK, Requests
    <3>2. new \in Codes /\ ~new.consumed
      BY <2>3, Zenon DEF IssueGrant, Inv, KindOK, Codes
    <3> HIDE DEF new
    <3>3. \A s, c \in Ids : MintedBy(s, c)' <=> MintedBy(s, c)
      BY <3>1, Zenon DEF MintedBy
    <3>4. SpentOnce(n)'
      BY <1>1, <3>1, <3>2, <3>3, Zenon DEF RowTypes, SpentOnce
    <3>5. \A c \in Ids \ {n} : code'[c] = code[c]
      BY <1>1, <3>1, Zenon DEF RowTypes
    <3> QED
      BY <1>1, <3>3, <3>4, <3>5, SpentAsBefore, Zenon
  <2>4. CASE MintSession(h)
    <3>0. PICK n \in Ids, d \in Ids : n = req[h].n /\ d = req[h].code
      BY <1>1, Zenon DEF Requests
    <3> DEFINE new == [member |-> code[d].member, revoked |-> FALSE, code |-> d]
               spent == [code[d] EXCEPT !.consumed = TRUE]
    <3>1. /\ session' = [session EXCEPT ![n] = new] /\ code' = [code EXCEPT ![d] = spent]
          /\ n \in Ids /\ d \in Ids /\ session[n] = NoRow /\ code[d] # NoRow /\ ~code[d].consumed
      BY <1>1, <3>0, <2>4, Zenon DEF MintSession, Inv, NamesOK, CodesOK, KindOK, Requests
    <3>2. code[d] \in Codes
      BY <1>1, <3>1, Zenon DEF RowTypes
    <3>3. spent \in Codes /\ spent.consumed /\ new \in Sessions /\ new.code = d
      BY <3>1, <3>2, Zenon DEF Codes, Sessions
    <3> HIDE DEF new, spent
    <3>4. \A s \in Ids : ~MintedBy(s, d)
      BY <1>1, <3>1, Zenon DEF SpentOnce
    <3>5. \A s, c \in Ids : MintedBy(s, c)' <=> MintedBy(s, c) \/ (s = n /\ c = d)
      BY <1>1, <3>1, <3>3, Zenon DEF MintedBy, RowTypes
    <3>6. SpentOnce(d)'
      <4>1. code'[d] = spent
        BY <1>1, <3>1, Zenon DEF RowTypes
      <4>2. \A s \in Ids : MintedBy(s, d)' <=> s = n
        BY <3>1, <3>4, <3>5, Zenon
      <4> QED
        BY <1>1, <3>1, <3>3, <4>1, <4>2, Zenon DEF SpentOnce
    <3>7. \A c \in Ids \ {d} : code'[c] = code[c]
      BY <1>1, <3>1, Zenon DEF RowTypes
    <3> QED
      BY <1>1, <3>5, <3>6, <3>7, SpentAsBefore, Zenon
  <2> QED
    BY <1>2, <2>1, <2>2, <2>3, <2>4, Writers, ZenonT(60) DEF KeepIdentity, CommitPush
<1>3. ASSUME NEW h \in Handlers, Arrival(h) \/ Step(h), NEW g \in Handlers, req'[g].pc = "mint"
      PROVE  codeLock'[req'[g].code] = g /\ ~code'[req'[g].code].consumed
  <2>1. CASE g # h
    <3> DEFINE c == req[g].code
    <3>1. req'[g] = req[g] /\ c \in Ids
      BY <1>1, <1>3, <2>1, RequestsStep, SMTT(30) DEF OnlyMine, Requests
    <3>2. codeLock[c] = g /\ ~code[c].consumed /\ code[c] # NoRow
      BY <1>3, <3>1, SMTT(30) DEF Inv, CodesOK, KindOK
    <3>3. codeLock'[c] = g
      BY <1>3, <2>1, <3>1, <3>2, LocksStep, ZenonT(60) DEF LocksStay
    <3>4. code'[c] = code[c]
      <4>1. CASE IssueGrant(h)
        BY <1>1, <3>1, <3>2, <4>1, ZenonT(60) DEF IssueGrant, RowTypes, Inv, NamesOK, KindOK
      <4>2. CASE MintSession(h)
        <5>1. codeLock[req[h].code] = h
          BY <4>2, SMTT(30) DEF MintSession, Inv, CodesOK
        <5> QED
          BY <1>1, <2>1, <3>1, <3>2, <4>2, <5>1, Zenon DEF MintSession, RowTypes
      <4> QED
        BY <1>3, <4>1, <4>2, Writers, Zenon DEF Bootstraps, CommitPush
    <3> QED
      BY <3>1, <3>2, <3>3, <3>4, Zenon
  <2>2. CASE g = h
    <3>1. Step(h)
      BY <1>3, <2>2, Arrives, ZenonT(60) DEF NewRequest
    <3>2. req'[h] # IdleRequest /\ ~End(h)
      <4>1. IdleRequest.pc # "mint"
        BY Zenon DEF IdleRequest
      <4>2. req'[h] # IdleRequest
        BY <1>3, <2>2, <4>1, Zenon
      <4>3. req' = [req EXCEPT ![h] = IdleRequest] => req'[h] = IdleRequest
        BY <1>1, Zenon DEF Requests
      <4> QED
        BY <4>2, <4>3, Zenon DEF End
    <3>3. req[h].pc = "select"
      BY <1>3, <2>2, <3>1, <3>2, Moves, ZenonT(60) DEF MayMove
    <3>4. SelectGrant(h)
      BY <3>1, <3>2, <3>3, Zenon
         DEF Step, ReadOrganization, CreateOrganization, ReadMembership, Flush, Bump,
             FinishBootstrap, SeedCheck, SeedLookup, SeedOwner, SeedInsert, FinishRead, PublishCheck,
             Publish, IssueGrant, MintSession, LockOrganization, ReadCreator, GrantScope, CommitPush, Abort
    <3>5. /\ codeLock' = [codeLock EXCEPT ![req[h].code] = h] /\ code' = code /\ ~code[req[h].code].consumed
          /\ req'[h].code = req[h].code
      BY <1>1, <3>2, <3>4 DEF SelectGrant, Goto, rows, Requests
    <3> QED
      BY <1>1, <2>2, <3>5, SMTT(30) DEF Inv, TypeOK, Requests
  <2> QED
    BY <2>1, <2>2, Zenon
<1>4. ASSUME NEW s \in Ids, Revoke(s) \/ Logout(s)
      PROVE  CodesOK'
  <2>1. /\ session' = [session EXCEPT ![s] = [session[s] EXCEPT !.revoked = TRUE]] /\ session[s] # NoRow
        /\ UNCHANGED <<code, codeLock, req>>
    BY <1>4, Zenon DEF Revoke, Logout, locks
  <2>2. session[s] \in Sessions
    BY <1>1, <2>1, Zenon DEF RowTypes
  <2>3. [session[s] EXCEPT !.revoked = TRUE] \in Sessions /\ [session[s] EXCEPT !.revoked = TRUE].code = session[s].code
    BY <2>2, Zenon DEF Sessions
  <2> DEFINE new == [session[s] EXCEPT !.revoked = TRUE]
  <2> HIDE DEF new
  <2>4. \A t, c \in Ids : MintedBy(t, c)' <=> MintedBy(t, c)
    BY <1>1, <2>1, <2>2, <2>3, ZenonT(60) DEF MintedBy, RowTypes, new
  <2> QED
    BY <2>1, <2>4, Zenon DEF Inv, CodesOK, CodeMintsOnce
<1>5. ASSUME NEW d \in Ids, ExpireGrant(d)
      PROVE  CodesOK'
  <2> DEFINE new == [code[d] EXCEPT !.expired = TRUE]
  <2>1. code' = [code EXCEPT ![d] = new] /\ code[d] # NoRow /\ UNCHANGED <<session, codeLock, req>>
    BY <1>5, Zenon DEF ExpireGrant, locks
  <2>2. code[d] \in Codes
    BY <1>1, <2>1, Zenon DEF RowTypes
  <2>3. new \in Codes /\ new.consumed = code[d].consumed
    BY <2>2, Zenon DEF Codes
  <2> HIDE DEF new
  <2>4. \A c \in Ids : /\ code'[c] = NoRow <=> code[c] = NoRow
                       /\ code[c] # NoRow => code'[c].consumed = code[c].consumed
    BY <1>1, <2>1, <2>3, Zenon DEF RowTypes
  <2>5. \A t, c \in Ids : MintedBy(t, c)' <=> MintedBy(t, c)
    BY <2>1, Zenon DEF MintedBy
  <2>6. \A g \in Handlers : req[g].pc = "mint" => req[g].code \in Ids /\ code[req[g].code] # NoRow
    BY <1>1, SMTT(30) DEF Inv, KindOK, Requests
  <2> QED
    BY <2>1, <2>4, <2>5, <2>6, ZenonT(60) DEF Inv, CodesOK, CodeMintsOnce
<1>6. (\A c \in Ids : SpentOnce(c)') /\ (\A g \in Handlers : req'[g].pc = "mint" =>
           codeLock'[req'[g].code] = g /\ ~code'[req'[g].code].consumed) => CodesOK'
  BY ZenonT(60) DEF SpentOnce, CodesOK, CodeMintsOnce
<1> QED
  BY <1>2, <1>3, <1>4, <1>5, <1>6, Zenon DEF Next

-----------------------------------------------------------------------------
(* The seed.                                                                *)

\* The seed adds all the publications it knows at once.
LEMMA SeedGrows ==
    ASSUME Inv, NEW h \in Handlers, Arrival(h) \/ Step(h)
    PROVE  baseline' = baseline \/ (SeedInsert(h) /\ Baselines \subseteq baseline')
BY Arrives, Zenon
   DEF rows, Step, ReadOrganization, CreateOrganization, ReadMembership, Flush, Bump, FinishBootstrap, SeedCheck,
       SeedLookup, SeedOwner, SeedInsert, CommitSeed, FinishRead, PublishCheck, Publish, IssueGrant, SelectGrant,
       MintSession, LockOrganization, ReadCreator, GrantScope, CommitPush, Abort, Fail

LEMMA SeedStep ==
    ASSUME Inv, Next
    PROVE  SeedOK'
<1>1. req \in [Handlers -> Requests] /\ SeedOK
  BY Zenon DEF Inv, TypeOK
<1> DEFINE Seeds(r, b) ==
        /\ r.attempt # 1 \/ r.pc \in {"seeded", "publish"} => Baselines \subseteq b
        /\ r.pc \in {"lookup", "owner", "insert"} => r.attempt = 1 /\ (r.first \in b => Baselines \subseteq b)
<1>2. ASSUME NEW h \in Handlers, Arrival(h) \/ Step(h)
      PROVE  SeedOK'
  <2>0. baseline' = baseline \/ Baselines \subseteq baseline'
    BY <1>2, SeedGrows, Zenon
  <2>1. SeedGivesWay'
    <3>0. ASSUME failed' \in {failed, failed \cup {"bootstrap"}, failed \cup {"publish"}}
          PROVE  SeedGivesWay'
      BY <1>1, <2>0, <3>0 DEF SeedOK, SeedGivesWay
    <3>1. CASE SeedInsert(h)
      <4>1. req[h].attempt # BASELINE_SEED_ATTEMPTS
        BY <1>1, <3>1, SMTT(30) DEF SeedOK, SeedInsert, BASELINE_SEED_ATTEMPTS
      <4>2. failed' = failed
        BY <3>1, <4>1, Zenon DEF SeedInsert, CommitSeed, history
      <4> QED
        BY <3>0, <4>2, Zenon
    <3>2. CASE SeedOwner(h)
      <4>1. CASE Fail(h, "conflict")
        <5>1. req[h].first \in baseline /\ failed' = failed \cup {"conflict"} /\ baseline' = baseline
          <6>1. req[h].first \notin baseline => req'[h].pc = "insert"
            BY <1>1, <3>2 DEF SeedOwner, Goto, Requests
          <6>2. req'[h] = IdleRequest
            BY <1>1, <4>1, Zenon DEF Fail, End
          <6> QED
            BY <4>1, <6>1, <6>2 DEF Fail, IdleRequest, rows
        <5>2. Baselines \subseteq baseline'
          BY <1>1, <3>2, <5>1, Zenon DEF SeedOwner, SeedOK
        <5> QED
          BY <1>1, <5>1, <5>2 DEF SeedOK, SeedGivesWay
      <4> QED
        BY <3>0, <3>2, <4>1, Zenon DEF SeedOwner, history
    <3>3. CASE Arrival(h)
      BY <3>0, <3>3, Arrives, Zenon DEF history
    <3>4. CASE CreateOrganization(h) \/ Flush(h) \/ FinishBootstrap(h) \/ Publish(h)
      BY <3>0, <3>4, Zenon DEF CreateOrganization, Flush, FinishBootstrap, Publish, Fail, history
    <3>5. CASE \/ ReadOrganization(h) \/ ReadMembership(h) \/ Bump(h) \/ SeedCheck(h) \/ SeedLookup(h) \/ FinishRead(h)
               \/ PublishCheck(h) \/ IssueGrant(h) \/ SelectGrant(h) \/ MintSession(h)
               \/ LockOrganization(h) \/ ReadCreator(h) \/ GrantScope(h) \/ CommitPush(h) \/ Abort(h)
      <4>1. failed' = failed
        BY <3>5, ZenonT(60)
           DEF ReadOrganization, ReadMembership, Bump, SeedCheck, SeedLookup, CommitSeed, FinishRead, PublishCheck,
               IssueGrant, SelectGrant, MintSession, LockOrganization, ReadCreator, GrantScope, CommitPush, Abort,
               history
      <4> QED
        BY <3>0, <4>1, Zenon
    <3> QED
      BY <1>2, <3>1, <3>2, <3>3, <3>4, <3>5, Zenon DEF Step
  <2>2. \A g \in Handlers \ {h} : req'[g] = req[g]
    BY <1>2, RequestsStep, Zenon DEF OnlyMine
  <2>3. \A g \in Handlers \ {h} : Seeds(req'[g], baseline')
    BY <1>1, <1>2, <2>2, SeedGrows, ZenonT(60) DEF SeedOK
  <2>4. Seeds(req'[h], baseline')
    <3>1. CASE req'[h] = IdleRequest
      BY <3>1, SMTT(30) DEF IdleRequest
    <3>2. CASE Arrival(h)
      BY <3>2, Arrives, ZenonT(60) DEF NewRequest
    <3>3. CASE Step(h) /\ req'[h] # IdleRequest
      <4>1. MayMove(req[h], req'[h].pc)
        BY <3>3, Moves, Zenon
      <4>2. CASE SeedCheck(h)
        <5>1. baseline' = baseline /\ req[h].pc = "seed"
          BY <4>2, Zenon DEF SeedCheck, rows
        <5>2. CASE Baselines \subseteq baseline
          BY <1>1, <4>2, <5>1, <5>2, Zenon DEF SeedCheck, Goto, Requests
        <5>3. CASE ~(Baselines \subseteq baseline)
          <6>1. PICK p \in Baselines \ baseline : req' = [req EXCEPT ![h].pc = "lookup", ![h].first = p]
            BY <4>2, <5>3, Zenon DEF SeedCheck
          <6>2. req'[h].pc = "lookup" /\ req'[h].first = p /\ req'[h].attempt = req[h].attempt
            BY <1>1, <6>1 DEF Requests
          <6>3. req[h].attempt = 1
            BY <1>1, <5>3, Zenon DEF SeedOK
          <6> QED
            BY <5>1, <6>1, <6>2, <6>3
        <5> QED
          BY <5>2, <5>3, Zenon
      <4>3. CASE SeedInsert(h)
        <5>1. req[h].pc = "insert" /\ req[h].attempt = 1
          BY <1>1, <4>3, Zenon DEF SeedInsert, SeedOK
        <5>2. req[h].first \notin baseline => Baselines \subseteq baseline'
          BY <4>3, Zenon DEF SeedInsert
        <5>3. req[h].first \in baseline => Baselines \subseteq baseline
          BY <1>1, <5>1, Zenon DEF SeedOK
        <5>4. Baselines \subseteq baseline'
          BY <3>3, <5>2, <5>3, SeedGrows, SMTT(30)
        <5>5. req'[h].pc \in {"seeded", "seed"}
          BY <4>1, <5>1, SMTT(30) DEF MayMove
        <5> QED
          BY <5>4, <5>5, Zenon
      <4>4. CASE SeedLookup(h) \/ SeedOwner(h)
        <5>1. baseline' = baseline /\ req[h].pc \in {"lookup", "owner"}
          BY <4>4, Zenon DEF SeedLookup, SeedOwner, Fail, rows
        <5>2. req[h].attempt = 1 /\ (req[h].first \in baseline => Baselines \subseteq baseline)
          BY <1>1, <5>1, Zenon DEF SeedOK
        <5>3. ~End(h)
          BY <1>1, <3>3, Zenon DEF End
        <5>4. \/ req'[h].pc = "seeded" /\ req[h].first \in baseline
              \/ req'[h].pc \in {"owner", "insert"}
          BY <1>1, <4>4, <5>3 DEF SeedLookup, SeedOwner, CommitSeed, Goto, Fail, Requests
        <5>5. req'[h].attempt = req[h].attempt /\ req'[h].first = req[h].first
          BY <1>1, <4>4, <5>3 DEF SeedLookup, SeedOwner, CommitSeed, Goto, Fail, Requests
        <5> QED
          BY <5>1, <5>2, <5>4, <5>5
      <4>5. CASE ~SeedCheck(h) /\ ~SeedInsert(h) /\ ~SeedLookup(h) /\ ~SeedOwner(h)
        <5>1. baseline' = baseline
          BY <3>3, <4>5, SeedGrows, SMTT(30)
        <5>2. req'[h].attempt = req[h].attempt /\ req[h].pc \notin {"seed", "lookup", "owner", "insert"}
          <6>1. ~End(h)
            BY <1>1, <3>3, Zenon DEF End
          <6>2. \A p : Goto(h, p) => req'[h].attempt = req[h].attempt
            BY <1>1, Zenon DEF Goto, Requests
          <6>3. CASE ReadOrganization(h) \/ ReadMembership(h) \/ LockOrganization(h) \/ ReadCreator(h)
            BY <1>1, <6>1, <6>3 DEF ReadOrganization, ReadMembership, LockOrganization, ReadCreator, Requests
          <6> QED
            BY <3>3, <4>5, <6>1, <6>2, <6>3, ZenonT(60)
               DEF Step, CreateOrganization, Flush, Bump, FinishBootstrap, FinishRead,
                 PublishCheck, Publish, IssueGrant, SelectGrant, MintSession, GrantScope, CommitPush, Abort, Fail
        <5> QED
          BY <1>1, <4>1, <5>1, <5>2, Zenon DEF SeedOK, MayMove
      <4> QED
        BY <4>2, <4>3, <4>4, <4>5, Zenon
    <3> QED
      BY <1>2, <3>1, <3>2, <3>3, SMTT(30)
  <2> QED
    BY <2>1, <2>3, <2>4, Zenon DEF SeedOK
<1>3. ASSUME UNCHANGED <<req, baseline, failed>>
      PROVE  SeedOK'
  BY <1>1, <1>3, SMTT(30) DEF SeedOK, SeedGivesWay
<1> QED
  BY <1>2, <1>3, Zenon DEF Next, Revoke, Logout, ExpireGrant, history


-----------------------------------------------------------------------------
(* The revision.                                                            *)

\* Only who has locked the organization's row writes it or makes a member inactive; and a
\* membership whose authority changes is counted.
AuthorityKept(h) ==
    /\ changes \in Nat /\ changes' \in Nat /\ changes' >= changes
    /\ \A m \in Members : Authority(member'[m]) # Authority(member[m]) => changes' >= changes + 1
    /\ orgLock # h => org' = org /\ \A m \in Members : member[m] # NoRow => member'[m].active = member[m].active

LEMMA AuthorityMoves ==
    ASSUME Inv, NEW h \in Handlers, Arrival(h) \/ Step(h)
    PROVE  /\ RevisionCountsChanges'
           /\ org' = NoRow => changes' = 0 /\ \A m \in Members : member'[m] = NoRow
           /\ AuthorityKept(h)
<1>1. RowTypes /\ RevisionOK /\ Knows(h) /\ KindOK(h) /\ req[h] \in Requests /\ NoRow \notin Nat
  BY AuthorityConstants, Zenon DEF Inv, TypeOK, RevisionOK
<1>2. CASE KeepIdentity \/ IssueGrant(h) \/ MintSession(h)
  <2>1. UNCHANGED <<org, member, changes, overlapped>>
    BY <1>2, SMTT(30) DEF KeepIdentity, IssueGrant, MintSession, history
  <2> QED
    BY <1>1, <2>1 DEF RowTypes, RevisionOK, RevisionCountsChanges, AuthorityKept
<1>3. ASSUME NEW m \in Members, NEW row \in Authorities, StoreMembership(m, row)
      PROVE  /\ changes \in Nat /\ changes' \in Nat /\ changes' >= changes
             /\ \A k \in Members : Authority(member'[k]) # Authority(member[k]) => changes' >= changes + 1
             /\ row.active = member[m].active => \A k \in Members : member'[k].active = member[k].active
  <2>1. changes \in Nat
    BY <1>1, Zenon DEF RowTypes
  <2>2. /\ changes' \in Nat /\ changes' >= changes
        /\ member'[m] = row /\ \A k \in Members \ {m} : member'[k] = member[k]
        /\ \A k \in Members : Authority(member'[k]) # Authority(member[k]) => changes' = changes + 1
    BY <1>3, MembershipStored, Zenon
  <2>3. changes' = changes + 1 => changes' >= changes + 1
    BY <2>2
  <2> QED
    BY <2>1, <2>2, <2>3, Zenon
<1>4. CASE Bootstraps(h)
  <2>0. PICK r : r = req[h]
    BY Zenon
  <2>1. /\ r.member \in Members /\ Written(r) \in Authorities /\ StoreMembership(r.member, Written(r))
        /\ ~Changed(r) => /\ org' = org /\ org # NoRow /\ Written(r).active = member[r.member].active
                          /\ ~overlapped' => ~overlapped /\ changes' = changes
        /\ Changed(r) => org' = r.rev + 1 /\ org' <= changes' /\ (~overlapped' => org' = changes')
    BY <1>4, <2>0, IdentityStored, Zenon DEF Bootstraps
  <2>2. Changed(r) => orgLock = h
    BY <1>1, <1>4, <2>0, Zenon DEF Bootstraps, Knows
  <2>3. AuthorityKept(h)
    BY <1>3, <2>1, <2>2, Zenon DEF AuthorityKept
  <2>4. r.rev + 1 \in Nat /\ (org # NoRow => org \in Nat) /\ changes \in Nat
    BY <1>1, <2>0 DEF Requests, RowTypes
  <2>5. CASE Changed(r)
    BY <1>1, <2>1, <2>3, <2>4, <2>5, Zenon DEF RevisionCountsChanges
  <2>6. CASE ~Changed(r)
    BY <1>1, <2>1, <2>3, <2>4, <2>6, SMTT(30) DEF RevisionOK, RevisionCountsChanges, AuthorityKept
  <2> QED
    BY <2>3, <2>5, <2>6, Zenon
<1>5. CASE CommitPush(h)
  <2>0. PICK r : r = req[h]
    BY Zenon
  <2>1. PICK m, row : m = member[r.member] /\ row = Granted(r)
    BY Zenon
  <2>2. org' = r.rev + 1 /\ StoreMembership(r.member, row) /\ overlapped' = overlapped /\ r.pc = "granted"
    BY <1>5, <2>0, <2>1, Zenon DEF CommitPush
  <2>3. /\ r.member \in Members /\ row \in Authorities
        /\ Authority(r.seen) = Authority(m) => Authority(row) # Authority(m)
    BY <2>0, <2>1, <2>2, GrantedRow, Zenon
  <2>4. /\ orgLock = h /\ org # NoRow /\ r.rev = org
        /\ Authority(r.seen) # Authority(m) => r.rev + 1 <= changes
    BY <1>1, <2>0, <2>1, <2>2, Zenon DEF Knows, HasSeen
  <2>5. AuthorityKept(h)
    BY <1>3, <2>2, <2>3, <2>4, Zenon DEF AuthorityKept
  <2>6. changes' = IF Authority(row) # Authority(m) THEN changes + 1 ELSE changes
    BY <2>1, <2>2, <2>3, MembershipStored, Zenon
  <2>7. org \in Nat /\ changes \in Nat /\ org <= changes /\ (~overlapped => org = changes)
    BY <1>1, <2>4, Zenon DEF RowTypes, RevisionOK, RevisionCountsChanges
  <2>8. org' \in Nat /\ org' <= changes' /\ (~overlapped' => org' = changes')
    BY <2>2, <2>3, <2>4, <2>6, <2>7, SMTT(30)
  <2> QED
    BY <1>1, <2>5, <2>8, Zenon DEF RevisionCountsChanges
<1> QED
  BY <1>2, <1>4, <1>5, Writers, Zenon

\* What a request knows lasts, whoever moves, as long as it reads nothing new.
LEMMA KnowledgeLasts ==
    ASSUME Inv, Next, NEW h \in Handlers, Arrival(h) \/ Step(h),
           NEW g \in Handlers, SameRequest(req[g], req'[g]), req'[g].rev = req[g].rev, req'[g].seen = req[g].seen
    PROVE  /\ req'[g].rev <= changes' /\ (Changed(req[g])' <=> Changed(req[g]))
           /\ HasSeen(req[g]) => /\ req'[g].seen # NoRow => member'[req'[g].member] # NoRow
                                 /\ Authority(req'[g].seen) # Authority(member'[req'[g].member]) => req'[g].rev + 1 <= changes'
<1>1. AuthorityKept(h)
  BY AuthorityMoves, Zenon
<1>2. Knows(g) /\ req[g].rev \in Nat /\ RowsStay /\ KindOK(g)
  BY RowsStep, ZenonT(60) DEF Inv, TypeOK, RevisionOK, Requests
<1>3. req'[g].rev <= changes'
  BY <1>1, <1>2 DEF Knows, AuthorityKept
<1>4. ASSUME HasSeen(req[g])
      PROVE  /\ req[g].seen # NoRow => member'[req[g].member] # NoRow
             /\ Authority(req[g].seen) # Authority(member'[req[g].member]) => req[g].rev + 1 <= changes'
  <2>0. PICK m : m = req[g].member
    BY Zenon
  <2>1. m \in Members
    BY <1>2, <1>4, <2>0, ZenonT(60) DEF HasSeen, Bootstrapped, KindOK
  <2>2. req[g].seen # NoRow => member'[m] # NoRow
    BY <1>2, <1>4, <2>0, <2>1, ZenonT(60) DEF Knows, RowsStay
  <2>3. CASE Authority(member'[m]) = Authority(member[m])
    <3>1. Authority(req[g].seen) # Authority(member'[m]) => req[g].rev + 1 <= changes
      BY <1>2, <1>4, <2>0, <2>3, Zenon DEF Knows
    <3>2. req[g].rev + 1 <= changes => req[g].rev + 1 <= changes'
      BY <1>1, <1>2 DEF AuthorityKept
    <3> QED
      BY <2>0, <2>2, <3>1, <3>2, Zenon
  <2>4. CASE Authority(member'[m]) # Authority(member[m])
    <3>1. changes' >= changes + 1 /\ req[g].rev <= changes
      BY <1>1, <1>2, <2>1, <2>4, Zenon DEF Knows, AuthorityKept
    <3>2. req[g].rev + 1 <= changes'
      BY <1>1, <1>2, <3>1 DEF AuthorityKept
    <3> QED
      BY <2>0, <2>2, <3>2, Zenon
  <2> QED
    BY <2>3, <2>4, Zenon
<1>5. Changed(req[g])' <=> Changed(req[g])
  BY SMTT(30) DEF Changed, SameRequest
<1> QED
  BY <1>3, <1>4, <1>5, SMTT(30) DEF SameRequest

LEMMA OthersKnow ==
    ASSUME Inv, Next, NEW h \in Handlers, Arrival(h) \/ Step(h), NEW g \in Handlers, g # h
    PROVE  Knows(g)'
<1>1. req'[g] = req[g] /\ (orgLock = g => orgLock' = g)
  BY RequestsStep, LocksStep, Zenon DEF OnlyMine, LocksStay
<1>2. SameRequest(req[g], req'[g])
  BY <1>1, SMTT(30) DEF SameRequest
<1>3. /\ req'[g].rev <= changes' /\ (Changed(req[g])' <=> Changed(req[g]))
      /\ HasSeen(req[g]) => /\ req'[g].seen # NoRow => member'[req'[g].member] # NoRow
                            /\ Authority(req'[g].seen) # Authority(member'[req'[g].member]) => req'[g].rev + 1 <= changes'
  BY <1>1, <1>2, KnowledgeLasts, Zenon
<1>4. Knows(g) /\ KindOK(g) /\ AuthorityKept(h)
  BY AuthorityMoves, Zenon DEF Inv, RevisionOK
<1>5. orgLock = g => org' = org /\ \A m \in Members : member[m] # NoRow => member'[m].active = member[m].active
  BY <1>4, Zenon DEF AuthorityKept
<1>6. req[g].pc \in {"grant", "granted"} => member'[req[g].member].active
  BY <1>4, <1>5, Zenon DEF Knows, HasSeen, KindOK
<1>7. (HasSeen(req[g])' <=> HasSeen(req[g])) /\ (Bootstrapped(req[g])' <=> Bootstrapped(req[g]))
  BY <1>1, Zenon DEF HasSeen, Bootstrapped
<1> QED
  BY <1>1, <1>3, <1>4, <1>5, <1>6, <1>7, ZenonT(60) DEF Knows

\* A step that only moves a request on: nothing is written, no lock is given up.
LEMMA MovesOnKnowing ==
    ASSUME Inv, Next, NEW h \in Handlers, Step(h), NEW p, Goto(h, p), UNCHANGED <<org, member>>,
           orgLock = h => orgLock' = h, p \notin {"flush", "creator", "grant"},
           p = "granted" => req[h].pc = "grant", p = "bump" => HasSeen(req[h]),
           p \in Seeding => \/ req[h].op # "bootstrap" \/ Bootstrapped(req[h])
                            \/ HasSeen(req[h]) /\ (Changed(req[h]) => orgLock' = h)
    PROVE  Knows(h)'
<1>1. req[h] \in Requests /\ Knows(h)
  BY Zenon DEF Inv, TypeOK, RevisionOK
<1>2. /\ req'[h].pc = p /\ SameRequest(req[h], req'[h]) /\ req'[h].rev = req[h].rev /\ req'[h].seen = req[h].seen
      /\ req'[h].stored = req[h].stored /\ req'[h].lost = req[h].lost
  BY <1>1, SMTT(30) DEF Goto, Inv, TypeOK, Requests, SameRequest
<1>3. /\ req'[h].rev <= changes' /\ (Changed(req[h])' <=> Changed(req[h]))
      /\ HasSeen(req[h]) => /\ req'[h].seen # NoRow => member'[req'[h].member] # NoRow
                            /\ Authority(req'[h].seen) # Authority(member'[req'[h].member]) => req'[h].rev + 1 <= changes'
  BY <1>2, KnowledgeLasts, ZenonT(60)
<1>4. HasSeen(req[h])' => HasSeen(req[h])
  BY <1>2, Zenon DEF HasSeen, Bootstrapped, SameRequest
<1>5. Bootstrapped(req[h])' /\ ~req'[h].stored /\ ~req'[h].lost /\ Changed(req[h])' => orgLock' = h
  BY <1>1, <1>2, <1>3, Zenon DEF Bootstrapped, SameRequest, Knows
<1>6. p = "granted" => /\ orgLock' = h /\ org' # NoRow /\ req'[h].rev = org'
                       /\ req'[h].seen # NoRow /\ req'[h].customer \notin req'[h].seen.scope
                       /\ member'[req'[h].member].active
  BY <1>1, <1>2, Zenon DEF Knows, SameRequest
<1> QED
  BY <1>2, <1>3, <1>4, <1>5, <1>6, Zenon DEF Knows

\* A request that has ended knows nothing.
LEMMA IdleKnows ==
    ASSUME NEW h, changes' \in Nat, req'[h] = IdleRequest
    PROVE  Knows(h)'
<1>1. req'[h].pc = "idle" /\ req'[h].rev = 0
  BY SMTT(30) DEF IdleRequest
<1>2. req'[h].rev <= changes'
  BY <1>1
<1> QED
  BY <1>1, <1>2, ZenonT(30) DEF Knows, HasSeen, Bootstrapped, Seeding

\* What ReadOrganization leaves in the request.
LEMMA OrganizationRead ==
    ASSUME NEW h \in Handlers, req \in [Handlers -> Requests], ReadOrganization(h)
    PROVE  /\ req'[h].pc \in {"create", "membership"} /\ req'[h].rev = (IF org = NoRow THEN 0 ELSE org)
           /\ changes' = changes
  BY DEF ReadOrganization, Requests, history

\* CreateOrganization, when it does not end the request, takes the lock and goes on.
LEMMA OrganizationCreated ==
    ASSUME NEW h, CreateOrganization(h), ~End(h)
    PROVE  Goto(h, "membership") /\ orgLock' = h /\ UNCHANGED <<org, member>>
  BY DEF CreateOrganization, Fail, rows

LEMMA OwnKnows ==
    ASSUME Inv, Next, NEW h \in Handlers, Arrival(h) \/ Step(h)
    PROVE  Knows(h)'
<1>1. /\ RowTypes /\ req \in [Handlers -> Requests] /\ req[h] \in Requests /\ Knows(h) /\ KindOK(h)
      /\ changes \in Nat /\ changes' \in Nat /\ changes' >= changes
  BY AuthorityMoves, ZenonT(30) DEF Inv, TypeOK, RevisionOK, AuthorityKept
<1>2. CASE req'[h] = IdleRequest
  BY <1>1, <1>2, IdleKnows, Zenon
<1>3. CASE Arrival(h)
  <2>1. NewRequest(req'[h])
    BY <1>3, Arrives, Zenon
  <2>2. ~HasSeen(req[h])' /\ ~Bootstrapped(req[h])' /\ req'[h].pc \notin {"creator", "grant", "granted"}
    BY <1>1, <2>1, SMTT(30) DEF NewRequest, HasSeen, Bootstrapped, Seeding
  <2>3. req'[h].rev <= changes'
    BY <1>1, <2>1 DEF NewRequest
  <2> QED
    BY <2>2, <2>3, Zenon DEF Knows
<1>4. ASSUME Step(h), req'[h] # IdleRequest
      PROVE  Knows(h)'
  <2>1. ~End(h)
    BY <1>1, <1>4, SMTT(30) DEF End
  <2>2. SameRequest(req[h], req'[h])
    BY <1>4, FateStep, ZenonT(60) DEF Fate
  <2> USE DEF rows, locks, history
  <2>3. CASE ReadOrganization(h)
    <3>1. /\ req'[h].pc \in {"create", "membership"} /\ req'[h].rev = (IF org = NoRow THEN 0 ELSE org)
          /\ changes' = changes
      BY <1>1, <2>3, OrganizationRead, Zenon
    <3>2. req'[h].rev <= changes'
      BY <1>1, <3>1, SMTT(30) DEF Inv, RevisionOK, RevisionCountsChanges
    <3> QED
      BY <3>1, <3>2, Zenon DEF Knows, HasSeen, Bootstrapped, Seeding
  <2>4. CASE ReadMembership(h)
    <3>1. /\ req'[h].pc = "flush" /\ req'[h].rev = req[h].rev /\ req'[h].seen = member[req[h].member]
          /\ UNCHANGED <<changes, member>>
      BY <1>1, <2>4, SMTT(30) DEF ReadMembership, Requests
    <3> QED
      BY <1>1, <2>2, <3>1, Zenon DEF Knows, HasSeen, Bootstrapped, Seeding, SameRequest
  <2>5. CASE CreateOrganization(h)
    <3>1. Goto(h, "membership") /\ orgLock' = h /\ UNCHANGED <<org, member>>
      BY <2>1, <2>5, OrganizationCreated, Zenon
    <3> QED
      BY <1>4, <3>1, MovesOnKnowing, ZenonT(60) DEF Seeding
  <2>6. CASE Flush(h)
    <3>1. HasSeen(req[h])
      BY <2>6, Zenon DEF Flush, HasSeen
    <3>2. CASE Goto(h, "seed") /\ ~Changed(req[h]) /\ UNCHANGED <<org, member, orgLock>>
      BY <1>4, <3>1, <3>2, MovesOnKnowing, ZenonT(30) DEF Seeding
    <3>3. CASE Goto(h, "bump") /\ UNCHANGED <<org, member, orgLock>>
      BY <1>4, <3>1, <3>3, MovesOnKnowing, ZenonT(30) DEF Seeding
    <3>4. ~Writes(req[h]) => ~Changed(req[h])
      BY Zenon DEF Writes, Changed
    <3>5. CASE Changed(req[h])
      BY <2>1, <2>6, <3>3, <3>4, <3>5, ZenonT(60) DEF Flush, Fail
    <3>6. CASE ~Changed(req[h])
      BY <2>1, <2>6, <3>2, <3>6, ZenonT(60) DEF Flush, Fail
    <3> QED
      BY <3>5, <3>6, Zenon
  <2>7. CASE Bump(h)
    <3>1. HasSeen(req[h]) /\ Goto(h, "seed") /\ orgLock' = h /\ UNCHANGED <<org, member>>
      BY <2>7, Zenon DEF Bump, HasSeen
    <3> QED
      BY <1>4, <3>1, MovesOnKnowing, ZenonT(30) DEF Seeding
  <2>8. CASE SeedCheck(h)
    <3>1. UNCHANGED <<org, member, orgLock>> /\ req[h].pc = "seed"
      BY <2>8, Zenon DEF SeedCheck
    <3>2. /\ req'[h].pc \in {"seeded", "lookup"} /\ req'[h].rev = req[h].rev /\ req'[h].seen = req[h].seen
          /\ req'[h].stored = req[h].stored /\ req'[h].lost = req[h].lost
      BY <1>1, <2>8, SMTT(30) DEF SeedCheck, Goto, Requests
    <3>3. /\ req'[h].rev <= changes' /\ (Changed(req[h])' <=> Changed(req[h]))
          /\ HasSeen(req[h]) => /\ req'[h].seen # NoRow => member'[req'[h].member] # NoRow
                                /\ Authority(req'[h].seen) # Authority(member'[req'[h].member]) => req'[h].rev + 1 <= changes'
      BY <1>4, <2>2, <3>2, KnowledgeLasts, ZenonT(60)
    <3>4. (HasSeen(req[h])' => HasSeen(req[h])) /\ (Bootstrapped(req[h])' => Bootstrapped(req[h]))
      BY <2>2, <3>1, <3>2, Zenon DEF HasSeen, Bootstrapped, Seeding, SameRequest
    <3> QED
      BY <1>1, <3>1, <3>2, <3>3, <3>4, Zenon DEF Knows
  <2>9. CASE SeedLookup(h) \/ SeedOwner(h) \/ SeedInsert(h)
    <3>0. req[h].pc \in {"lookup", "owner", "insert"}
      BY <2>9, Zenon DEF SeedLookup, SeedOwner, SeedInsert
    <3>1. CASE (Goto(h, "owner") \/ Goto(h, "insert")) /\ UNCHANGED <<rows, locks>>
      <4>1. req[h].op # "bootstrap" \/ Bootstrapped(req[h])
        BY <3>0, Zenon DEF Bootstrapped, Seeding
      <4> QED
        BY <1>4, <3>1, <4>1, MovesOnKnowing, Zenon
    <3>2. CASE ~((Goto(h, "owner") \/ Goto(h, "insert")) /\ UNCHANGED <<rows, locks>>)
      <4>1. /\ req'[h].pc \in {"seeded", "seed"}
            /\ req'[h].rev = req[h].rev /\ req'[h].seen = req[h].seen
        BY <1>1, <2>1, <2>9, <3>2 DEF SeedLookup, SeedOwner, SeedInsert, CommitSeed, Goto, Requests, Fail
      <4>2. req[h].op = "bootstrap" => req'[h].stored \/ req'[h].lost
        BY <1>1, <2>1, <2>9, <3>2, SMTT(30) DEF SeedLookup, SeedOwner, SeedInsert, CommitSeed, Goto, Requests, Fail
      <4>3. /\ req'[h].rev <= changes'
            /\ HasSeen(req[h]) => /\ req'[h].seen # NoRow => member'[req'[h].member] # NoRow
                                  /\ Authority(req'[h].seen) # Authority(member'[req'[h].member]) => req'[h].rev + 1 <= changes'
        BY <1>4, <2>2, <4>1, KnowledgeLasts, ZenonT(60)
      <4>4. (HasSeen(req[h])' => HasSeen(req[h])) /\ (Bootstrapped(req[h])' => Bootstrapped(req[h]))
        BY <2>2, <3>0, <4>1, Zenon DEF HasSeen, Bootstrapped, Seeding, SameRequest
      <4> QED
        BY <1>1, <2>2, <4>1, <4>2, <4>3, <4>4, Zenon DEF Knows, Bootstrapped, SameRequest
    <3> QED
      BY <3>1, <3>2, Zenon
  <2>10. CASE PublishCheck(h) \/ SelectGrant(h)
    <3>1. (Goto(h, "publish") \/ Goto(h, "mint")) /\ UNCHANGED <<org, member, orgLock>>
      BY <2>1, <2>10, ZenonT(60) DEF PublishCheck, SelectGrant
    <3> QED
      BY <1>4, <3>1, MovesOnKnowing, Zenon DEF Seeding
  <2>11. CASE LockOrganization(h) \/ ReadCreator(h)
    <3>1. req[h].member \in Members /\ member[req[h].member] # NoRow
      BY <1>1, <2>11, Zenon DEF LockOrganization, ReadCreator, KindOK
    <3>2. org # NoRow /\ org <= changes /\ UNCHANGED <<org, member, changes>>
      BY <2>11, <3>1, Zenon DEF LockOrganization, ReadCreator, Inv, RevisionOK, RevisionCountsChanges
    <3>3. CASE LockOrganization(h)
      <4>1. orgLock' = h /\ req'[h].pc = "creator" /\ req'[h].rev = org
        BY <1>1, <3>3 DEF LockOrganization, Requests
      <4> QED
        BY <3>2, <4>1, Zenon DEF Knows, HasSeen, Bootstrapped, Seeding
    <3>4. CASE ReadCreator(h)
      <4>1. /\ orgLock' = orgLock /\ req[h].pc = "creator" /\ member[req[h].member].active
            /\ req[h].customer \notin member[req[h].member].scope
            /\ req'[h].pc = "grant" /\ req'[h].rev = req[h].rev /\ req'[h].seen = member[req[h].member]
        BY <1>1, <2>1, <3>4 DEF ReadCreator, Requests
      <4>2. orgLock = h /\ req[h].rev = org
        BY <1>1, <4>1, Zenon DEF Knows
      <4> QED
        BY <2>2, <3>1, <3>2, <4>1, <4>2, Zenon DEF Knows, HasSeen, Bootstrapped, Seeding, SameRequest
    <3> QED
      BY <2>11, <3>3, <3>4, Zenon
  <2>12. CASE GrantScope(h)
    <3>1. Goto(h, "granted") /\ req[h].pc = "grant" /\ UNCHANGED <<org, member, orgLock>>
      BY <2>12, Zenon DEF GrantScope
    <3> QED
      BY <1>4, <3>1, MovesOnKnowing, Zenon DEF Seeding
  <2>13. ~FinishBootstrap(h) /\ ~FinishRead(h) /\ ~IssueGrant(h) /\ ~MintSession(h)
    BY <2>1, Zenon DEF FinishBootstrap, FinishRead, IssueGrant, MintSession
  <2>14. ~Publish(h) /\ ~CommitPush(h) /\ ~Abort(h)
    BY <2>1, Zenon DEF Publish, CommitPush, Abort, Fail
  <2> QED
    BY <1>4, <2>3, <2>4, <2>5, <2>6, <2>7, <2>8, <2>9, <2>10, <2>11, <2>12, <2>13, <2>14, Zenon
       DEF Step
<1> QED
  BY <1>2, <1>3, <1>4, Zenon

LEMMA RevisionStep ==
    ASSUME Inv, Next
    PROVE  RevisionOK'
<1>1. ASSUME NEW h \in Handlers, Arrival(h) \/ Step(h)
      PROVE  RevisionOK'
  BY <1>1, AuthorityMoves, OthersKnow, OwnKnows, SMTT(30) DEF RevisionOK
<1>2. ASSUME UNCHANGED <<org, member, changes, overlapped, orgLock, req>>
      PROVE  RevisionOK'
  BY <1>2, ZenonT(60) DEF Inv, RevisionOK, RevisionCountsChanges, Knows, HasSeen, Bootstrapped, Changed
<1> QED
  BY <1>1, <1>2, SMTT(30) DEF Next, Revoke, Logout, ExpireGrant, history, locks

-----------------------------------------------------------------------------
(* Answers.                                                                 *)

LEMMA AnswersStep ==
    ASSUME Inv, Next
    PROVE  AnswersAreTrue'
<1>1. /\ RowTypes /\ req \in [Handlers -> Requests] /\ AnswersAreTrue /\ RowsStay /\ RowTypes' /\ SeedOK'
      /\ NoRow \notin Contents
  BY RowsStep, SeedStep, AuthorityConstants, Zenon DEF Inv, TypeOK
<1>2. \A h \in Handlers : req'[h].pc \in {"seeded", "publish"} => Baselines \subseteq baseline'
  BY <1>1, SMTT(30) DEF SeedOK
<1>3. ASSUME answered' = answered, published' = published
      PROVE  AnswersAreTrue'
  BY <1>1, <1>2, <1>3, Zenon DEF AnswersAreTrue, RowsStay
<1>4. ASSUME NEW n \in Ids, answered' = answered \cup {<<"token", n>>}, published' = published, session'[n] # NoRow
      PROVE  AnswersAreTrue'
  BY <1>1, <1>2, <1>4, Zenon DEF AnswersAreTrue, RowsStay
<1>5. ASSUME NEW p \in Contents, answered' = answered \cup {<<"publication", p>>}, published' = p,
             published \in {NoRow, p}
      PROVE  AnswersAreTrue'
  BY <1>1, <1>2, <1>5, Zenon DEF AnswersAreTrue, RowsStay
<1>6. ASSUME NEW h \in Handlers, FinishBootstrap(h)
      PROVE  AnswersAreTrue'
  <2> DEFINE r == req[h]
  <2>1. CASE r.lost
    BY <1>3, <1>6, <2>1, Zenon DEF FinishBootstrap
  <2>2. CASE ~r.lost
    <3>1. answered' = answered \cup {<<"token", r.n>>} /\ published' = published /\ r.n \in Ids
      BY <1>1, <1>6, <2>2, SMTT(30) DEF FinishBootstrap, Requests
    <3>2. r.n # 0
      BY <1>6, Zenon DEF FinishBootstrap, Inv, KindOK
    <3>3. session'[r.n] # NoRow
      <4>1. CASE r.stored
        BY <1>1, <3>1, <3>2, <4>1, ZenonT(60) DEF Inv, NamesOK, RowsStay
      <4>2. CASE ~r.stored
        <5>1. StoreIdentity(r)
          BY <1>6, <2>2, <4>2, ZenonT(60) DEF FinishBootstrap
        <5>2. r.member \in Members
          BY <1>6, Zenon DEF FinishBootstrap, Inv, KindOK
        <5>3. [member |-> r.member, revoked |-> FALSE, code |-> NoRow] \in Sessions
          BY <5>2, SMTT(30) DEF Sessions
        <5> QED
          BY <1>1, <3>1, <5>1, <5>3, AuthorityConstants, ZenonT(60) DEF StoreIdentity, RowTypes
      <4> QED
        BY <4>1, <4>2, SMTT(30)
    <3> QED
      BY <1>4, <3>1, <3>3, Zenon
  <2> QED
    BY <2>1, <2>2, SMTT(30)
<1>7. ASSUME NEW h \in Handlers, MintSession(h)
      PROVE  AnswersAreTrue'
  <2> DEFINE r == req[h]
             new == [member |-> code[r.code].member, revoked |-> FALSE, code |-> r.code]
  <2>1. /\ answered' = answered \cup {<<"token", r.n>>} /\ published' = published /\ r.n \in Ids
        /\ session' = [session EXCEPT ![r.n] = new]
    BY <1>1, <1>7, Zenon DEF MintSession, Requests
  <2>2. r.code \in Ids /\ code[r.code] \in Codes
    BY <1>1, <1>7 DEF MintSession, Inv, KindOK, Requests, RowTypes
  <2>3. new \in Sessions
    BY <2>2, Zenon DEF Sessions, Codes
  <2>4. session'[r.n] # NoRow
    BY <1>1, <2>1, <2>3, AuthorityConstants, ZenonT(60) DEF RowTypes
  <2> QED
    BY <1>4, <2>1, <2>4, Zenon
<1>8. ASSUME NEW h \in Handlers, PublishCheck(h) \/ Publish(h)
      PROVE  AnswersAreTrue'
  <2>1. req[h].content \in Contents
    BY <1>8, ZenonT(60) DEF PublishCheck, Publish, Inv, KindOK
  <2> QED
    BY <1>3, <1>5, <1>8, <2>1, SMTT(30) DEF PublishCheck, Publish, Fail, rows, history
<1>9. ASSUME NEW h \in Handlers, Arrival(h) \/ Step(h)
      PROVE  AnswersAreTrue'
  <2>1. CASE FinishBootstrap(h) \/ MintSession(h) \/ PublishCheck(h) \/ Publish(h)
    BY <1>6, <1>7, <1>8, <2>1, SMTT(30)
  <2>2. CASE Arrival(h)
    BY <1>3, <2>2, Arrives, Zenon DEF rows, history
  <2> QED
    BY <1>3, <1>9, <2>1, <2>2, ZenonT(60)
       DEF Step, ReadOrganization, CreateOrganization, ReadMembership, Flush, Bump,
         SeedCheck, SeedLookup, SeedOwner, SeedInsert, CommitSeed, FinishRead, IssueGrant, SelectGrant,
         LockOrganization, ReadCreator, GrantScope, CommitPush, Abort, Fail, rows, history
<1> QED
  BY <1>3, <1>9, Zenon DEF Next, Revoke, Logout, ExpireGrant, history

-----------------------------------------------------------------------------
LEMMA NextInv == Inv /\ [Next]_vars => Inv'
<1> SUFFICES ASSUME Inv, [Next]_vars
             PROVE  Inv'
  BY Zenon
<1>1. CASE Next
  BY <1>1, TypeStep, KindStep, NamesStep, CodesStep, SeedStep, RevisionStep, AnswersStep, Zenon
     DEF Inv
<1>2. CASE UNCHANGED vars
  <2> USE <1>2 DEF vars, rows, locks, input, history
  <2>1. TypeOK' /\ NamesOK' /\ SeedOK' /\ AnswersAreTrue'
    BY SMTT(30) DEF Inv, TypeOK, RowTypes, NamesOK, SeedOK, SeedGivesWay, AnswersAreTrue
  <2>2. \A h \in Handlers : KindOK(h)'
    BY ZenonT(60) DEF Inv, KindOK
  <2>3. CodesOK'
    BY SMTT(30) DEF Inv, CodesOK, CodeMintsOnce, MintedBy
  <2>4. RevisionOK'
    BY Zenon DEF Inv, RevisionOK, RevisionCountsChanges, Knows, HasSeen, Bootstrapped, Changed
  <2> QED
    BY <2>1, <2>2, <2>3, <2>4, SMTT(30) DEF Inv
<1> QED
  BY <1>1, <1>2, Zenon

\* The inductive invariant holds for any members, handlers, requests and mixes of requests.
THEOREM AuthorityInvariance == Spec => []Inv
<1> QED
  BY InitInv, NextInv, PTL DEF Spec

\* However many devices exchange a pairing code at once, it mints one session and is spent by
\* it: exchange_pairing_code holds the row of the code from the check to its commit.
THEOREM CodesMintOnce == Spec => []CodeMintsOnce
<1>1. Inv => CodeMintsOnce
  BY Zenon DEF Inv, CodesOK
<1> QED
  BY <1>1, AuthorityInvariance, PTL

\* A token that was answered has a session, an answered publication is stored with that content,
\* and a request that is past the seed finds all the baselines, however the requests interleave.
THEOREM ClientsAreToldTheTruth == Spec => []AnswersAreTrue
<1>1. Inv => AnswersAreTrue
  BY Zenon DEF Inv
<1> QED
  BY <1>1, AuthorityInvariance, PTL

\* The authorization revision never runs ahead of the changes of authority, and counts them
\* exactly as long as no bootstrap stores a membership after the revision it has read has moved:
\* one that only puts a list in order then changes no authority, although it writes the column.
THEOREM RevisionIsACount == Spec => []RevisionCountsChanges
<1>1. Inv => RevisionCountsChanges
  BY Zenon DEF Inv, RevisionOK
<1> QED
  BY <1>1, AuthorityInvariance, PTL

\* Two attempts are enough for any number of concurrent seeds and any set of baselines, and a
\* request that ends with PublicationConflict leaves all the baselines stored.
THEOREM SeedsGiveWay == Spec => []SeedGivesWay
<1>1. Inv => SeedGivesWay
  BY Zenon DEF Inv, SeedOK
<1> QED
  BY <1>1, AuthorityInvariance, PTL

\* A push that commits a grant holds the organization's row since it saw that the member was
\* active: a bootstrap may have put the list in order in between, but not made the member inactive.
THEOREM InactiveMembersGainNothing == Spec => InactiveGainsNothing
<1>1. ASSUME Inv, NEW h \in Handlers, req[h].pc = "granted"
      PROVE  member[req[h].member].active
  BY <1>1, Zenon DEF Inv, RevisionOK, Knows
<1>2. Inv => [\A h \in Handlers :
                 req[h].pc = "granted" /\ req'[h] # req[h] /\ member' # member => member[req[h].member].active]_vars
  BY <1>1, Zenon
<1> QED
  BY <1>2, AuthorityInvariance, PTL DEF InactiveGainsNothing
=============================================================================
