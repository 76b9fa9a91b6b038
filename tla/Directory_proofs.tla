--------------------------- MODULE Directory_proofs ---------------------------
(***************************************************************************)
(* Proofs about Directory for every number of handlers, codes, accounts,   *)
(* devices and spaces, with the read locks of SQLite (ReadLocks): without  *)
(* them the claim of an account invite, whose UPDATE compares nothing,     *)
(* would be lost.  One inductive invariant: what each handler knows at its *)
(* step, what the cache of a claim is ahead of the file by, and what the   *)
(* tables say of each other.                                               *)
(***************************************************************************)
EXTENDS Directory, TLAPS

Claiming == {"claim.account", "claim.invite", "claim.commit"}

\* Each code that is used up made the account that says so.
Accounted(t) ==
  \A c \in Codes, a \in AccountIds : t.accounts[a] = c <=> t.invites[c] = a

\* The account and device of a creator exist and belong together.
Creator(t, account, device) ==
  /\ account # Nobody => account \in Rows(t.accounts)
  /\ device # Nobody => device \in DevicesOf(t, account)

References(t) ==
  /\ \A d \in Rows(t.devices) : t.devices[d] \in Rows(t.accounts)
  /\ \A s \in Rows(t.spaces) : Creator(t, t.spaces[s].account, t.spaces[s].device)

\* t became u without losing or changing what t says.
Grows(t, u) ==
  /\ \A c \in Codes : t.invites[c] # NoRow =>
       u.invites[c] # NoRow /\ (t.invites[c] # Nobody => u.invites[c] = t.invites[c])
  /\ \A a \in AccountIds : t.accounts[a] # NoRow => u.accounts[a] = t.accounts[a]
  /\ \A d \in DeviceIds : t.devices[d] # NoRow => u.devices[d] = t.devices[d]
  /\ \A s \in SpaceIds : t.spaces[s] # NoRow => u.spaces[s] = t.spaces[s]

\* What is in the cache of a claim: its account, and then its invite too.
NewAccount(h, a) ==
  /\ mine[h] = {a} /\ a \in AccountIds /\ disk.accounts[a] = NoRow
  /\ cache.accounts = [disk.accounts EXCEPT ![a] = job[h].code]
  /\ cache.devices = disk.devices /\ cache.spaces = disk.spaces

\* What a handler knows of its request, step by step.
ClaimStage(h) ==
  /\ pc[h] \in {"claim"} \union Claiming => job[h].op = "claim" /\ job[h].code \in Codes
  /\ pc[h] \in Claiming => disk.invites[job[h].code] = Nobody
  /\ pc[h] = "claim.invite" =>
       \E a \in AccountIds : NewAccount(h, a) /\ cache.invites = disk.invites
  /\ pc[h] = "claim.commit" =>
       \E a \in AccountIds :
         NewAccount(h, a) /\ cache.invites = [disk.invites EXCEPT ![job[h].code] = a]

SpaceStage(h) ==
  LET j == job[h] IN
  /\ pc[h] \in {"space", "space.device", "space.insert", "space.reread"} =>
       /\ j.space \in SpaceIds
       /\ j.account \in AccountIds \union {Stranger, Nobody}
       /\ j.device \in DeviceIds \union {Stranger, Nobody}
  /\ pc[h] = "space.device" => j.account \in Rows(disk.accounts)
  /\ pc[h] = "space.insert" =>
       [account |-> j.account, device |-> j.device] \in SpaceRow /\ Creator(disk, j.account, j.device)
  /\ pc[h] = "space.reread" =>
       /\ disk.spaces[j.space] # NoRow
       /\ disk.spaces[j.space] = [account |-> j.account, device |-> j.device]

Stage(h) ==
  LET j == job[h] IN
  /\ pc[h] \in {"seed", "seed.insert", "listen", "invite", "invite.insert"} => j.code \in Codes
  /\ pc[h] = "listen" => disk.invites[j.code] # NoRow
  /\ pc[h] = "device.insert" => j.account \in Rows(disk.accounts)
  /\ pc[h] = "devices" => j.op = "devices"
  /\ pc[h] = "spaces" => earlier[h] \subseteq Rows(disk.spaces)

\* What an answer says is on disk.
Told(h) ==
  LET j == job[h] IN
  pc[h] = "answered" =>
    /\ answer[h] = "invite_created" => j.code \in Codes /\ disk.invites[j.code] # NoRow
    /\ answer[h] = "claimed" => j.code \in Codes /\ \A a \in mine[h] : disk.invites[j.code] = a
    /\ answer[h] = "registered" => mine[h] \subseteq DevicesOf(disk, j.account)
    /\ answer[h] = "space_created" =>
         /\ j.space \in SpaceIds /\ disk.spaces[j.space] # NoRow
         /\ disk.spaces[j.space] = [account |-> j.account, device |-> j.device]
    /\ answer[h] = "listed" /\ j.op = "spaces" => earlier[h] \subseteq mine[h]

Knows(h) == ClaimStage(h) /\ SpaceStage(h) /\ Stage(h) /\ Told(h)

\* A claim holds its read lock from its SELECT on, and the write lock from its
\* INSERT on; nobody else holds any.
Locks ==
  /\ \A h \in Handlers : h \in readers <=> pc[h] \in Claiming
  /\ \A h \in Handlers : writer = h <=> pc[h] \in {"claim.invite", "claim.commit"}
  /\ writer = NoHandler => cache = disk

IInv ==
  /\ TypeOK /\ Locks
  /\ Accounted(disk) /\ References(disk)
  /\ SeededWhenServing
  /\ \A h \in Handlers : Knows(h)

Locals(h) == <<pc[h], job[h], mine[h], answer[h], earlier[h]>>

\* A step of h leaves what the other handlers keep alone.
OnlyOf(h) == \A q \in Handlers \ {h} : Locals(q)' = Locals(q)

LocalTypes ==
  /\ pc \in [Handlers -> Labels]
  /\ job \in [Handlers -> Jobs \union {NoRow}]
  /\ mine \in [Handlers -> SUBSET Ids]
  /\ answer \in [Handlers -> Answers]
  /\ earlier \in [Handlers -> SUBSET SpaceIds]
-----------------------------------------------------------------------------
USE HandlersAssumption, DirectoryAssumption

(***************************************************************************)
(* Tables                                                                  *)
(***************************************************************************)

\* Tables by their columns.
LEMMA TablesOf ==
  ASSUME NEW t \in Tables
  PROVE  /\ t = [invites |-> t.invites, accounts |-> t.accounts,
                 devices |-> t.devices, spaces |-> t.spaces]
         /\ t.invites \in [Codes -> AccountIds \union {Nobody, NoRow}]
         /\ t.accounts \in [AccountIds -> Codes \union {NoRow}]
         /\ t.devices \in [DeviceIds -> AccountIds \union {NoRow}]
         /\ t.spaces \in [SpaceIds -> SpaceRow \union {NoRow}]
  BY DEF Tables

\* Four columns of the right types are tables.
LEMMA TablesFrom ==
  ASSUME NEW i \in [Codes -> AccountIds \union {Nobody, NoRow}],
         NEW a \in [AccountIds -> Codes \union {NoRow}],
         NEW d \in [DeviceIds -> AccountIds \union {NoRow}],
         NEW s \in [SpaceIds -> SpaceRow \union {NoRow}]
  PROVE  [invites |-> i, accounts |-> a, devices |-> d, spaces |-> s] \in Tables
  BY DEF Tables

\* What the helpers say of tables.
LEMMA RowsOf ==
  ASSUME NEW t \in Tables
  PROVE  /\ Rows(t.accounts) = {a \in AccountIds : t.accounts[a] # NoRow}
         /\ Rows(t.devices) = {d \in DeviceIds : t.devices[d] # NoRow}
         /\ Rows(t.spaces) = {s \in SpaceIds : t.spaces[s] # NoRow}
         /\ Rows(t.invites) = {c \in Codes : t.invites[c] # NoRow}
         /\ \A a : DevicesOf(t, a) = {d \in DeviceIds : t.devices[d] # NoRow /\ t.devices[d] = a}
  BY TablesOf DEF Rows, DevicesOf

\* Rows that exist exist in tables that grew.
LEMMA GrownKeeps ==
  ASSUME NEW t \in Tables, NEW u \in Tables, Grows(t, u)
  PROVE  /\ Rows(t.accounts) \subseteq Rows(u.accounts)
         /\ Rows(t.spaces) \subseteq Rows(u.spaces)
         /\ \A a : DevicesOf(t, a) \subseteq DevicesOf(u, a)
         /\ \A a, d : Creator(t, a, d) => Creator(u, a, d)
  <1>1. /\ Rows(t.accounts) \subseteq Rows(u.accounts)
        /\ Rows(t.spaces) \subseteq Rows(u.spaces)
        /\ \A a : DevicesOf(t, a) \subseteq DevicesOf(u, a)
    BY RowsOf DEF Grows
  <1>. QED BY <1>1 DEF Creator

\* Tables that grew by nothing.
LEMMA GrowsNothing ==
  ASSUME NEW t \in Tables
  PROVE  Grows(t, t)
  BY DEF Grows

\* A new invite, unclaimed.
LEMMA NewInvite ==
  ASSUME NEW t \in Tables, NEW c \in Codes, t.invites[c] = NoRow, Accounted(t), References(t)
  PROVE  LET u == [t EXCEPT !.invites[c] = Nobody] IN
         /\ u \in Tables /\ Grows(t, u) /\ Accounted(u) /\ References(u)
         /\ u.invites[c] # NoRow
  <1> DEFINE i == [t.invites EXCEPT ![c] = Nobody]
             u == [invites |-> i, accounts |-> t.accounts, devices |-> t.devices, spaces |-> t.spaces]
  <1>1. i \in [Codes -> AccountIds \union {Nobody, NoRow}] /\ i[c] = Nobody
    BY TablesOf
  <1>2. \A k \in Codes : k # c => i[k] = t.invites[k]
    BY TablesOf
  <1>3. [t EXCEPT !.invites[c] = Nobody] = u
    BY DEF Tables
  <1>4. u \in Tables
    BY <1>1, TablesOf, TablesFrom
  <1>5. /\ u.invites = i /\ u.accounts = t.accounts
        /\ u.devices = t.devices /\ u.spaces = t.spaces
    OBVIOUS
  <1> HIDE DEF i, u
  <1>6. Grows(t, u)
    BY <1>1, <1>2, <1>5 DEF Grows
  <1>7. Accounted(u)
    BY <1>1, <1>2, <1>5 DEF Accounted, Ids
  <1>8. References(u)
    BY <1>5 DEF References, Creator, DevicesOf
  <1>. QED BY <1>1, <1>3, <1>4, <1>5, <1>6, <1>7, <1>8

\* A new device of an account that exists.
LEMMA NewDevice ==
  ASSUME NEW t \in Tables, NEW d \in DeviceIds, NEW a \in Rows(t.accounts),
         t.devices[d] = NoRow, Accounted(t), References(t)
  PROVE  LET u == [t EXCEPT !.devices[d] = a] IN
         /\ u \in Tables /\ Grows(t, u) /\ Accounted(u) /\ References(u)
         /\ d \in DevicesOf(u, a)
  <1> DEFINE e == [t.devices EXCEPT ![d] = a]
             u == [invites |-> t.invites, accounts |-> t.accounts, devices |-> e, spaces |-> t.spaces]
  <1>0. a \in AccountIds /\ a # NoRow
    BY RowsOf DEF Ids
  <1>1. e \in [DeviceIds -> AccountIds \union {NoRow}] /\ e[d] = a
    BY <1>0, TablesOf
  <1>2. \A k \in DeviceIds : k # d => e[k] = t.devices[k]
    BY TablesOf
  <1>3. [t EXCEPT !.devices[d] = a] = u
    BY DEF Tables
  <1>4. u \in Tables
    BY <1>1, TablesOf, TablesFrom
  <1>5. /\ u.devices = e /\ u.accounts = t.accounts
        /\ u.invites = t.invites /\ u.spaces = t.spaces
    OBVIOUS
  <1> HIDE DEF e, u
  <1>6. Grows(t, u)
    BY <1>1, <1>2, <1>5 DEF Grows
  <1>7. Accounted(u)
    BY <1>5 DEF Accounted
  <1>8. References(u)
    <2>1. \A k \in Rows(u.devices) : u.devices[k] \in Rows(u.accounts)
      BY <1>1, <1>2, <1>4, <1>5, RowsOf DEF References
    <2>2. \A s \in Rows(u.spaces) : Creator(u, u.spaces[s].account, u.spaces[s].device)
      BY <1>4, <1>5, <1>6, GrownKeeps DEF References
    <2>. QED BY <2>1, <2>2 DEF References
  <1>9. d \in DevicesOf(u, a)
    BY <1>0, <1>1, <1>4, <1>5, RowsOf
  <1>. QED BY <1>3, <1>4, <1>6, <1>7, <1>8, <1>9

\* A new space whose creator exists.
LEMMA NewSpace ==
  ASSUME NEW t \in Tables, NEW s \in SpaceIds, NEW row \in SpaceRow,
         t.spaces[s] = NoRow, Creator(t, row.account, row.device), Accounted(t), References(t)
  PROVE  LET u == [t EXCEPT !.spaces[s] = row] IN
         /\ u \in Tables /\ Grows(t, u) /\ Accounted(u) /\ References(u)
         /\ u.spaces[s] # NoRow /\ u.spaces[s] = row
  <1> DEFINE e == [t.spaces EXCEPT ![s] = row]
             u == [invites |-> t.invites, accounts |-> t.accounts, devices |-> t.devices, spaces |-> e]
  <1>0. row # NoRow
    OBVIOUS
  <1>1. e \in [SpaceIds -> SpaceRow \union {NoRow}] /\ e[s] = row
    BY TablesOf
  <1>2. \A k \in SpaceIds : k # s => e[k] = t.spaces[k]
    BY TablesOf
  <1>3. [t EXCEPT !.spaces[s] = row] = u
    BY DEF Tables
  <1>4. u \in Tables
    BY <1>1, TablesOf, TablesFrom
  <1>5. /\ u.spaces = e /\ u.accounts = t.accounts
        /\ u.invites = t.invites /\ u.devices = t.devices
    OBVIOUS
  <1> HIDE DEF e, u
  <1>6. Grows(t, u)
    BY <1>1, <1>2, <1>5 DEF Grows
  <1>7. Accounted(u)
    BY <1>5 DEF Accounted
  <1>8. References(u)
    <2>1. \A k \in Rows(u.devices) : u.devices[k] \in Rows(u.accounts)
      BY <1>5 DEF References
    <2>2. ASSUME NEW k \in Rows(u.spaces) PROVE Creator(u, u.spaces[k].account, u.spaces[k].device)
      <3>1. CASE k = s
        BY <3>1, <1>1, <1>4, <1>5, <1>6, GrownKeeps
      <3>2. CASE k # s
        <4>1. k \in Rows(t.spaces) /\ u.spaces[k] = t.spaces[k]
          BY <3>2, <2>2, <1>2, <1>4, <1>5, RowsOf
        <4>. QED BY <4>1, <1>4, <1>6, GrownKeeps DEF References
      <3>. QED BY <3>1, <3>2
    <2>. QED BY <2>1, <2>2 DEF References
  <1>. QED BY <1>0, <1>1, <1>3, <1>4, <1>5, <1>6, <1>7, <1>8

\* u is t with an account made with an unclaimed code.
AccountMade(t, u, c, a) ==
  /\ t.invites[c] = Nobody /\ t.accounts[a] = NoRow
  /\ u.accounts[a] = c /\ \A k \in AccountIds : k # a => u.accounts[k] = t.accounts[k]
  /\ u.invites[c] = a /\ \A k \in Codes : k # c => u.invites[k] = t.invites[k]
  /\ u.devices = t.devices /\ u.spaces = t.spaces

\* A claim at its commit: a new account, and its code used up by it.
LEMMA NewAccountOfCode ==
  ASSUME NEW t \in Tables, NEW u \in Tables, NEW c \in Codes, NEW a \in AccountIds,
         Accounted(t), References(t), AccountMade(t, u, c, a)
  PROVE  Grows(t, u) /\ Accounted(u) /\ References(u) /\ u.invites[c] = a
  <1>1. a # NoRow /\ a # Nobody /\ c # NoRow /\ Nobody # NoRow /\ Nobody \notin AccountIds
        /\ NoRow \notin Codes
    BY DEF Ids
  <1>2. Grows(t, u)
    BY <1>1 DEF AccountMade, Grows
  <1>3. ASSUME NEW k \in Codes, NEW b \in AccountIds PROVE u.accounts[b] = k <=> u.invites[k] = b
    BY <1>1 DEF AccountMade, Accounted
  <1>4. References(u)
    BY <1>2, GrownKeeps DEF AccountMade, References
  <1>. QED BY <1>2, <1>3, <1>4 DEF AccountMade, Accounted
-----------------------------------------------------------------------------
(***************************************************************************)
(* The forms of a step                                                     *)
(***************************************************************************)

\* A handler that goes on.
LEMMA Proceeding ==
  ASSUME TypeOK, NEW h \in Handlers, NEW label \in Labels, Proceed(h, label)
  PROVE  /\ LocalTypes' /\ OnlyOf(h) /\ served' = served /\ pc'[h] = label
         /\ job'[h] = job[h] /\ mine'[h] = mine[h]
         /\ answer'[h] = answer[h] /\ earlier'[h] = earlier[h]
  BY DEF TypeOK, Proceed, Goto, LocalTypes, OnlyOf, Locals

\* A handler that answers.
LEMMA Answering ==
  ASSUME TypeOK, NEW h \in Handlers, NEW a \in Answers, NEW ids \in SUBSET Ids,
         ReplyWith(h, a, ids)
  PROVE  /\ LocalTypes' /\ OnlyOf(h) /\ served' = served /\ pc'[h] = "answered"
         /\ job'[h] = job[h] /\ mine'[h] = ids
         /\ answer'[h] = a /\ earlier'[h] = earlier[h]
  <1>1. "answered" \in Labels
    BY DEF Labels
  <1>. QED BY <1>1 DEF TypeOK, ReplyWith, Goto, LocalTypes, OnlyOf, Locals

\* Handlers that end.
LEMMA Forgetting ==
  ASSUME TypeOK, NEW hs \in SUBSET Handlers, Forget(hs)
  PROVE  /\ LocalTypes'
         /\ \A q \in hs : pc'[q] = "idle" /\ answer'[q] = "none"
         /\ \A q \in Handlers \ hs : Locals(q)' = Locals(q)
  <1>1. "idle" \in Labels /\ "none" \in Answers
    BY DEF Labels, Answers
  <1>2. /\ pc' \in [Handlers -> Labels]
        /\ job' \in [Handlers -> Jobs \union {NoRow}]
        /\ mine' \in [Handlers -> SUBSET Ids]
        /\ answer' \in [Handlers -> Answers]
        /\ earlier' \in [Handlers -> SUBSET SpaceIds]
    BY <1>1 DEF TypeOK, Forget
  <1>3. \A q \in hs : pc'[q] = "idle" /\ answer'[q] = "none"
    BY DEF Forget
  <1>4. \A q \in Handlers \ hs :
          /\ pc'[q] = pc[q] /\ job'[q] = job[q] /\ mine'[q] = mine[q]
          /\ answer'[q] = answer[q] /\ earlier'[q] = earlier[q]
    BY DEF Forget
  <1>. QED BY <1>2, <1>3, <1>4 DEF LocalTypes, Locals

\* A handler that is idle knows nothing, and one whose answer is an error
\* told nothing.
LEMMA IdleKnows ==
  ASSUME NEW h \in Handlers, pc'[h] = "idle" \/ (pc'[h] = "answered" /\ answer'[h] = "db_error")
  PROVE  Knows(h)'
  BY DEF Knows, ClaimStage, SpaceStage, Stage, Told, Claiming

\* What a handler knows stays true while others add to the tables, which they
\* cannot while it is in its transaction.
LEMMA OtherKnows ==
  ASSUME TypeOK, disk' \in Tables, Grows(disk, disk'), NEW q \in Handlers, Knows(q),
         Locals(q)' = Locals(q),
         pc[q] \in Claiming => disk' = disk,
         pc[q] \in {"claim.invite", "claim.commit"} => cache' = cache
  PROVE  Knows(q)'
  <1>1. /\ pc'[q] = pc[q] /\ job'[q] = job[q] /\ mine'[q] = mine[q]
        /\ answer'[q] = answer[q] /\ earlier'[q] = earlier[q]
    BY DEF Locals
  <1>2. disk \in Tables
    BY DEF TypeOK
  <1>3. /\ Rows(disk.accounts) \subseteq Rows(disk'.accounts)
        /\ Rows(disk.spaces) \subseteq Rows(disk'.spaces)
        /\ \A a : DevicesOf(disk, a) \subseteq DevicesOf(disk', a)
        /\ \A a, d : Creator(disk, a, d) => Creator(disk', a, d)
    BY <1>2, GrownKeeps
  <1>4. ClaimStage(q)'
    <2>1. CASE pc[q] \in Claiming
      <3>1. disk' = disk
        BY <2>1
      <3>2. CASE pc[q] \in {"claim.invite", "claim.commit"}
        <4>1. cache' = cache
          BY <3>2
        <4>2. \A a : NewAccount(q, a)' <=> NewAccount(q, a)
          BY <4>1, <3>1, <1>1 DEF NewAccount
        <4>. QED BY <4>1, <4>2, <3>1, <1>1 DEF Knows, ClaimStage
      <3>3. CASE pc[q] \notin {"claim.invite", "claim.commit"}
        BY <3>1, <3>3, <1>1 DEF Knows, ClaimStage
      <3>. QED BY <3>2, <3>3
    <2>2. CASE pc[q] \notin Claiming
      BY <2>2, <1>1 DEF Knows, ClaimStage, Claiming
    <2>. QED BY <2>1, <2>2
  <1>5. SpaceStage(q)'
    BY <1>1, <1>3 DEF Knows, SpaceStage, Grows
  <1>6. Stage(q)'
    BY <1>1, <1>3 DEF Knows, Stage, Grows
  <1>7. Told(q)'
    <2> DEFINE j == job[q]
    <2>1. SUFFICES ASSUME pc[q] = "answered" PROVE Told(q)'
      BY <1>1 DEF Told
    <2>2. answer[q] = "invite_created" => j.code \in Codes /\ disk'.invites[j.code] # NoRow
      BY <2>1 DEF Knows, Told, Grows
    <2>3. answer[q] = "claimed" => j.code \in Codes /\ \A a \in mine[q] : disk'.invites[j.code] = a
      <3>1. mine[q] \subseteq Ids /\ \A a \in Ids : a # NoRow /\ a # Nobody
        BY DEF TypeOK
      <3>. QED BY <3>1, <2>1 DEF Knows, Told, Grows
    <2>4. answer[q] = "registered" => mine[q] \subseteq DevicesOf(disk', j.account)
      BY <2>1, <1>3 DEF Knows, Told
    <2>5. answer[q] = "space_created" =>
            /\ j.space \in SpaceIds /\ disk'.spaces[j.space] # NoRow
            /\ disk'.spaces[j.space] = [account |-> j.account, device |-> j.device]
      BY <2>1 DEF Knows, Told, Grows
    <2>6. answer[q] = "listed" /\ j.op = "spaces" => earlier[q] \subseteq mine[q]
      BY <2>1 DEF Knows, Told
    <2>. QED BY <2>2, <2>3, <2>4, <2>5, <2>6, <1>1 DEF Told
  <1>. QED BY <1>4, <1>5, <1>6, <1>7 DEF Knows

\* A step outside a transaction that leaves the tables alone, or that rolls
\* its own transaction back.
LEMMA QuietStep ==
  ASSUME IInv, NEW h \in Handlers, LocalTypes', OnlyOf(h), Knows(h)',
         served' \in Codes \union {Down}, SeededWhenServing',
         (UNCHANGED txVars /\ pc[h] \notin Claiming) \/ TxRollback(h),
         pc'[h] \notin Claiming
  PROVE  IInv'
  <1>1. disk' = disk /\ \A q \in Handlers \ {h} : writer = q => cache' = cache
    BY DEF txVars, TxRollback, IInv, Locks
  <1>2. disk \in Tables /\ cache \in Tables /\ NoHandler \notin Handlers
    BY DEF IInv, TypeOK
  <1>3. TypeOK'
    <2>1. cache' \in Tables /\ readers' \subseteq Handlers /\ writer' \in Handlers \union {NoHandler}
      BY <1>2 DEF txVars, TxRollback, IInv, TypeOK
    <2>. QED BY <2>1, <1>1, <1>2 DEF TypeOK, LocalTypes
  <1>4. \A q \in Handlers \ {h} : pc'[q] = pc[q]
    BY DEF OnlyOf, Locals
  <1>5. Locks'
    <2>1. CASE UNCHANGED txVars /\ pc[h] \notin Claiming
      BY <2>1, <1>4 DEF txVars, IInv, Locks, Claiming
    <2>2. CASE TxRollback(h)
      <3>1. \A q \in Handlers : q \in readers' <=> pc'[q] \in Claiming
        BY <2>2, <1>4 DEF TxRollback, IInv, Locks
      <3>2. \A q \in Handlers : writer' = q <=> pc'[q] \in {"claim.invite", "claim.commit"}
        BY <2>2, <1>2, <1>4 DEF TxRollback, IInv, Locks, Claiming
      <3>3. writer' = NoHandler => cache' = disk'
        BY <2>2 DEF TxRollback, IInv, Locks
      <3>. QED BY <3>1, <3>2, <3>3 DEF Locks
    <2>. QED BY <2>1, <2>2
  <1>6. Accounted(disk') /\ References(disk')
    BY <1>1 DEF IInv
  <1>7. ASSUME NEW q \in Handlers PROVE Knows(q)'
    <2>1. CASE q = h
      BY <2>1
    <2>2. CASE q # h
      <3>1. Locals(q)' = Locals(q) /\ Knows(q)
        BY <2>2 DEF OnlyOf, IInv
      <3>2. pc[q] \in {"claim.invite", "claim.commit"} => cache' = cache
        BY <1>1, <2>2 DEF IInv, Locks
      <3>3. Grows(disk, disk')
        BY <1>1, <1>2, GrowsNothing
      <3>. QED BY <1>1, <1>2, <3>1, <3>2, <3>3, OtherKnows DEF IInv
    <2>. QED BY <2>1, <2>2
  <1>. QED BY <1>3, <1>5, <1>6, <1>7 DEF IInv

\* When a statement or a transaction commits, nobody else is in a transaction
\* that has read.
LEMMA Alone ==
  ASSUME ReadLocks, IInv, NEW h \in Handlers, CanCommit(h)
  PROVE  \A q \in Handlers \ {h} : pc[q] \notin Claiming /\ writer # q
  BY DEF CanCommit, IInv, Locks, Claiming

\* A lone INSERT.
LEMMA GrownStep ==
  ASSUME ReadLocks, IInv, NEW h \in Handlers, NEW content \in Tables, AutoWrite(h, content),
         Grows(disk, content), Accounted(content), References(content),
         LocalTypes', OnlyOf(h), served' = served, Knows(h)',
         pc[h] \notin Claiming, pc'[h] \notin Claiming
  PROVE  IInv'
  <1>1. /\ disk' = content /\ cache' = content /\ readers' = readers /\ writer' = writer
        /\ writer = NoHandler /\ CanCommit(h)
    BY DEF AutoWrite, CanAutoWrite
  <1>2. \A q \in Handlers \ {h} : pc[q] \notin Claiming /\ writer # q
    BY <1>1, Alone
  <1>3. TypeOK'
    BY <1>1 DEF IInv, TypeOK, LocalTypes
  <1>4. \A q \in Handlers \ {h} : pc'[q] = pc[q]
    BY DEF OnlyOf, Locals
  <1>5. Locks'
    BY <1>1, <1>2, <1>4 DEF IInv, Locks, Claiming
  <1>6. SeededWhenServing'
    <2>1. served # Down => served \in Codes
      BY DEF IInv, TypeOK
    <2>. QED BY <2>1, <1>1 DEF IInv, SeededWhenServing, Grows
  <1>7. ASSUME NEW q \in Handlers PROVE Knows(q)'
    <2>1. CASE q = h
      BY <2>1
    <2>2. CASE q # h
      <3>1. Locals(q)' = Locals(q) /\ Knows(q) /\ pc[q] \notin Claiming
        BY <2>2, <1>2 DEF OnlyOf, IInv
      <3>. QED BY <1>1, <3>1, OtherKnows DEF IInv, Claiming
    <2>. QED BY <2>1, <2>2
  <1>. QED BY <1>1, <1>3, <1>5, <1>6, <1>7 DEF IInv

\* Nobody else is touched by a handler that fails or is refused.
LEMMA FailStep ==
  ASSUME IInv, NEW h \in Handlers, NEW a \in Answers,
         Refuse(h, a) \/ (Fail(h, a) /\ pc[h] \notin Claiming),
         a \notin {"invite_created", "claimed", "registered", "space_created", "listed"}
  PROVE  IInv'
  <1>1. ReplyWith(h, a, {})
    BY DEF Refuse, Fail
  <1>2. /\ LocalTypes' /\ OnlyOf(h) /\ served' = served /\ pc'[h] = "answered" /\ answer'[h] = a
    BY <1>1, Answering DEF IInv
  <1>3. Knows(h)'
    BY <1>2 DEF Knows, ClaimStage, SpaceStage, Stage, Told, Claiming
  <1>4. (UNCHANGED txVars /\ pc[h] \notin Claiming) \/ TxRollback(h)
    BY DEF Refuse, Fail
  <1>5. served' \in Codes \union {Down} /\ SeededWhenServing'
    BY <1>2, <1>4 DEF IInv, TypeOK, SeededWhenServing, txVars, TxRollback
  <1>. QED BY <1>2, <1>3, <1>4, <1>5, QuietStep DEF Claiming

\* A handler goes on, or answers, after it only looked.
LEMMA LookStep ==
  ASSUME IInv, NEW h \in Handlers, UNCHANGED txVars, pc[h] \notin Claiming, Knows(h)',
         \/ \E label \in Labels \ Claiming : Proceed(h, label)
         \/ \E a \in Answers, ids \in SUBSET Ids : ReplyWith(h, a, ids)
  PROVE  IInv'
  <1>1. LocalTypes' /\ OnlyOf(h) /\ served' = served /\ pc'[h] \notin Claiming
    <2>1. CASE \E label \in Labels \ Claiming : Proceed(h, label)
      BY <2>1, Proceeding DEF IInv
    <2>2. CASE \E a \in Answers, ids \in SUBSET Ids : ReplyWith(h, a, ids)
      BY <2>2, Answering DEF IInv, Claiming
    <2>. QED BY <2>1, <2>2
  <1>2. served' \in Codes \union {Down} /\ SeededWhenServing'
    BY <1>1 DEF IInv, TypeOK, SeededWhenServing, txVars
  <1>. QED BY <1>1, <1>2, QuietStep

\* A handler that is in no transaction ends.
LEMMA EndStep ==
  ASSUME IInv, NEW h \in Handlers, Forget({h}), UNCHANGED txVars, pc[h] \notin Claiming,
         served' \in Codes \union {Down}, SeededWhenServing'
  PROVE  IInv'
  <1>1. /\ LocalTypes' /\ pc'[h] = "idle"
        /\ \A q \in Handlers \ {h} : Locals(q)' = Locals(q)
    BY Forgetting DEF IInv
  <1>2. Knows(h)'
    BY <1>1, IdleKnows
  <1>. QED BY <1>1, <1>2, QuietStep DEF OnlyOf, Claiming

-----------------------------------------------------------------------------
(***************************************************************************)
(* The steps                                                               *)
(***************************************************************************)

\* The empty tables satisfy the invariant.
LEMMA InitIInv == Init => IInv
  <1> SUFFICES ASSUME Init PROVE IInv
    OBVIOUS
  <1>1. disk \in Tables /\ cache \in Tables
    BY DEF Init, Tables
  <1>2. TypeOK
    <2>1. "idle" \in Labels /\ "none" \in Answers
      BY DEF Labels, Answers
    <2>. QED BY <1>1, <2>1 DEF Init, TypeOK
  <1>3. Locks
    BY DEF Init, Locks, Claiming
  <1>4. Accounted(disk)
    BY DEF Init, Accounted, Ids
  <1>5. References(disk)
    BY <1>1, RowsOf DEF Init, References
  <1>6. SeededWhenServing /\ \A h \in Handlers : Knows(h)
    BY DEF Init, SeededWhenServing, Knows, ClaimStage, SpaceStage, Stage, Told, Claiming
  <1>. QED BY <1>2, <1>3, <1>4, <1>5, <1>6 DEF IInv

\* A request that arrives has a place among the jobs.
LEMMA RequestsAreJobs ==
  ASSUME TypeOK
  PROVE  Requests \subseteq Jobs
  <1>1. /\ KnownAccounts \subseteq AccountIds \union {Stranger}
        /\ KnownDevices \subseteq DeviceIds \union {Stranger}
    BY RowsOf DEF TypeOK, KnownAccounts, KnownDevices
  <1> SUFFICES ASSUME NEW j \in Requests PROVE j \in Jobs
    OBVIOUS
  <1>2. \/ j \in [op : {"invite"}, code : Codes]
        \/ j \in [op : {"claim"}, code : Codes]
        \/ j \in [op : {"device"}, account : KnownAccounts]
        \/ j \in [op : {"devices"}, account : KnownAccounts]
        \/ j \in [op : {"space"}, space : SpaceIds, account : KnownAccounts \union {Nobody},
                  device : KnownDevices \union {Nobody}]
        \/ j \in [op : {"spaces"}]
    BY DEF Requests
  <1>3. \/ j \in [op : {"start", "invite", "claim"}, code : Codes]
        \/ j \in [op : {"device", "devices"}, account : AccountIds \union {Stranger}]
        \/ j \in [op : {"space"}, space : SpaceIds, account : AccountIds \union {Stranger, Nobody},
                  device : DeviceIds \union {Stranger, Nobody}]
        \/ j \in [op : {"spaces"}]
    BY <1>1, <1>2
  <1>. QED BY <1>3 DEF Jobs

\* A process is started with a code.
LEMMA StartStep ==
  ASSUME IInv, NEW h \in Handlers, Start(h)
  PROVE  IInv'
  <1>1. PICK code \in Codes : job' = [job EXCEPT ![h] = [op |-> "start", code |-> code]]
    BY DEF Start
  <1>2. [op |-> "start", code |-> code] \in Jobs
    BY DEF Jobs
  <1>3. "seed" \in Labels
    BY DEF Labels
  <1>4. LocalTypes' /\ OnlyOf(h) /\ pc'[h] = "seed" /\ job'[h].code = code
    BY <1>1, <1>2, <1>3 DEF Start, Goto, IInv, TypeOK, LocalTypes, OnlyOf, Locals
  <1>5. Knows(h)'
    BY <1>4 DEF Knows, ClaimStage, SpaceStage, Stage, Told, Claiming
  <1>6. served' \in Codes \union {Down} /\ SeededWhenServing'
    BY DEF Start, txVars, IInv, TypeOK, SeededWhenServing
  <1>7. UNCHANGED txVars /\ pc[h] \notin Claiming
    BY DEF Start, Claiming
  <1>. QED BY <1>4, <1>5, <1>6, <1>7, QuietStep DEF Claiming

\* A request that arrives: one for spaces notes which exist.
LEMMA ArriveStep ==
  ASSUME IInv, NEW h \in Handlers, Arrive(h)
  PROVE  IInv'
  <1>1. PICK j \in Requests :
          /\ job' = [job EXCEPT ![h] = j]
          /\ pc' = [pc EXCEPT ![h] = j.op]
          /\ earlier' = [earlier EXCEPT ![h] = IF j.op = "spaces" THEN Rows(disk.spaces) ELSE {}]
    BY DEF Arrive, Goto
  <1>2. j \in Jobs
    BY RequestsAreJobs DEF IInv
  <1>3. /\ j.op \in {"invite", "claim", "device", "devices", "space", "spaces"}
        /\ j.op \in {"invite", "claim"} => j.code \in Codes
        /\ j.op = "space" => /\ j.space \in SpaceIds
                             /\ j.account \in AccountIds \union {Stranger, Nobody}
                             /\ j.device \in DeviceIds \union {Stranger, Nobody}
    <2>1. j.op \in {"invite", "claim", "device", "devices", "space", "spaces"}
      BY DEF Requests
    <2>2. \/ j \in [op : {"start", "invite", "claim"}, code : Codes]
          \/ j \in [op : {"device", "devices"}, account : AccountIds \union {Stranger}]
          \/ j \in [op : {"space"}, space : SpaceIds, account : AccountIds \union {Stranger, Nobody},
                    device : DeviceIds \union {Stranger, Nobody}]
          \/ j \in [op : {"spaces"}]
      BY <1>2 DEF Jobs
    <2>. QED BY <2>1, <2>2
  <1>4. j.op \in Labels
    BY <1>3 DEF Labels
  <1>5. Rows(disk.spaces) \subseteq SpaceIds
    BY RowsOf DEF IInv, TypeOK
  <1>6. /\ LocalTypes' /\ OnlyOf(h) /\ pc'[h] = j.op /\ job'[h] = j
        /\ j.op = "spaces" => earlier'[h] = Rows(disk.spaces)
    BY <1>1, <1>2, <1>4, <1>5 DEF Arrive, IInv, TypeOK, LocalTypes, OnlyOf, Locals
  <1>7. disk' = disk
    BY DEF Arrive, txVars
  <1>8. Knows(h)'
    BY <1>3, <1>6, <1>7 DEF Knows, ClaimStage, SpaceStage, Stage, Told, Claiming
  <1>9. served' \in Codes \union {Down} /\ SeededWhenServing'
    BY DEF Arrive, txVars, IInv, TypeOK, SeededWhenServing
  <1>10. UNCHANGED txVars /\ pc[h] \notin Claiming /\ pc'[h] \notin Claiming
    BY <1>3, <1>6 DEF Arrive, Claiming
  <1>. QED BY <1>6, <1>8, <1>9, <1>10, QuietStep

\* What ends: a starting process or an answered request.
LEMMA DieStep ==
  ASSUME IInv, NEW h \in Handlers, Die(h) \/ Deliver(h)
  PROVE  IInv'
  <1>1. pc[h] \notin Claiming
    BY DEF Die, Starting, Deliver, IInv, Knows, ClaimStage, Claiming
  <1>2. served' \in Codes \union {Down} /\ SeededWhenServing'
    BY DEF Die, Deliver, txVars, IInv, TypeOK, SeededWhenServing
  <1>. QED BY <1>1, <1>2, EndStep DEF Die, Deliver

\* A killed process rolls its claims back; starting processes hold no lock.
LEMMA CrashStep ==
  ASSUME IInv, Crash
  PROVE  IInv'
  <1>1. /\ disk' = disk /\ cache' = disk /\ writer' = NoHandler /\ readers' = {} /\ served' = Down
        /\ Forget(Handlers \ Starting)
    BY DEF Crash, TxCrash
  <1>2. /\ LocalTypes'
        /\ \A q \in Handlers \ Starting : pc'[q] = "idle" /\ answer'[q] = "none"
        /\ \A q \in Starting : Locals(q)' = Locals(q)
    <2>1. Starting \subseteq Handlers
      BY DEF Starting
    <2>. QED BY <1>1, <2>1, Forgetting DEF IInv
  <1>3. \A q \in Starting : pc[q] \notin Claiming
    BY DEF Starting, IInv, Knows, ClaimStage
  <1>4. \A q \in Handlers : pc'[q] \notin Claiming
    BY <1>2, <1>3 DEF Locals, Claiming
  <1>5. TypeOK'
    BY <1>1, <1>2 DEF IInv, TypeOK, LocalTypes
  <1>6. Locks'
    BY <1>1, <1>4 DEF Locks, Claiming
  <1>7. ASSUME NEW q \in Handlers PROVE Knows(q)'
    <2>1. CASE q \in Starting
      <3>1. Grows(disk, disk')
        BY <1>1, GrowsNothing DEF IInv, TypeOK
      <3>. QED BY <2>1, <3>1, <1>1, <1>2, <1>3, OtherKnows DEF IInv, TypeOK, Claiming
    <2>2. CASE q \notin Starting
      BY <2>2, <1>2, IdleKnows
    <2>. QED BY <2>1, <2>2
  <1>. QED BY <1>1, <1>5, <1>6, <1>7 DEF IInv, SeededWhenServing

\* A code is inserted only where it is not known yet, by the start of a
\* process or by a request.
LEMMA InviteInserted ==
  ASSUME ReadLocks, IInv, NEW h \in Handlers, job[h].code \in Codes,
         disk.invites[job[h].code] = NoRow,
         AutoWrite(h, [disk EXCEPT !.invites[job[h].code] = Nobody]),
         LocalTypes', OnlyOf(h), served' = served, job'[h] = job[h],
         \/ pc'[h] = "listen"
         \/ pc'[h] = "answered" /\ answer'[h] = "invite_created",
         pc[h] \notin Claiming
  PROVE  IInv'
  <1> DEFINE u == [disk EXCEPT !.invites[job[h].code] = Nobody]
  <1>1. /\ u \in Tables /\ Grows(disk, u) /\ Accounted(u) /\ References(u)
        /\ u.invites[job[h].code] # NoRow
    BY NewInvite DEF IInv, TypeOK
  <1>2. disk' = u
    BY DEF AutoWrite
  <1> HIDE DEF u
  <1>3. Knows(h)'
    BY <1>1, <1>2 DEF Knows, ClaimStage, SpaceStage, Stage, Told, Claiming
  <1>4. AutoWrite(h, u)
    BY DEF u
  <1>. QED BY <1>1, <1>3, <1>4, GrownStep DEF Claiming

\* A starting process sees its code in the tables, or inserts it.
LEMMA SeedStep ==
  ASSUME ReadLocks, IInv, NEW h \in Handlers, Seed(h)
  PROVE  IInv'
  <1>0. {"seed.insert", "listen"} \subseteq Labels \ Claiming
    BY DEF Labels, Claiming
  <1>1. CASE SeedLookup(h)
    <2> DEFINE label == IF disk.invites[job[h].code] = NoRow THEN "seed.insert" ELSE "listen"
    <2>1. /\ pc[h] = "seed" /\ Proceed(h, label) /\ UNCHANGED txVars
          /\ job[h].code \in Codes /\ disk' = disk
      BY <1>1 DEF SeedLookup, txVars, IInv, Knows, Stage
    <2>2. pc'[h] = label /\ job'[h] = job[h]
      BY <1>0, <2>1, Proceeding DEF IInv
    <2>3. Knows(h)'
      BY <2>1, <2>2 DEF Knows, ClaimStage, SpaceStage, Stage, Told, Claiming
    <2>4. \E l \in Labels \ Claiming : Proceed(h, l)
      BY <1>0, <2>1
    <2>. QED BY <2>1, <2>3, <2>4, LookStep DEF Claiming
  <1>2. CASE SeedInsert(h)
    <2>1. pc[h] = "seed.insert" /\ Proceed(h, "listen") /\ job[h].code \in Codes
      BY <1>2 DEF SeedInsert, IInv, Knows, Stage
    <2>2. LocalTypes' /\ OnlyOf(h) /\ served' = served /\ job'[h] = job[h] /\ pc'[h] = "listen"
      BY <1>0, <2>1, Proceeding DEF IInv
    <2>. QED BY <1>2, <2>1, <2>2, InviteInserted DEF SeedInsert, Claiming
  <1>3. CASE Listen(h)
    <2>1. job[h].code \in Codes /\ disk.invites[job[h].code] # NoRow /\ disk' = disk
      BY <1>3 DEF Listen, txVars, IInv, Knows, Stage
    <2>2. served' \in Codes \union {Down} /\ SeededWhenServing'
      BY <1>3, <2>1 DEF Listen, SeededWhenServing
    <2>. QED BY <1>3, <2>2, EndStep DEF Listen, Claiming
  <1>. QED BY <1>1, <1>2, <1>3 DEF Seed

\* The answers that say nothing of the tables.
Refusals == Answers \ {"invite_created", "claimed", "registered", "space_created", "listed"}

\* createDevInvite.
LEMMA InviteStep ==
  ASSUME ReadLocks, IInv, NEW h \in Handlers, Invite(h)
  PROVE  IInv'
  <1>0. /\ "invite.insert" \in Labels \ Claiming /\ {"db_error", "invite_exists"} \subseteq Refusals
        /\ "invite_created" \in Answers
    BY DEF Labels, Claiming, Answers, Refusals
  <1>1. CASE InviteLookup(h)
    <2>1. pc[h] \notin Claiming /\ job[h].code \in Codes
      BY <1>1 DEF InviteLookup, Claiming, IInv, Knows, Stage
    <2>2. CASE Fail(h, "db_error") \/ Fail(h, "invite_exists")
      BY <1>0, <2>1, <2>2, FailStep DEF Refusals
    <2>3. CASE Proceed(h, "invite.insert") /\ UNCHANGED txVars
      <3>1. pc'[h] = "invite.insert" /\ job'[h] = job[h]
        BY <1>0, <2>3, Proceeding DEF IInv
      <3>2. Knows(h)'
        BY <2>1, <3>1 DEF Knows, ClaimStage, SpaceStage, Stage, Told, Claiming
      <3>. QED BY <1>0, <2>1, <2>3, <3>2, LookStep
    <2>. QED BY <1>1, <2>2, <2>3 DEF InviteLookup
  <1>2. CASE InviteInsert(h)
    <2>1. pc[h] \notin Claiming /\ job[h].code \in Codes
      BY <1>2 DEF InviteInsert, Claiming, IInv, Knows, Stage
    <2>2. CASE Fail(h, "db_error")
      BY <1>0, <2>1, <2>2, FailStep DEF Refusals
    <2>3. CASE /\ disk.invites[job[h].code] = NoRow
               /\ AutoWrite(h, [disk EXCEPT !.invites[job[h].code] = Nobody])
               /\ ReplyWith(h, "invite_created", {})
      <3>1. /\ LocalTypes' /\ OnlyOf(h) /\ served' = served /\ job'[h] = job[h]
            /\ pc'[h] = "answered" /\ answer'[h] = "invite_created"
        BY <1>0, <2>3, Answering DEF IInv
      <3>. QED BY <2>1, <2>3, <3>1, InviteInserted
    <2>. QED BY <1>2, <2>2, <2>3 DEF InviteInsert
  <1>. QED BY <1>1, <1>2 DEF Invite

\* registerDevice, whose account stays known, and accountDevices.
LEMMA DeviceStep ==
  ASSUME ReadLocks, IInv, NEW h \in Handlers, Device(h)
  PROVE  IInv'
  <1>0. /\ "device.insert" \in Labels \ Claiming
        /\ {"db_error", "account_not_found"} \subseteq Refusals /\ Refusals \subseteq Answers
        /\ {"registered", "listed"} \subseteq Answers
    BY DEF Labels, Claiming, Answers, Refusals
  <1>1. CASE DeviceLookup(h)
    <2>1. pc[h] \notin Claiming /\ UNCHANGED txVars /\ disk' = disk
      BY <1>1 DEF DeviceLookup, Claiming, txVars
    <2>2. CASE ReplyWith(h, "db_error", {}) \/ ReplyWith(h, "account_not_found", {})
      BY <1>0, <2>1, <2>2, FailStep DEF Refusals, Fail
    <2>3. CASE job[h].account \in Rows(disk.accounts) /\ Proceed(h, "device.insert")
      <3>1. pc'[h] = "device.insert" /\ job'[h] = job[h]
        BY <1>0, <2>3, Proceeding DEF IInv
      <3>2. Knows(h)'
        BY <2>1, <2>3, <3>1 DEF Knows, ClaimStage, SpaceStage, Stage, Told, Claiming
      <3>. QED BY <1>0, <2>1, <2>3, <3>2, LookStep
    <2>. QED BY <1>1, <2>2, <2>3 DEF DeviceLookup
  <1>2. CASE DeviceInsert(h)
    <2> DEFINE d == CHOOSE id \in Free(disk.devices) : TRUE
               u == [disk EXCEPT !.devices[d] = job[h].account]
    <2>1. pc[h] \notin Claiming /\ job[h].account \in Rows(disk.accounts)
      BY <1>2 DEF DeviceInsert, Claiming, IInv, Knows, Stage
    <2>2. CASE Fail(h, "db_error")
      BY <1>0, <2>1, <2>2, FailStep DEF Refusals
    <2>3. CASE Free(disk.devices) # {} /\ Insert(h, u, "registered", d)
      <3>1. d \in Free(disk.devices)
        BY <2>3
      <3>2. d \in DeviceIds /\ disk.devices[d] = NoRow /\ {d} \in SUBSET Ids
        BY <3>1, TablesOf DEF Free, Rows, IInv, TypeOK, Ids
      <3> HIDE DEF d
      <3>3. /\ u \in Tables /\ Grows(disk, u) /\ Accounted(u) /\ References(u)
            /\ d \in DevicesOf(u, job[h].account)
        BY <2>1, <3>2, NewDevice DEF IInv, TypeOK
      <3>4. AutoWrite(h, u) /\ disk' = u /\ ReplyWith(h, "registered", {d})
        BY <2>3 DEF Insert, AutoWrite
      <3> HIDE DEF u
      <3>5. /\ LocalTypes' /\ OnlyOf(h) /\ served' = served /\ job'[h] = job[h]
            /\ pc'[h] = "answered" /\ answer'[h] = "registered" /\ mine'[h] = {d}
        BY <1>0, <3>2, <3>4, Answering DEF IInv
      <3>6. Knows(h)'
        BY <3>3, <3>4, <3>5 DEF Knows, ClaimStage, SpaceStage, Stage, Told, Claiming
      <3>. QED BY <2>1, <3>3, <3>4, <3>5, <3>6, GrownStep DEF Claiming
    <2>. QED BY <1>2, <2>2, <2>3 DEF DeviceInsert
  <1>3. CASE ListDevices(h)
    <2>1. pc[h] \notin Claiming /\ UNCHANGED txVars /\ job[h].op = "devices"
      BY <1>3 DEF ListDevices, Claiming, IInv, Knows, Stage
    <2>2. CASE ReplyWith(h, "db_error", {})
      BY <1>0, <2>1, <2>2, FailStep DEF Refusals, Fail
    <2>3. CASE \E list \in SUBSET DevicesOf(disk, job[h].account) : ReplyWith(h, "listed", list)
      <3>1. PICK list \in SUBSET DevicesOf(disk, job[h].account) : ReplyWith(h, "listed", list)
        BY <2>3
      <3>2. list \in SUBSET Ids
        BY RowsOf DEF IInv, TypeOK, Ids
      <3>3. pc'[h] = "answered" /\ answer'[h] = "listed" /\ job'[h] = job[h]
        BY <1>0, <3>1, <3>2, Answering DEF IInv
      <3>4. Knows(h)'
        BY <2>1, <3>3 DEF Knows, ClaimStage, SpaceStage, Stage, Told, Claiming
      <3>. QED BY <1>0, <2>1, <3>1, <3>2, <3>4, LookStep
    <2>. QED BY <1>3, <2>2, <2>3 DEF ListDevices
  <1>. QED BY <1>1, <1>2, <1>3 DEF Device

\* createRelaySpace, whose creator stays known, and listRelaySpaces.
LEMMA SpaceStep ==
  ASSUME ReadLocks, IInv, NEW h \in Handlers, Space(h)
  PROVE  IInv'
  <1> DEFINE j == job[h]
             row == [account |-> j.account, device |-> j.device]
  <1>0. /\ {"space.insert", "space.device", "space.reread"} \subseteq Labels \ Claiming
        /\ {"db_error", "account_required_for_device", "account_not_found",
            "device_not_found", "account_device_mismatch"} \subseteq Refusals
        /\ Refusals \subseteq Answers /\ {"space_created", "listed"} \subseteq Answers
    BY DEF Labels, Claiming, Answers, Refusals
  <1>1. pc[h] \notin Claiming /\ disk \in Tables
    BY DEF Space, SpaceAccount, SpaceDevice, SpaceInsert, SpaceReread, ListSpaces, Claiming, IInv, TypeOK
  <1>2. CASE \E a \in Refusals : Fail(h, a)
    <2>. QED BY <1>0, <1>1, <1>2, FailStep DEF Refusals
  <1>3. CASE SpaceAccount(h) /\ ~ \E a \in Refusals : Fail(h, a)
    <2>0. /\ j.space \in SpaceIds
          /\ j.account \in AccountIds \union {Stranger, Nobody}
          /\ j.device \in DeviceIds \union {Stranger, Nobody}
      BY <1>3 DEF SpaceAccount, IInv, Knows, SpaceStage
    <2>1. CASE /\ j.account = Nobody /\ j.device = Nobody
               /\ UNCHANGED txVars /\ Proceed(h, "space.insert")
      <3>1. pc'[h] = "space.insert" /\ job'[h] = j /\ disk' = disk
        BY <1>0, <2>1, Proceeding DEF IInv, txVars
      <3>2. row \in SpaceRow /\ Creator(disk, j.account, j.device)
        BY <2>1 DEF SpaceRow, Creator
      <3>3. Knows(h)'
        BY <2>0, <3>1, <3>2 DEF Knows, ClaimStage, SpaceStage, Stage, Told, Claiming
      <3>. QED BY <1>0, <1>1, <2>1, <3>3, LookStep
    <2>2. CASE /\ j.account \in Rows(disk.accounts)
               /\ Proceed(h, IF j.device = Nobody THEN "space.insert" ELSE "space.device")
               /\ UNCHANGED txVars
      <3>0. j.account \in AccountIds /\ disk' = disk
        BY <1>1, <2>2, RowsOf DEF txVars
      <3>1. CASE j.device = Nobody
        <4>1. pc'[h] = "space.insert" /\ job'[h] = j
          BY <1>0, <2>2, <3>1, Proceeding DEF IInv
        <4>2. row \in SpaceRow /\ Creator(disk, j.account, j.device)
          BY <2>2, <3>0, <3>1 DEF SpaceRow, Creator
        <4>3. Knows(h)'
          BY <2>0, <3>0, <4>1, <4>2 DEF Knows, ClaimStage, SpaceStage, Stage, Told, Claiming
        <4>. QED BY <1>0, <1>1, <2>2, <3>1, <4>3, LookStep
      <3>2. CASE j.device # Nobody
        <4>1. pc'[h] = "space.device" /\ job'[h] = j
          BY <1>0, <2>2, <3>2, Proceeding DEF IInv
        <4>2. Knows(h)'
          BY <2>0, <2>2, <3>0, <4>1 DEF Knows, ClaimStage, SpaceStage, Stage, Told, Claiming
        <4>. QED BY <1>0, <1>1, <2>2, <3>2, <4>2, LookStep
      <3>. QED BY <3>1, <3>2
    <2>. QED BY <1>0, <1>3, <2>1, <2>2 DEF SpaceAccount
  <1>4. CASE SpaceDevice(h) /\ ~ \E a \in Refusals : Fail(h, a)
    <2>1. /\ j.device \in Rows(disk.devices) /\ disk.devices[j.device] = j.account
          /\ UNCHANGED txVars /\ Proceed(h, "space.insert") /\ disk' = disk
      BY <1>0, <1>4 DEF SpaceDevice, txVars
    <2>2. j.account \in Rows(disk.accounts) /\ j.space \in SpaceIds
      BY <1>4 DEF SpaceDevice, IInv, Knows, SpaceStage
    <2>3. /\ j.account \in AccountIds /\ j.account # Nobody /\ j.device \in DeviceIds
          /\ j.device \in DevicesOf(disk, j.account)
      BY <1>1, <2>1, <2>2, RowsOf DEF Ids
    <2>4. pc'[h] = "space.insert" /\ job'[h] = j
      BY <1>0, <2>1, Proceeding DEF IInv
    <2>5. row \in SpaceRow /\ Creator(disk, j.account, j.device)
      BY <2>2, <2>3 DEF SpaceRow, Creator
    <2>6. Knows(h)'
      BY <2>1, <2>2, <2>3, <2>4, <2>5 DEF Knows, ClaimStage, SpaceStage, Stage, Told, Claiming
    <2>. QED BY <1>0, <1>1, <2>1, <2>6, LookStep
  <1>5. CASE SpaceInsert(h) /\ ~ \E a \in Refusals : Fail(h, a)
    <2> DEFINE u == [disk EXCEPT !.spaces[j.space] = row]
    <2>1. disk.spaces[j.space] = NoRow /\ AutoWrite(h, u) /\ Proceed(h, "space.reread")
      BY <1>0, <1>5 DEF SpaceInsert
    <2>2. j.space \in SpaceIds /\ row \in SpaceRow /\ Creator(disk, j.account, j.device)
      BY <1>5 DEF SpaceInsert, IInv, Knows, SpaceStage
    <2>3. row.account = j.account /\ row.device = j.device
      OBVIOUS
    <2>4. /\ u \in Tables /\ Grows(disk, u) /\ Accounted(u) /\ References(u)
          /\ u.spaces[j.space] # NoRow /\ u.spaces[j.space] = row
      <3> HIDE DEF row
      <3>. QED BY <1>1, <2>1, <2>2, <2>3, NewSpace DEF IInv
    <2>5. disk' = u
      BY <2>1 DEF AutoWrite
    <2>6. /\ LocalTypes' /\ OnlyOf(h) /\ served' = served /\ job'[h] = j
          /\ pc'[h] = "space.reread"
      BY <1>0, <2>1, Proceeding DEF IInv
    <2>7. j.account \in AccountIds \union {Nobody} /\ j.device \in DeviceIds \union {Nobody}
      BY <2>2, <2>3 DEF SpaceRow
    <2> HIDE DEF u
    <2>8. Knows(h)'
      BY <2>2, <2>4, <2>5, <2>6, <2>7 DEF Knows, ClaimStage, SpaceStage, Stage, Told, Claiming
    <2>. QED BY <1>0, <1>1, <2>1, <2>4, <2>6, <2>8, GrownStep
  <1>6. CASE SpaceReread(h) /\ ~ \E a \in Refusals : Fail(h, a)
    <2>1. UNCHANGED txVars /\ ReplyWith(h, "space_created", {j.space}) /\ disk' = disk
      BY <1>0, <1>6 DEF SpaceReread, txVars
    <2>2. j.space \in SpaceIds /\ disk.spaces[j.space] # NoRow /\ disk.spaces[j.space] = row
      BY <1>6 DEF SpaceReread, IInv, Knows, SpaceStage
    <2>3. {j.space} \in SUBSET Ids
      BY <2>2 DEF Ids
    <2>4. pc'[h] = "answered" /\ answer'[h] = "space_created" /\ job'[h] = j
      BY <1>0, <2>1, <2>3, Answering DEF IInv
    <2>5. Knows(h)'
      BY <2>1, <2>2, <2>4 DEF Knows, ClaimStage, SpaceStage, Stage, Told, Claiming
    <2>. QED BY <1>0, <1>1, <2>1, <2>3, <2>5, LookStep
  <1>7. CASE ListSpaces(h) /\ ~ \E a \in Refusals : Fail(h, a)
    <2>1. UNCHANGED txVars /\ ReplyWith(h, "listed", Rows(disk.spaces))
      BY <1>0, <1>7 DEF ListSpaces
    <2>2. earlier[h] \subseteq Rows(disk.spaces)
      BY <1>7 DEF ListSpaces, IInv, Knows, Stage
    <2>3. Rows(disk.spaces) \in SUBSET Ids
      BY <1>1, RowsOf DEF Ids
    <2>4. /\ pc'[h] = "answered" /\ answer'[h] = "listed"
          /\ mine'[h] = Rows(disk.spaces) /\ earlier'[h] = earlier[h]
      BY <1>0, <2>1, <2>3, Answering DEF IInv
    <2>5. Knows(h)'
      BY <2>2, <2>4 DEF Knows, ClaimStage, SpaceStage, Stage, Told, Claiming
    <2>. QED BY <1>0, <1>1, <2>1, <2>3, <2>5, LookStep
  <1>. QED BY <1>2, <1>3, <1>4, <1>5, <1>6, <1>7 DEF Space

\* The transaction of a claim.
LEMMA ClaimReadStep ==
  ASSUME IInv, NEW h \in Handlers, ClaimRead(h)
  PROVE  IInv'
  <1>0. /\ "claim.account" \in Labels
        /\ {"db_error", "invalid_invite", "invite_claimed"} \subseteq Refusals /\ Refusals \subseteq Answers
    BY DEF Labels, Answers, Refusals
  <1>1. CASE \E a \in Refusals : Refuse(h, a)
    BY <1>0, <1>1, FailStep DEF Refusals
  <1>2. CASE /\ disk.invites[job[h].code] = Nobody /\ TxRead(h)
             /\ Proceed(h, "claim.account")
    <2>1. /\ pc[h] = "claim" /\ job[h].op = "claim" /\ job[h].code \in Codes
      BY DEF ClaimRead, IInv, Knows, ClaimStage
    <2>2. /\ LocalTypes' /\ OnlyOf(h) /\ served' = served /\ pc'[h] = "claim.account"
          /\ job'[h] = job[h]
      BY <1>0, <1>2, Proceeding DEF IInv
    <2>3. /\ disk' = disk /\ cache' = cache /\ writer' = writer /\ readers' = readers \union {h}
      BY <1>2 DEF TxRead
    <2>4. \A q \in Handlers \ {h} : pc'[q] = pc[q]
      BY <2>2 DEF OnlyOf, Locals
    <2>5. TypeOK'
      BY <2>2, <2>3 DEF IInv, TypeOK, LocalTypes
    <2>6. Locks'
      <3>1. \A q \in Handlers : q \in readers' <=> pc'[q] \in Claiming
        BY <2>2, <2>3, <2>4 DEF IInv, Locks, Claiming
      <3>2. \A q \in Handlers : writer' = q <=> pc'[q] \in {"claim.invite", "claim.commit"}
        BY <2>1, <2>2, <2>3, <2>4 DEF IInv, Locks
      <3>. QED BY <2>3, <3>1, <3>2 DEF IInv, Locks
    <2>7. ASSUME NEW q \in Handlers PROVE Knows(q)'
      <3>1. CASE q = h
        BY <3>1, <1>2, <2>1, <2>2, <2>3 DEF Knows, ClaimStage, SpaceStage, Stage, Told, Claiming
      <3>2. CASE q # h
        <4>1. Locals(q)' = Locals(q) /\ Knows(q) /\ Grows(disk, disk')
          BY <3>2, <2>2, <2>3, GrowsNothing DEF OnlyOf, IInv, TypeOK
        <4>. QED BY <4>1, <2>3, OtherKnows DEF IInv, TypeOK
      <3>. QED BY <3>1, <3>2
    <2>. QED BY <2>2, <2>3, <2>5, <2>6, <2>7 DEF IInv, SeededWhenServing
  <1>. QED BY <1>0, <1>1, <1>2 DEF ClaimRead

\* A statement of the transaction that writes to the cache.
LEMMA ClaimWrites ==
  ASSUME IInv, NEW h \in Handlers, NEW content \in Tables, TxWrite(h, content),
         LocalTypes', OnlyOf(h), served' = served, Knows(h)',
         pc[h] \in Claiming, pc'[h] \in {"claim.invite", "claim.commit"}
  PROVE  IInv'
  <1>1. /\ disk' = disk /\ cache' = content /\ writer' = h
        /\ readers' = readers \union {h} /\ writer \in {h, NoHandler}
    BY DEF TxWrite, CanWrite
  <1>2. \A q \in Handlers \ {h} : pc'[q] = pc[q] /\ pc[q] \notin {"claim.invite", "claim.commit"}
    BY <1>1 DEF OnlyOf, Locals, IInv, Locks
  <1>3. TypeOK'
    BY <1>1 DEF IInv, TypeOK, LocalTypes
  <1>4. Locks'
    <2>1. \A q \in Handlers : q \in readers' <=> pc'[q] \in Claiming
      BY <1>1, <1>2 DEF IInv, Locks, Claiming
    <2>2. \A q \in Handlers : writer' = q <=> pc'[q] \in {"claim.invite", "claim.commit"}
      BY <1>1, <1>2
    <2>. QED BY <1>1, <2>1, <2>2 DEF Locks
  <1>5. ASSUME NEW q \in Handlers PROVE Knows(q)'
    <2>1. CASE q = h
      BY <2>1
    <2>2. CASE q # h
      <3>1. Locals(q)' = Locals(q) /\ Knows(q) /\ Grows(disk, disk')
        BY <2>2, <1>1, GrowsNothing DEF OnlyOf, IInv, TypeOK
      <3>. QED BY <2>2, <3>1, <1>1, <1>2, OtherKnows DEF IInv, TypeOK
    <2>. QED BY <2>1, <2>2
  <1>. QED BY <1>1, <1>3, <1>4, <1>5 DEF IInv, SeededWhenServing

\* The account of a claim is in the cache alone.
LEMMA ClaimAccountStep ==
  ASSUME IInv, NEW h \in Handlers, ClaimAccount(h)
  PROVE  IInv'
  <1> DEFINE first == CHOOSE id \in Free(cache.accounts) : TRUE
             code == job[h].code
  <1>0. "claim.invite" \in Labels /\ "db_error" \in Refusals /\ Refusals \subseteq Answers
    BY DEF Labels, Answers, Refusals
  <1>1. CASE Refuse(h, "db_error")
    BY <1>0, <1>1, FailStep DEF Refusals
  <1>2. CASE /\ Free(cache.accounts) # {}
             /\ TxWrite(h, [cache EXCEPT !.accounts[first] = code])
             /\ mine' = [mine EXCEPT ![h] = {first}]
             /\ Goto(h, "claim.invite")
             /\ UNCHANGED <<served, job, answer, earlier>>
    <2>1. /\ pc[h] = "claim.account" /\ job[h].op = "claim" /\ code \in Codes
          /\ disk.invites[code] = Nobody
      BY DEF ClaimAccount, IInv, Knows, ClaimStage, Claiming
    <2>2. writer = NoHandler /\ cache = disk /\ disk \in Tables
      BY <1>2, <2>1 DEF TxWrite, CanWrite, IInv, Locks, TypeOK
    <2>3. PICK a \in Free(cache.accounts) : a = first
      BY <1>2
    <2>4. a \in AccountIds /\ disk.accounts[a] = NoRow /\ a \in Ids
      BY <2>2, <2>3, TablesOf DEF Free, Rows, Ids
    <2> DEFINE u == [cache EXCEPT !.accounts[a] = code]
    <2>5. TxWrite(h, u) /\ mine' = [mine EXCEPT ![h] = {a}]
      BY <1>2, <2>3
    <2>6. /\ u = [invites |-> disk.invites, accounts |-> [disk.accounts EXCEPT ![a] = code],
                  devices |-> disk.devices, spaces |-> disk.spaces]
      BY <2>2 DEF Tables
    <2>7. u \in Tables
      <3>1. [disk.accounts EXCEPT ![a] = code] \in [AccountIds -> Codes \union {NoRow}]
        BY <2>1, <2>2, TablesOf
      <3>. QED BY <3>1, <2>2, <2>6, TablesOf, TablesFrom
    <2>8. /\ u.accounts = [disk.accounts EXCEPT ![a] = code] /\ u.invites = disk.invites
          /\ u.devices = disk.devices /\ u.spaces = disk.spaces
      BY <2>6
    <2>9. disk' = disk /\ cache' = u
      BY <2>5 DEF TxWrite
    <2> HIDE DEF u
    <2>10. LocalTypes' /\ OnlyOf(h) /\ pc'[h] = "claim.invite" /\ mine'[h] = {a} /\ job'[h] = job[h]
      BY <1>0, <1>2, <2>4, <2>5 DEF Goto, IInv, TypeOK, LocalTypes, OnlyOf, Locals
    <2>11. NewAccount(h, a)' /\ cache'.invites = disk'.invites
      BY <2>4, <2>8, <2>9, <2>10 DEF NewAccount
    <2>12. Knows(h)'
      BY <2>1, <2>4, <2>9, <2>10, <2>11 DEF Knows, ClaimStage, SpaceStage, Stage, Told, Claiming
    <2>. QED BY <1>2, <2>5, <2>1, <2>7, <2>10, <2>12, ClaimWrites DEF Claiming
  <1>. QED BY <1>1, <1>2 DEF ClaimAccount

\* Then its code is used up there too.
LEMMA ClaimInviteStep ==
  ASSUME IInv, NEW h \in Handlers, ClaimInvite(h)
  PROVE  IInv'
  <1>0. "claim.commit" \in Labels /\ "db_error" \in Refusals /\ Refusals \subseteq Answers
    BY DEF Labels, Answers, Refusals
  <1>1. CASE Refuse(h, "db_error")
    BY <1>0, <1>1, FailStep DEF Refusals
  <1>2. CASE ~ Refuse(h, "db_error")
    <2> DEFINE code == job[h].code
    <2>1. /\ pc[h] = "claim.invite" /\ job[h].op = "claim" /\ code \in Codes
          /\ disk.invites[code] = Nobody
      BY DEF ClaimInvite, IInv, Knows, ClaimStage, Claiming
    <2>2. PICK a \in AccountIds : NewAccount(h, a) /\ cache.invites = disk.invites
      BY <2>1 DEF IInv, Knows, ClaimStage
    <2> DEFINE u == [cache EXCEPT !.invites[code] = a]
    <2>3. TxWrite(h, u) /\ Proceed(h, "claim.commit")
      BY <1>2, <2>2 DEF ClaimInvite, NewAccount
    <2>4. disk \in Tables /\ cache \in Tables
      BY DEF IInv, TypeOK
    <2>5. u = [invites |-> [disk.invites EXCEPT ![code] = a], accounts |-> cache.accounts,
               devices |-> cache.devices, spaces |-> cache.spaces]
      BY <2>2, <2>4 DEF Tables
    <2>6. u \in Tables
      <3>1. [disk.invites EXCEPT ![code] = a] \in [Codes -> AccountIds \union {Nobody, NoRow}]
        BY <2>1, <2>4, TablesOf
      <3>. QED BY <3>1, <2>4, <2>5, TablesOf, TablesFrom
    <2>7. /\ u.invites = [disk.invites EXCEPT ![code] = a] /\ u.accounts = cache.accounts
          /\ u.devices = cache.devices /\ u.spaces = cache.spaces
      BY <2>5
    <2>8. disk' = disk /\ cache' = u
      BY <2>3 DEF TxWrite
    <2> HIDE DEF u
    <2>9. /\ LocalTypes' /\ OnlyOf(h) /\ served' = served /\ pc'[h] = "claim.commit"
          /\ mine'[h] = mine[h] /\ job'[h] = job[h]
      BY <1>0, <2>3, Proceeding DEF IInv
    <2>10. NewAccount(h, a)' /\ cache'.invites = [disk'.invites EXCEPT ![code] = a]
      BY <2>2, <2>7, <2>8, <2>9 DEF NewAccount
    <2>11. Knows(h)'
      BY <2>1, <2>2, <2>8, <2>9, <2>10 DEF Knows, ClaimStage, SpaceStage, Stage, Told, Claiming
    <2>. QED BY <2>1, <2>3, <2>6, <2>9, <2>11, ClaimWrites DEF Claiming
  <1>. QED BY <1>1, <1>2

\* What a claim commits: its account, and its code used up.
LEMMA ClaimCommits ==
  ASSUME IInv, NEW h \in Handlers, pc[h] = "claim.commit"
  PROVE  /\ Grows(disk, cache) /\ Accounted(cache) /\ References(cache)
         /\ job[h].code \in Codes /\ \A a \in mine[h] : cache.invites[job[h].code] = a
  <1>1. job[h].code \in Codes /\ disk.invites[job[h].code] = Nobody
    BY DEF IInv, Knows, ClaimStage, Claiming
  <1>2. PICK a \in AccountIds :
          NewAccount(h, a) /\ cache.invites = [disk.invites EXCEPT ![job[h].code] = a]
    BY DEF IInv, Knows, ClaimStage
  <1>3. disk \in Tables /\ cache \in Tables
    BY DEF IInv, TypeOK
  <1>4. /\ mine[h] = {a} /\ disk.accounts[a] = NoRow
        /\ cache.accounts = [disk.accounts EXCEPT ![a] = job[h].code]
        /\ cache.devices = disk.devices /\ cache.spaces = disk.spaces
    BY <1>2 DEF NewAccount
  <1>5. Grows(disk, cache) /\ Accounted(cache) /\ References(cache) /\ cache.invites[job[h].code] = a
    <2>1. AccountMade(disk, cache, job[h].code, a)
      BY <1>1, <1>2, <1>3, <1>4, TablesOf DEF AccountMade
    <2>. QED BY <1>1, <1>3, <2>1, NewAccountOfCode DEF IInv
  <1>. QED BY <1>1, <1>4, <1>5

\* A claim that commits is alone, so that what it read is what it writes over.
LEMMA ClaimCommitStep ==
  ASSUME ReadLocks, IInv, NEW h \in Handlers, ClaimCommit(h)
  PROVE  IInv'
  <1>0. "claimed" \in Answers /\ "db_error" \in Refusals /\ Refusals \subseteq Answers
    BY DEF Labels, Answers, Refusals
  <1>1. CASE Refuse(h, "db_error")
    BY <1>0, <1>1, FailStep DEF Refusals
  <1>2. CASE TxCommit(h) /\ ReplyWith(h, "claimed", mine[h])
    <2>1. /\ pc[h] = "claim.commit" /\ mine[h] \in SUBSET Ids
          /\ disk \in Tables /\ cache \in Tables
      BY DEF ClaimCommit, IInv, TypeOK
    <2>2. /\ disk' = cache /\ cache' = cache /\ writer' = NoHandler /\ readers' = readers \ {h}
          /\ CanCommit(h)
      BY <1>2 DEF TxCommit
    <2>3. \A q \in Handlers \ {h} : pc[q] \notin Claiming
      BY <2>2, Alone
    <2>4. /\ LocalTypes' /\ OnlyOf(h) /\ served' = served /\ job'[h] = job[h]
          /\ pc'[h] = "answered" /\ answer'[h] = "claimed" /\ mine'[h] = mine[h]
      BY <1>0, <1>2, <2>1, Answering DEF IInv
    <2>5. /\ Grows(disk, disk') /\ Accounted(disk') /\ References(disk')
          /\ job[h].code \in Codes /\ \A a \in mine[h] : disk'.invites[job[h].code] = a
      BY <2>1, <2>2, ClaimCommits
    <2>6. \A q \in Handlers : pc'[q] \notin Claiming
      BY <2>3, <2>4 DEF OnlyOf, Locals, Claiming
    <2>7. TypeOK'
      BY <2>1, <2>2, <2>4 DEF IInv, TypeOK, LocalTypes
    <2>8. Locks'
      BY <2>2, <2>3, <2>6 DEF IInv, Locks, Claiming
    <2>9. SeededWhenServing'
      <3>1. served # Down => served \in Codes
        BY DEF IInv, TypeOK
      <3>. QED BY <3>1, <2>4, <2>5 DEF IInv, SeededWhenServing, Grows
    <2>10. ASSUME NEW q \in Handlers PROVE Knows(q)'
      <3>1. CASE q = h
        BY <3>1, <2>4, <2>5 DEF Knows, ClaimStage, SpaceStage, Stage, Told, Claiming
      <3>2. CASE q # h
        <4>1. Locals(q)' = Locals(q) /\ Knows(q) /\ pc[q] \notin Claiming
          BY <3>2, <2>3, <2>4 DEF OnlyOf, IInv
        <4>. QED BY <4>1, <2>1, <2>2, <2>5, OtherKnows DEF IInv, Claiming
      <3>. QED BY <3>1, <3>2
    <2>. QED BY <2>2, <2>5, <2>7, <2>8, <2>9, <2>10 DEF IInv
  <1>. QED BY <1>1, <1>2 DEF ClaimCommit

\* Every step keeps the invariant.
LEMMA NextIInv ==
  ASSUME ReadLocks, IInv, [Next]_vars
  PROVE  IInv'
  <1>1. CASE Crash
    BY <1>1, CrashStep
  <1>2. ASSUME NEW h \in Handlers,
               \/ Start(h) \/ Seed(h) \/ Die(h)
               \/ Arrive(h) \/ Invite(h) \/ Claim(h) \/ Device(h) \/ Space(h) \/ Deliver(h)
        PROVE  IInv'
    <2>1. CASE Start(h) \/ Arrive(h) \/ Die(h) \/ Deliver(h)
      BY <2>1, StartStep, ArriveStep, DieStep
    <2>2. CASE Seed(h) \/ Invite(h) \/ Device(h) \/ Space(h)
      BY <2>2, SeedStep, InviteStep, DeviceStep, SpaceStep
    <2>3. CASE Claim(h)
      BY <2>3, ClaimReadStep, ClaimAccountStep, ClaimInviteStep, ClaimCommitStep DEF Claim
    <2>. QED BY <1>2, <2>1, <2>2, <2>3
  <1>3. CASE UNCHANGED vars
    <2>1. /\ UNCHANGED txVars /\ UNCHANGED <<served, pc, job, mine, answer, earlier>>
      BY <1>3 DEF vars, txVars
    <2>2. TypeOK'
      BY <2>1 DEF txVars, IInv, TypeOK
    <2>3. Locks'
      BY <2>1 DEF txVars, IInv, Locks
    <2>4. Accounted(disk') /\ References(disk') /\ SeededWhenServing'
      BY <2>1 DEF txVars, IInv, SeededWhenServing
    <2>5. ASSUME NEW q \in Handlers PROVE Knows(q)'
      <3>1. disk' = disk /\ cache' = cache /\ Locals(q)' = Locals(q) /\ Knows(q)
        BY <2>1 DEF txVars, Locals, IInv
      <3>2. disk \in Tables /\ TypeOK
        BY DEF IInv, TypeOK
      <3>. QED BY <3>1, <3>2, GrowsNothing, OtherKnows
    <2>. QED BY <2>2, <2>3, <2>4, <2>5 DEF IInv
  <1>. QED BY <1>1, <1>2, <1>3 DEF Next

\* No step takes from the tables or changes what they say.
LEMMA NextGrows ==
  ASSUME ReadLocks, IInv, [Next]_vars
  PROVE  Grows(disk, disk')
  <1>1. CASE disk' = disk
    BY <1>1, GrowsNothing DEF IInv, TypeOK
  <1>2. ASSUME NEW h \in Handlers, SeedInsert(h) \/ InviteInsert(h), disk' # disk
        PROVE  Grows(disk, disk')
    <2>1. /\ job[h].code \in Codes /\ disk.invites[job[h].code] = NoRow
          /\ disk' = [disk EXCEPT !.invites[job[h].code] = Nobody]
      BY <1>2 DEF SeedInsert, InviteInsert, Fail, txVars, AutoWrite, IInv, Knows, Stage
    <2>. QED BY <2>1, NewInvite DEF IInv, TypeOK
  <1>3. ASSUME NEW h \in Handlers, DeviceInsert(h), disk' # disk
        PROVE  Grows(disk, disk')
    <2> DEFINE d == CHOOSE id \in Free(disk.devices) : TRUE
    <2>1. /\ job[h].account \in Rows(disk.accounts) /\ Free(disk.devices) # {}
          /\ disk' = [disk EXCEPT !.devices[d] = job[h].account]
      BY <1>3 DEF DeviceInsert, Insert, Fail, txVars, AutoWrite, IInv, Knows, Stage
    <2>2. d \in Free(disk.devices)
      BY <2>1
    <2>3. d \in DeviceIds /\ disk.devices[d] = NoRow
      BY <2>2, TablesOf DEF Free, Rows, IInv, TypeOK
    <2> HIDE DEF d
    <2>. QED BY <2>1, <2>3, NewDevice DEF IInv, TypeOK
  <1>4. ASSUME NEW h \in Handlers, SpaceInsert(h), disk' # disk
        PROVE  Grows(disk, disk')
    <2> DEFINE row == [account |-> job[h].account, device |-> job[h].device]
    <2>1. /\ job[h].space \in SpaceIds /\ row \in SpaceRow /\ disk.spaces[job[h].space] = NoRow
          /\ Creator(disk, row.account, row.device)
          /\ disk' = [disk EXCEPT !.spaces[job[h].space] = row]
      BY <1>4 DEF SpaceInsert, Fail, txVars, AutoWrite, IInv, Knows, SpaceStage
    <2> HIDE DEF row
    <2>. QED BY <2>1, NewSpace DEF IInv, TypeOK
  <1>5. ASSUME NEW h \in Handlers, ClaimCommit(h), disk' # disk
        PROVE  Grows(disk, disk')
    BY <1>5, ClaimCommits DEF ClaimCommit, Refuse, TxRollback, TxCommit
  <1>6. ASSUME disk' # disk
        PROVE  \E h \in Handlers : \/ SeedInsert(h) \/ InviteInsert(h) \/ DeviceInsert(h)
                                   \/ SpaceInsert(h) \/ ClaimCommit(h)
    <2>1. ~ UNCHANGED vars /\ ~ Crash
      BY <1>6 DEF vars, Crash, TxCrash
    <2>2. PICK h \in Handlers :
            \/ Start(h) \/ Seed(h) \/ Die(h)
            \/ Arrive(h) \/ Invite(h) \/ Claim(h) \/ Device(h) \/ Space(h) \/ Deliver(h)
      BY <2>1 DEF Next
    <2>3. /\ ~ Start(h) /\ ~ Arrive(h) /\ ~ Die(h) /\ ~ Deliver(h)
          /\ ~ SeedLookup(h) /\ ~ Listen(h) /\ ~ DeviceLookup(h) /\ ~ ListDevices(h)
      BY <1>6 DEF Start, Arrive, Die, Deliver, SeedLookup, Listen, DeviceLookup, ListDevices, txVars
    <2>4. ~ InviteLookup(h) /\ ~ SpaceAccount(h) /\ ~ SpaceDevice(h)
          /\ ~ SpaceReread(h) /\ ~ ListSpaces(h)
      BY <1>6 DEF InviteLookup, SpaceAccount, SpaceDevice, SpaceReread, ListSpaces, Fail, txVars
    <2>5. ~ ClaimRead(h) /\ ~ ClaimAccount(h) /\ ~ ClaimInvite(h)
      BY <1>6 DEF ClaimRead, ClaimAccount, ClaimInvite, Refuse, TxRollback, TxRead, TxWrite
    <2>. QED BY <2>2, <2>3, <2>4, <2>5 DEF Seed, Invite, Claim, Device, Space
  <1>. QED BY <1>1, <1>2, <1>3, <1>4, <1>5, <1>6
-----------------------------------------------------------------------------
(***************************************************************************)
(* The theorems                                                            *)
(***************************************************************************)

\* With SQLite's read locks the invariant holds at every state.
THEOREM SpecIInv ==
  ASSUME ReadLocks
  PROVE  Spec => []IInv
  <1>1. Init => IInv
    BY InitIInv
  <1>2. IInv /\ [Next]_vars => IInv'
    BY NextIInv
  <1>. QED BY <1>1, <1>2, PTL DEF Spec

\* Every variable keeps to its type.
THEOREM SpecTypeOK ==
  ASSUME ReadLocks
  PROVE  Spec => []TypeOK
  <1>1. IInv => TypeOK
    BY DEF IInv
  <1>. QED BY <1>1, SpecIInv, PTL

\* An invite code makes one account at most, and is used up exactly if it did,
\* though the UPDATE of claimInvite compares nothing: the read lock that its
\* SELECT took is what it rests on.
THEOREM SpecOneAccountPerCode ==
  ASSUME ReadLocks
  PROVE  Spec => []OneAccountPerCode
  <1>1. IInv => OneAccountPerCode
    BY DEF IInv, Accounted, OneAccountPerCode
  <1>. QED BY <1>1, SpecIInv, PTL

\* What a row refers to exists, without SQLite's foreign keys: the lookups of
\* registerDevice and createRelaySpace stay true until their INSERT.
THEOREM SpecReferencesHold ==
  ASSUME ReadLocks
  PROVE  Spec => []ReferencesHold
  <1>1. IInv => ReferencesHold
    BY DEF IInv, References, Creator, ReferencesHold
  <1>. QED BY <1>1, SpecIInv, PTL

\* What a client was told is on disk, and stays there.
THEOREM SpecAnswersAreDurable ==
  ASSUME ReadLocks
  PROVE  Spec => []AnswersAreDurable
  <1>1. IInv => AnswersAreDurable
    BY DEF IInv, Knows, Told, AnswersAreDurable
  <1>. QED BY <1>1, SpecIInv, PTL

\* The invite code of the process that serves is in its tables, whatever other
\* starts raced with its own.
THEOREM SpecSeededWhenServing ==
  ASSUME ReadLocks
  PROVE  Spec => []SeededWhenServing
  <1>1. IInv => SeededWhenServing
    BY DEF IInv
  <1>. QED BY <1>1, SpecIInv, PTL

\* listRelaySpaces overlooks no space that existed when it was asked for.
THEOREM SpecListedSpacesAreComplete ==
  ASSUME ReadLocks
  PROVE  Spec => []ListedSpacesAreComplete
  <1>1. IInv => ListedSpacesAreComplete
    BY DEF IInv, Knows, Told, ListedSpacesAreComplete
  <1>. QED BY <1>1, SpecIInv, PTL

\* No row of the directory is ever lost or changed, but for an unclaimed
\* invite that gets its account: the other modules take accounts, devices and
\* spaces as constants on this.
THEOREM SpecDirectoryOnlyGrows ==
  ASSUME ReadLocks
  PROVE  Spec => DirectoryOnlyGrows
  <1> DEFINE A ==
        /\ \A c \in Rows(disk.invites) :
             disk'.invites[c] # disk.invites[c] =>
               disk.invites[c] = Nobody /\ disk'.invites[c] \in AccountIds
        /\ \A a \in Rows(disk.accounts) : disk'.accounts[a] = disk.accounts[a]
        /\ \A d \in Rows(disk.devices) : disk'.devices[d] = disk.devices[d]
        /\ \A s \in Rows(disk.spaces) : disk'.spaces[s] = disk.spaces[s]
  <1>1. IInv /\ IInv' /\ [Next]_vars => A
    <2> SUFFICES ASSUME IInv, IInv', [Next]_vars PROVE A
      OBVIOUS
    <2>1. Grows(disk, disk') /\ disk \in Tables /\ disk' \in Tables
      BY NextGrows DEF IInv, TypeOK
    <2>2. \A c \in Codes : disk'.invites[c] \in AccountIds \union {Nobody, NoRow}
      BY <2>1, TablesOf
    <2>. QED BY <2>1, <2>2, RowsOf DEF Grows
  <1>2. IInv /\ IInv' /\ [Next]_vars => [A]_vars
    BY <1>1
  <1> HIDE DEF A
  <1>3. Spec => [][A]_vars
    BY <1>2, SpecIInv, PTL DEF Spec
  <1>. QED BY <1>3 DEF A, DirectoryOnlyGrows
=============================================================================
