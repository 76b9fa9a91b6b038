--------------------- MODULE RelaySpaceMembership_proofs ---------------------
(***************************************************************************)
(* Proofs about RelaySpaceMembership for every number of handlers, invites,*)
(* members and retries, every set of requests, and both values of          *)
(* ReadLocks.  Three inductive invariants, each relative to the one before:*)
(* Shape (types, stages and locks), Accounting (claims and members), and   *)
(* Evolution (what the writer's cache may differ from the file in).        *)
(***************************************************************************)
EXTENDS RelaySpaceMembership, TLAPS, FiniteSetTheorems

ClaimBody == {"claim.member", "claim.reserve", "claim.insert", "claim.commit"}
UpdateBody == {"update.write", "update.commit"}
Dirty == {"claim.insert", "claim.commit", "update.commit"}

\* What a handler at each step knows of its request.
StageOK(h) ==
  /\ pc[h] # "answered" => attempt[h] < MaxAttempts
  /\ pc[h] \in {"claim", "claim.assemble"} \union ClaimBody => job[h] \in ClaimJobs
  /\ pc[h] \in ClaimBody =>
       /\ seen[h] \in InviteRow
       /\ job[h].account \in Accounts /\ job[h].device \in Devices
       /\ disk.invites[job[h].invite] # NoRow
  /\ pc[h] \in {"update", "update.reread"} \union UpdateBody => job[h] \in UpdateJobs
  /\ pc[h] \in UpdateBody => disk.members[job[h].member] # NoRow
  /\ pc[h] \in {"register.check", "register.insert", "register.reread"} =>
       job[h] \in RegisterJobs
  /\ pc[h] = "register.insert" =>
       /\ job[h].space \in Spaces /\ job[h].account \in Accounts
       /\ job[h].device \in Devices \union {NoDevice}
  /\ pc[h] \in {"issue.check", "issue.insert", "issue.reread"} => job[h] \in IssueJobs
  /\ pc[h] = "issue.insert" => job[h].space \in Spaces

Stages == \A h \in Handlers : StageOK(h)

\* The writer is the handler between its first write and its commit; nobody
\* else sees the cache differ from the file, and it never lacks a row.
Locks ==
  /\ \A h \in Handlers : writer = h <=> pc[h] \in Dirty
  /\ writer = NoHandler => cache = disk
  /\ \A i \in Invites : disk.invites[i] # NoRow => cache.invites[i] # NoRow
  /\ \A m \in MemberIds : disk.members[m] # NoRow => cache.members[m] # NoRow

Shape == TypeOK /\ Stages /\ Locks
-----------------------------------------------------------------------------
USE HandlersAssumption, MembershipAssumption

\* What the tables hold: rows or nothing, under every id.
LEMMA TablesOf ==
  ASSUME NEW t \in Tables
  PROVE  /\ t.invites \in [Invites -> InviteRow \union {NoRow}]
         /\ t.members \in [MemberIds -> MemberRow \union {NoRow}]
         /\ \A i \in Invites : t.invites[i] \in InviteRow \union {NoRow}
         /\ \A m \in MemberIds : t.members[m] \in MemberRow \union {NoRow}
  BY DEF Tables

\* Writing one invite row keeps the tables well formed and the members as they were.
LEMMA InviteUpdated ==
  ASSUME NEW t \in Tables, NEW i \in Invites, NEW row \in InviteRow
  PROVE  LET u == [t EXCEPT !.invites[i] = row] IN
         /\ u \in Tables
         /\ u.members = t.members
         /\ u.invites = [t.invites EXCEPT ![i] = row]
  BY DEF Tables

\* Writing one member row keeps the tables well formed and the invites as they were.
LEMMA MemberUpdated ==
  ASSUME NEW t \in Tables, NEW m \in MemberIds, NEW row \in MemberRow
  PROVE  LET u == [t EXCEPT !.members[m] = row] IN
         /\ u \in Tables
         /\ u.invites = t.invites
         /\ u.members = [t.members EXCEPT ![m] = row]
  BY DEF Tables

\* An account and a device that pass the check exist (the device may be absent).
LEMMA AccountDeviceOk ==
  ASSUME NEW a, NEW d, AccountDeviceError(a, d) = "ok"
  PROVE  a \in Accounts /\ d \in Devices \union {NoDevice}
  BY DEF AccountDeviceError

\* What the check of account and device says is one of the answers.
LEMMA AccountDeviceAnswer ==
  ASSUME NEW a, NEW d
  PROVE  AccountDeviceError(a, d) \in Answers
  BY DEF AccountDeviceError, Answers, AccountErrors

\* The four kinds of request are told apart by their op.
LEMMA JobOps ==
  /\ \A j \in Jobs : j.op \in {"claim", "update", "register", "issue"}
  /\ \A j \in Jobs : j.op = "claim" => j \in ClaimJobs
  /\ \A j \in Jobs : j.op = "update" => j \in UpdateJobs
  /\ \A j \in Jobs : j.op = "register" => j \in RegisterJobs
  /\ \A j \in Jobs : j.op = "issue" => j \in IssueJobs
  BY DEF AllJobs, ClaimJobs, UpdateJobs, RegisterJobs, IssueJobs

\* A rollback changes no committed row and forgets the writer's.
LEMMA RollbackShape ==
  ASSUME Shape, NEW h \in Handlers, TxRollback(h)
  PROVE  /\ disk' = disk /\ disk' \in Tables /\ cache' \in Tables
         /\ readers' \subseteq Handlers
         /\ writer' \in Handlers \union {NoHandler}
         /\ writer' # h
         /\ \A g \in Handlers : g # h => (writer' = g <=> writer = g)
         /\ writer' = NoHandler => cache' = disk'
         /\ \A i \in Invites : disk'.invites[i] # NoRow => cache'.invites[i] # NoRow
         /\ \A m \in MemberIds : disk'.members[m] # NoRow => cache'.members[m] # NoRow
  BY DEF Shape, TypeOK, Locks, TxRollback

\* A further round of the retry loop, or its end, keeps Shape.
LEMMA RetryShape ==
  ASSUME Shape, NEW h \in Handlers, Retry(h),
         pc[h] \in {"claim", "claim.assemble", "update", "update.reread"}
                     \union ClaimBody \union UpdateBody
  PROVE  Shape'
  <1>1. job[h].op \in {"claim", "update"} /\ job[h] \in ClaimJobs \union UpdateJobs
        /\ (job[h].op = "claim" <=> job[h] \in ClaimJobs)
    BY DEF Shape, Stages, StageOK, ClaimJobs, UpdateJobs
  <1>2. attempt[h] + 1 \in 0..MaxAttempts
    <2>1. attempt[h] \in 0..MaxAttempts
      BY DEF Shape, TypeOK
    <2>2. attempt[h] < MaxAttempts
      BY DEF Shape, Stages, StageOK, ClaimBody, UpdateBody
    <2>. QED BY <2>1, <2>2
  <1>3. TypeOK'
    BY RollbackShape, <1>1, <1>2 DEF Shape, TypeOK, Retry, Goto, Labels, Answers
  <1>4. Stages'
    BY RollbackShape, <1>1, <1>2 DEF Shape, TypeOK, Stages, StageOK, Retry, Goto, ClaimBody, UpdateBody
  <1>5. Locks'
    BY RollbackShape, <1>1 DEF Shape, TypeOK, Locks, Retry, Goto, Dirty
  <1>. QED BY <1>3, <1>4, <1>5 DEF Shape

\* A refusal from inside a transaction keeps Shape.
LEMMA RefuseShape ==
  ASSUME Shape, NEW h \in Handlers, NEW a \in Answers, Refuse(h, a)
  PROVE  Shape'
  <1>1. TypeOK'
    BY RollbackShape DEF Shape, TypeOK, Refuse, Reply, Goto, Labels
  <1>2. Stages'
    BY RollbackShape DEF Shape, TypeOK, Stages, StageOK, Refuse, Reply, Goto, ClaimBody, UpdateBody
  <1>3. Locks'
    BY RollbackShape DEF Shape, TypeOK, Locks, Refuse, Reply, Goto, Dirty
  <1>. QED BY <1>1, <1>2, <1>3 DEF Shape

\* Giving up with "db_error" keeps Shape.
LEMMA GiveUpShape ==
  ASSUME Shape, NEW h \in Handlers, GiveUp(h) PROVE Shape'
  BY RefuseShape DEF GiveUp, Answers

\* An answer outside any transaction keeps Shape.
LEMMA ReplyShape ==
  ASSUME Shape, NEW h \in Handlers, NEW a \in Answers, pc[h] \notin Dirty,
         UNCHANGED txVars, Reply(h, a)
  PROVE  Shape'
  <1>1. TypeOK'
    BY DEF Shape, TypeOK, Reply, Goto, Labels, txVars
  <1>2. Stages'
    BY DEF Shape, TypeOK, Stages, StageOK, Reply, Goto, ClaimBody, UpdateBody, txVars
  <1>3. Locks'
    BY DEF Shape, TypeOK, Locks, Reply, Goto, Dirty, txVars
  <1>. QED BY <1>1, <1>2, <1>3 DEF Shape

\* Reading the invite keeps Shape: the claim goes on with an existing row.
LEMMA ClaimReadInviteShape ==
  ASSUME Shape, NEW h \in Handlers, ClaimReadInvite(h) PROVE Shape'
  <1> DEFINE j == job[h]
             inv == disk.invites[j.invite]
             bad == AccountDeviceError(j.account, j.device)
  <1>0. pc[h] = "claim" /\ j \in ClaimJobs /\ j.invite \in Invites /\ inv \in InviteRow \union {NoRow}
    BY TablesOf DEF ClaimReadInvite, Shape, TypeOK, Stages, StageOK, ClaimJobs
  <1>1. CASE Retry(h)
    BY <1>0, <1>1, RetryShape
  <1>2. CASE Refuse(h, bad)
    <2>1. bad \in Answers
      BY AccountDeviceAnswer
    <2>. QED BY <1>2, <2>1, RefuseShape
  <1>3. CASE Refuse(h, "invite_not_found")
    BY <1>3, RefuseShape DEF Answers, InviteErrors
  <1>4. CASE /\ bad = "ok" /\ inv # NoRow
             /\ TxRead(h)
             /\ seen' = [seen EXCEPT ![h] = inv]
             /\ Goto(h, "claim.member")
             /\ UNCHANGED <<job, attempt, answer, commits>>
    <2>1. j.account \in Accounts /\ j.device \in Devices
      BY <1>0, <1>4, AccountDeviceOk DEF ClaimJobs
    <2>2. TypeOK'
      BY <1>0, <1>4 DEF Shape, TypeOK, TxRead, Goto, Labels
    <2>3. Stages'
      BY <1>0, <1>4, <2>1 DEF Shape, TypeOK, Stages, StageOK, TxRead, Goto, ClaimBody, UpdateBody
    <2>4. Locks'
      BY <1>0, <1>4 DEF Shape, TypeOK, Locks, TxRead, Goto, Dirty
    <2>. QED BY <2>2, <2>3, <2>4 DEF Shape
  <1>. QED BY <1>1, <1>2, <1>3, <1>4, GiveUpShape DEF ClaimReadInvite

\* Looking for the device's member row keeps Shape.
LEMMA ClaimReadMemberShape ==
  ASSUME Shape, NEW h \in Handlers, ClaimReadMember(h) PROVE Shape'
  <1> DEFINE j == job[h]
             found == InSpace(disk.members, seen[h].space, j.device)
             refusal == ClaimError(seen[h], j.at)
  <1>0. pc[h] = "claim.member"
    BY DEF ClaimReadMember
  <1>1. CASE Retry(h)
    BY <1>0, <1>1, RetryShape DEF ClaimBody
  <1>2. CASE \E m \in found : Refuse(h, RejoinError(disk.members[m], j.account))
    <2>1. \A row, a : RejoinError(row, a) \in Answers
      BY DEF RejoinError, Answers, MemberErrors
    <2>. QED BY <1>2, <2>1, RefuseShape
  <1>3. CASE /\ TxRollback(h)
             /\ answer' = [answer EXCEPT ![h] = "already_active"]
             /\ seen' = [seen EXCEPT ![h] = NoRow]
             /\ Goto(h, "claim.assemble")
             /\ UNCHANGED <<job, attempt, commits>>
    <2>1. TypeOK'
      BY <1>3, RollbackShape DEF Shape, TypeOK, Goto, Labels, Answers
    <2>2. Stages'
      BY <1>0, <1>3, RollbackShape DEF Shape, TypeOK, Stages, StageOK, Goto, ClaimBody, UpdateBody
    <2>3. Locks'
      BY <1>3, RollbackShape DEF Shape, TypeOK, Locks, Goto, Dirty
    <2>. QED BY <2>1, <2>2, <2>3 DEF Shape
  <1>4. CASE Refuse(h, refusal)
    <2>1. refusal \in Answers
      BY DEF ClaimError, Answers, InviteErrors
    <2>. QED BY <1>4, <2>1, RefuseShape
  <1>5. CASE /\ TxRead(h)
             /\ Goto(h, "claim.reserve")
             /\ UNCHANGED <<job, attempt, seen, answer, commits>>
    <2>1. TypeOK'
      BY <1>5 DEF Shape, TypeOK, TxRead, Goto, Labels
    <2>2. Stages'
      BY <1>0, <1>5 DEF Shape, TypeOK, Stages, StageOK, TxRead, Goto, ClaimBody, UpdateBody
    <2>3. Locks'
      BY <1>0, <1>5 DEF Shape, TypeOK, Locks, TxRead, Goto, Dirty
    <2>. QED BY <2>1, <2>2, <2>3 DEF Shape
  <1>. QED BY <1>1, <1>2, <1>3, <1>4, <1>5, GiveUpShape DEF ClaimReadMember

\* Counting a claim gives a well-formed invite row.
LEMMA ReservedRow ==
  ASSUME NEW inv \in InviteRow
  PROVE  /\ Reserved(inv) \in InviteRow
         /\ Reserved(inv).max = inv.max
         /\ Reserved(inv).count = inv.count + 1
  <1> DEFINE st == IF inv.max # NoLimit /\ inv.count + 1 >= inv.max THEN "claimed" ELSE inv.state
  <1>1. st \in InviteStates /\ inv.count + 1 \in Nat
    BY DEF InviteRow, InviteStates
  <1>2. Reserved(inv) = [inv EXCEPT !.count = inv.count + 1, !.state = st]
    BY DEF Reserved
  <1> HIDE DEF st
  <1>. QED BY <1>1, <1>2 DEF InviteRow

\* A write by the handler that may write: everyone else's step is not dirty.
LEMMA WriteShape ==
  ASSUME Shape, NEW h \in Handlers, NEW content \in Tables, TxWrite(h, content),
         \A i \in Invites : cache.invites[i] # NoRow => content.invites[i] # NoRow,
         \A m \in MemberIds : cache.members[m] # NoRow => content.members[m] # NoRow,
         NEW label \in {"claim.insert", "claim.commit", "update.commit"}, Goto(h, label),
         label \in {"claim.insert", "claim.commit"} <=> pc[h] \in ClaimBody,
         label = "update.commit" <=> pc[h] \in UpdateBody,
         pc[h] \in ClaimBody \union UpdateBody,
         UNCHANGED <<job, attempt, seen, answer, commits>>
  PROVE  Shape'
  <1>1. TypeOK'
    BY DEF Shape, TypeOK, TxWrite, Goto, Labels
  <1>2. Stages'
    BY DEF Shape, TypeOK, Stages, StageOK, TxWrite, Goto, ClaimBody, UpdateBody
  <1>3. Locks'
    BY DEF Shape, TypeOK, Locks, TxWrite, CanWrite, Goto, Dirty
  <1>. QED BY <1>1, <1>2, <1>3 DEF Shape

\* The reservation keeps Shape: its handler is now the only writer.
LEMMA ClaimReserveShape ==
  ASSUME Shape, NEW h \in Handlers, ClaimReserve(h) PROVE Shape'
  <1> DEFINE i == job[h].invite
             inv == cache.invites[i]
             next == [cache EXCEPT !.invites[i] = Reserved(inv)]
  <1>0. pc[h] = "claim.reserve" /\ i \in Invites /\ inv \in InviteRow /\ cache \in Tables
    BY TablesOf DEF ClaimReserve, Shape, TypeOK, Stages, StageOK, Locks, ClaimBody, ClaimJobs
  <1>1. CASE Retry(h)
    BY <1>0, <1>1, RetryShape DEF ClaimBody
  <1>2. CASE /\ TxWrite(h, next)
             /\ Goto(h, "claim.insert")
             /\ UNCHANGED <<job, attempt, seen, answer, commits>>
    <2>1. Reserved(inv) \in InviteRow
      BY <1>0, ReservedRow
    <2>2. next \in Tables /\ next.members = cache.members
          /\ next.invites = [cache.invites EXCEPT ![i] = Reserved(inv)]
      BY <1>0, <2>1, InviteUpdated
    <2>3. \A k \in Invites : cache.invites[k] # NoRow => next.invites[k] # NoRow
      BY <1>0, <2>1, <2>2, TablesOf
    <2> HIDE DEF next
    <2>. QED BY <1>0, <1>2, <2>2, <2>3, WriteShape DEF ClaimBody, UpdateBody
  <1>. QED BY <1>1, <1>2, GiveUpShape DEF ClaimReserve

\* The INSERT of the claimed member keeps Shape.
LEMMA ClaimInsertShape ==
  ASSUME Shape, NEW h \in Handlers, ClaimInsert(h) PROVE Shape'
  <1> DEFINE j == job[h]
             s == seen[h].space
             m == CHOOSE id \in FreeIds(cache.members) : TRUE
             row == [space |-> s, account |-> j.account, device |-> j.device,
                     state |-> "active", disabled_at |-> Never, via |-> j.invite]
             next == [cache EXCEPT !.members[m] = row]
  <1>0. pc[h] = "claim.insert" /\ cache \in Tables
    BY DEF ClaimInsert, Shape, TypeOK
  <1>1. CASE Retry(h)
    BY <1>0, <1>1, RetryShape DEF ClaimBody
  <1>2. CASE /\ FreeIds(cache.members) # {}
             /\ TxWrite(h, next)
             /\ Goto(h, "claim.commit")
             /\ UNCHANGED <<job, attempt, seen, answer, commits>>
    <2>1. row \in MemberRow
      BY <1>0 DEF Shape, Stages, StageOK, ClaimBody, ClaimJobs, MemberRow, MemberStates, InviteRow
    <2>2. m \in MemberIds
      BY <1>2 DEF FreeIds
    <2> HIDE DEF m, row
    <2>3. next \in Tables /\ next.invites = cache.invites
          /\ next.members = [cache.members EXCEPT ![m] = row]
      BY <1>0, <2>1, <2>2, MemberUpdated
    <2>4. \A k \in MemberIds : cache.members[k] # NoRow => next.members[k] # NoRow
      BY <1>0, <2>1, <2>3, TablesOf
    <2> HIDE DEF next
    <2>. QED BY <1>0, <1>2, <2>3, <2>4, WriteShape DEF ClaimBody, UpdateBody
  <1>. QED BY <1>1, <1>2, GiveUpShape DEF ClaimInsert

\* A commit keeps every row that any other handler has read.
LEMMA CommitShape ==
  ASSUME Shape, NEW h \in Handlers, TxCommit(h),
         NEW label \in {"claim.assemble", "update.reread"}, Goto(h, label),
         label = "claim.assemble" <=> pc[h] \in ClaimBody,
         label = "update.reread" <=> pc[h] \in UpdateBody,
         commits' = [commits EXCEPT ![h] = @ + 1],
         answer' = [answer EXCEPT ![h] = "created"] \/ answer' = answer,
         seen' = [seen EXCEPT ![h] = NoRow],
         UNCHANGED <<job, attempt>>
  PROVE  Shape'
  <1>1. TypeOK'
    BY DEF Shape, TypeOK, TxCommit, Goto, Labels, Answers
  <1>2. \A i \in Invites : disk.invites[i] # NoRow => disk'.invites[i] # NoRow
    BY DEF Shape, Locks, TxCommit
  <1>3. \A m \in MemberIds : disk.members[m] # NoRow => disk'.members[m] # NoRow
    BY DEF Shape, Locks, TxCommit
  <1>4. Stages'
    <2> SUFFICES ASSUME NEW g \in Handlers PROVE StageOK(g)'
      BY DEF Stages
    <2>1. CASE g = h
      BY <2>1 DEF Shape, TypeOK, Stages, StageOK, Goto, ClaimBody, UpdateBody
    <2>2. CASE g # h
      <3>1. pc'[g] = pc[g] /\ job'[g] = job[g] /\ attempt'[g] = attempt[g] /\ seen'[g] = seen[g]
        BY <2>2 DEF Shape, TypeOK, Goto
      <3>2. StageOK(g)
        BY DEF Shape, Stages
      <3>3. pc[g] \in ClaimBody => job[g].invite \in Invites
        BY <3>2 DEF StageOK, ClaimJobs
      <3>4. pc[g] \in UpdateBody => job[g].member \in MemberIds
        BY <3>2 DEF StageOK, UpdateJobs
      <3>. QED BY <1>2, <1>3, <3>1, <3>2, <3>3, <3>4 DEF StageOK
    <2>. QED BY <2>1, <2>2
  <1>5. Locks'
    BY DEF Shape, TypeOK, Locks, TxCommit, Goto, Dirty
  <1>. QED BY <1>1, <1>4, <1>5 DEF Shape

\* The commit of a claim keeps Shape.
LEMMA ClaimCommitShape ==
  ASSUME Shape, NEW h \in Handlers, ClaimCommit(h) PROVE Shape'
  <1>0. pc[h] = "claim.commit"
    BY DEF ClaimCommit
  <1>1. CASE Retry(h)
    BY <1>0, <1>1, RetryShape DEF ClaimBody
  <1>2. CASE /\ TxCommit(h)
             /\ commits' = [commits EXCEPT ![h] = @ + 1]
             /\ answer' = [answer EXCEPT ![h] = "created"]
             /\ seen' = [seen EXCEPT ![h] = NoRow]
             /\ Goto(h, "claim.assemble")
             /\ UNCHANGED <<job, attempt>>
    BY <1>0, <1>2, CommitShape DEF ClaimBody, UpdateBody
  <1>. QED BY <1>1, <1>2, GiveUpShape DEF ClaimCommit

\* Assembling the result of a claim keeps Shape.
LEMMA ClaimAssembleShape ==
  ASSUME Shape, NEW h \in Handlers, ClaimAssemble(h) PROVE Shape'
  <1>0. pc[h] = "claim.assemble"
    BY DEF ClaimAssemble
  <1>1. CASE Retry(h)
    BY <1>0, <1>1, RetryShape
  <1>2. CASE UNCHANGED txVars /\ Reply(h, answer[h])
    BY <1>0, <1>2, ReplyShape DEF Shape, TypeOK, Dirty
  <1>. QED BY <1>1, <1>2, GiveUpShape DEF ClaimAssemble

\* Reading the member of a transition keeps Shape.
LEMMA UpdateReadShape ==
  ASSUME Shape, NEW h \in Handlers, UpdateRead(h) PROVE Shape'
  <1> DEFINE j == job[h]
             row == disk.members[j.member]
             bad == IF row = NoRow THEN "member_not_found"
                    ELSE IF row.space # j.space THEN "member_wrong_space"
                    ELSE IF ~ConsistentRow(row) THEN "member_state_inconsistent"
                    ELSE IF row.state = j.target THEN "already_in_state"
                    ELSE IF row.state = "left" THEN "member_rejoin_required"
                    ELSE IF ~AllowedTransition(row.state, j.target)
                         THEN "target_state_unsupported"
                    ELSE "ok"
  <1>0. pc[h] = "update" /\ j \in UpdateJobs /\ row \in MemberRow \union {NoRow}
    BY TablesOf DEF UpdateRead, Shape, TypeOK, Stages, StageOK, UpdateJobs
  <1>1. CASE Retry(h)
    BY <1>0, <1>1, RetryShape
  <1>2. CASE Refuse(h, bad)
    <2>1. bad \in Answers
      BY DEF Answers, MemberErrors
    <2>. QED BY <1>2, <2>1, RefuseShape
  <1>3. CASE /\ bad = "ok"
             /\ TxRead(h)
             /\ seen' = [seen EXCEPT ![h] = row]
             /\ Goto(h, "update.write")
             /\ UNCHANGED <<job, attempt, answer, commits>>
    <2>0. row # NoRow
      BY <1>3
    <2> HIDE DEF bad
    <2>1. TypeOK'
      BY <1>0, <1>3 DEF Shape, TypeOK, TxRead, Goto, Labels
    <2>2. Stages'
      BY <1>0, <1>3, <2>0 DEF Shape, TypeOK, Stages, StageOK, TxRead, Goto, ClaimBody, UpdateBody
    <2>3. Locks'
      BY <1>0, <1>3 DEF Shape, TypeOK, Locks, TxRead, Goto, Dirty
    <2>. QED BY <2>1, <2>2, <2>3 DEF Shape
  <1>. QED BY <1>1, <1>2, <1>3, GiveUpShape DEF UpdateRead

\* A transition gives a well-formed row that came in by the same invite.
LEMMA WithStateRow ==
  ASSUME NEW row \in MemberRow, NEW target \in MemberStates, NEW at \in Times
  PROVE  /\ WithState(row, target, at) \in MemberRow
         /\ WithState(row, target, at).via = row.via
  BY DEF WithState, MemberRow

\* The UPDATE of a transition keeps Shape: its handler is now the only writer.
LEMMA UpdateWriteShape ==
  ASSUME Shape, NEW h \in Handlers, UpdateWrite(h) PROVE Shape'
  <1> DEFINE j == job[h]
             row == cache.members[j.member]
             new == WithState(row, j.target, j.at)
             next == [cache EXCEPT !.members[j.member] = new]
  <1>0. pc[h] = "update.write" /\ j \in UpdateJobs /\ row \in MemberRow /\ cache \in Tables
    BY TablesOf DEF UpdateWrite, Shape, TypeOK, Stages, StageOK, Locks, UpdateBody, UpdateJobs
  <1>1. CASE Retry(h)
    BY <1>0, <1>1, RetryShape DEF UpdateBody
  <1>2. CASE /\ TxWrite(h, next)
             /\ Goto(h, "update.commit")
             /\ UNCHANGED <<job, attempt, seen, answer, commits>>
    <2>1. new \in MemberRow /\ j.member \in MemberIds
      BY <1>0, WithStateRow DEF UpdateJobs
    <2> HIDE DEF new
    <2>2. next \in Tables /\ next.invites = cache.invites
          /\ next.members = [cache.members EXCEPT ![j.member] = new]
      BY <1>0, <2>1, MemberUpdated
    <2>3. \A k \in MemberIds : cache.members[k] # NoRow => next.members[k] # NoRow
      BY <1>0, <2>1, <2>2, TablesOf
    <2> HIDE DEF next
    <2>. QED BY <1>0, <1>2, <2>2, <2>3, WriteShape DEF ClaimBody, UpdateBody
  <1>. QED BY <1>1, <1>2, GiveUpShape DEF UpdateWrite

\* The commit of a transition keeps Shape.
LEMMA UpdateCommitShape ==
  ASSUME Shape, NEW h \in Handlers, UpdateCommit(h) PROVE Shape'
  <1>0. pc[h] = "update.commit"
    BY DEF UpdateCommit
  <1>1. CASE Retry(h)
    BY <1>0, <1>1, RetryShape DEF UpdateBody
  <1>2. CASE /\ TxCommit(h)
             /\ commits' = [commits EXCEPT ![h] = @ + 1]
             /\ seen' = [seen EXCEPT ![h] = NoRow]
             /\ Goto(h, "update.reread")
             /\ UNCHANGED <<job, attempt, answer>>
    BY <1>0, <1>2, CommitShape DEF ClaimBody, UpdateBody
  <1>. QED BY <1>1, <1>2, GiveUpShape DEF UpdateCommit

\* Reading the member again after the transition keeps Shape.
LEMMA UpdateRereadShape ==
  ASSUME Shape, NEW h \in Handlers, UpdateReread(h) PROVE Shape'
  <1>0. pc[h] = "update.reread"
    BY DEF UpdateReread
  <1>1. CASE Retry(h)
    BY <1>0, <1>1, RetryShape
  <1>2. CASE UNCHANGED txVars /\ Reply(h, "transitioned")
    BY <1>0, <1>2, ReplyShape DEF Dirty, Answers
  <1>. QED BY <1>1, <1>2, GiveUpShape DEF UpdateReread

\* A step of a handler outside any transaction that leaves the tables alone.
LEMMA PlainStepShape ==
  ASSUME Shape, NEW h \in Handlers, UNCHANGED txVars,
         NEW label \in {"register.insert", "issue.insert"}, Goto(h, label),
         pc[h] = "register.check" <=> label = "register.insert",
         pc[h] = "issue.check" <=> label = "issue.insert",
         label = "register.insert" =>
           job[h].space \in Spaces /\ job[h].account \in Accounts
           /\ job[h].device \in Devices \union {NoDevice},
         label = "issue.insert" => job[h].space \in Spaces,
         UNCHANGED <<job, attempt, seen, answer, commits>>
  PROVE  Shape'
  <1>1. TypeOK'
    BY DEF Shape, TypeOK, Goto, Labels, txVars
  <1>2. Stages'
    BY DEF Shape, TypeOK, Stages, StageOK, Goto, ClaimBody, UpdateBody, txVars
  <1>3. Locks'
    BY DEF Shape, TypeOK, Locks, Goto, Dirty, txVars
  <1>. QED BY <1>1, <1>2, <1>3 DEF Shape

\* The checks of a registration keep Shape.
LEMMA RegisterCheckShape ==
  ASSUME Shape, NEW h \in Handlers, RegisterCheck(h) PROVE Shape'
  <1> DEFINE j == job[h]
             bad == IF j.space \notin Spaces THEN "relay_space_not_found"
                    ELSE AccountDeviceError(j.account, j.device)
  <1>0. pc[h] = "register.check" /\ pc[h] \notin Dirty /\ UNCHANGED txVars
    BY DEF RegisterCheck, Dirty
  <1>1. bad \in Answers /\ "db_error" \in Answers
    BY AccountDeviceAnswer DEF Answers
  <1>2. CASE Reply(h, "db_error") \/ Reply(h, bad)
    <2> HIDE DEF bad
    <2>. QED BY <1>0, <1>1, <1>2, ReplyShape
  <1>3. CASE bad = "ok" /\ Goto(h, "register.insert")
             /\ UNCHANGED <<job, attempt, seen, answer, commits>>
    <2>1. j.space \in Spaces /\ j.account \in Accounts /\ j.device \in Devices \union {NoDevice}
      BY <1>3, AccountDeviceOk
    <2> HIDE DEF bad
    <2>. QED BY <1>0, <1>3, <2>1, PlainStepShape
  <1>. QED BY <1>2, <1>3 DEF RegisterCheck

\* The checks of a new invite keep Shape.
LEMMA IssueCheckShape ==
  ASSUME Shape, NEW h \in Handlers, IssueCheck(h) PROVE Shape'
  <1> DEFINE j == job[h]
             row == disk.members[j.creator]
             bad == IF j.space \notin Spaces THEN "relay_space_not_found"
                    ELSE IF j.creator = Nobody THEN "ok"
                    ELSE IF row = NoRow THEN "creator_not_found"
                    ELSE IF row.space # j.space THEN "invite_creator_wrong_space"
                    ELSE IF row.state # "active" \/ row.disabled_at # Never
                         THEN "invite_creator_not_active"
                    ELSE "ok"
  <1>0. pc[h] = "issue.check" /\ pc[h] \notin Dirty /\ UNCHANGED txVars
    BY DEF IssueCheck, Dirty
  <1>1. bad \in Answers /\ "db_error" \in Answers
    BY DEF Answers, IssueErrors
  <1>2. CASE Reply(h, "db_error") \/ Reply(h, bad)
    <2> HIDE DEF bad
    <2>. QED BY <1>0, <1>1, <1>2, ReplyShape
  <1>3. CASE bad = "ok" /\ Goto(h, "issue.insert")
             /\ UNCHANGED <<job, attempt, seen, answer, commits>>
    <2>1. j.space \in Spaces
      BY <1>3
    <2> HIDE DEF bad
    <2>. QED BY <1>0, <1>3, <2>1, PlainStepShape
  <1>. QED BY <1>2, <1>3 DEF IssueCheck

\* A lone INSERT happens while nobody writes.
LEMMA AutoWriteShape ==
  ASSUME Shape, NEW h \in Handlers, NEW content \in Tables, AutoWrite(h, content),
         \A i \in Invites : disk.invites[i] # NoRow => content.invites[i] # NoRow,
         \A m \in MemberIds : disk.members[m] # NoRow => content.members[m] # NoRow,
         NEW label \in {"register.reread", "issue.reread"}, Goto(h, label),
         label = "register.reread" <=> pc[h] = "register.insert",
         label = "issue.reread" <=> pc[h] = "issue.insert",
         commits' = [commits EXCEPT ![h] = @ + 1],
         UNCHANGED <<job, attempt, seen, answer>>
  PROVE  Shape'
  <1>1. TypeOK'
    BY DEF Shape, TypeOK, AutoWrite, Goto, Labels
  <1>2. Stages'
    <2> SUFFICES ASSUME NEW g \in Handlers PROVE StageOK(g)'
      BY DEF Stages
    <2>1. CASE g = h
      BY <2>1 DEF Shape, TypeOK, Stages, StageOK, Goto, ClaimBody, UpdateBody
    <2>2. CASE g # h
      <3>1. pc'[g] = pc[g] /\ job'[g] = job[g] /\ attempt'[g] = attempt[g] /\ seen'[g] = seen[g]
        BY <2>2 DEF Shape, TypeOK, Goto
      <3>2. StageOK(g)
        BY DEF Shape, Stages
      <3>3. pc[g] \in ClaimBody => job[g].invite \in Invites
        BY <3>2 DEF StageOK, ClaimJobs
      <3>4. pc[g] \in UpdateBody => job[g].member \in MemberIds
        BY <3>2 DEF StageOK, UpdateJobs
      <3>. QED BY <3>1, <3>2, <3>3, <3>4 DEF StageOK, AutoWrite
    <2>. QED BY <2>1, <2>2
  <1>3. Locks'
    BY DEF Shape, TypeOK, Locks, AutoWrite, CanAutoWrite, Goto, Dirty
  <1>. QED BY <1>1, <1>2, <1>3 DEF Shape

\* The lone INSERT of a member keeps Shape.
LEMMA RegisterInsertShape ==
  ASSUME Shape, NEW h \in Handlers, RegisterInsert(h) PROVE Shape'
  <1> DEFINE j == job[h]
             m == CHOOSE id \in FreeIds(disk.members) : TRUE
             row == [space |-> j.space, account |-> j.account, device |-> j.device,
                     state |-> j.state, disabled_at |-> Never, via |-> NoRow]
             next == [disk EXCEPT !.members[m] = row]
  <1>0. pc[h] = "register.insert" /\ disk \in Tables
    BY DEF RegisterInsert, Shape, TypeOK
  <1>1. CASE DbError(h)
    BY <1>0, <1>1, ReplyShape DEF DbError, Dirty, Answers
  <1>2. CASE /\ FreeIds(disk.members) # {}
             /\ AutoWrite(h, next)
             /\ commits' = [commits EXCEPT ![h] = @ + 1]
             /\ Goto(h, "register.reread")
             /\ UNCHANGED <<job, attempt, seen, answer>>
    <2>1. row \in MemberRow
      BY <1>0 DEF Shape, Stages, StageOK, RegisterJobs, MemberRow
    <2>2. m \in MemberIds
      BY <1>2 DEF FreeIds
    <2> HIDE DEF m, row
    <2>3. next \in Tables /\ next.invites = disk.invites
          /\ next.members = [disk.members EXCEPT ![m] = row]
      BY <1>0, <2>1, <2>2, MemberUpdated
    <2>4. \A k \in MemberIds : disk.members[k] # NoRow => next.members[k] # NoRow
      BY <1>0, <2>1, <2>3, TablesOf
    <2> HIDE DEF next
    <2>. QED BY <1>0, <1>2, <2>3, <2>4, AutoWriteShape
  <1>. QED BY <1>1, <1>2 DEF RegisterInsert

\* The lone INSERT of an invite keeps Shape.
LEMMA IssueInsertShape ==
  ASSUME Shape, NEW h \in Handlers, IssueInsert(h) PROVE Shape'
  <1> DEFINE j == job[h]
             row == [space |-> j.space, max |-> j.max, count |-> 0,
                     state |-> j.state, expires |-> j.expires]
             refused == disk.invites[j.invite] # NoRow \/ j.max = 0
             next == [disk EXCEPT !.invites[j.invite] = row]
  <1>0. pc[h] = "issue.insert" /\ j \in IssueJobs /\ j.invite \in Invites /\ disk \in Tables
    BY DEF IssueInsert, Shape, TypeOK, Stages, StageOK, IssueJobs
  <1>1. CASE DbError(h)
    BY <1>0, <1>1, ReplyShape DEF DbError, Dirty, Answers
  <1>2. CASE /\ ~refused
             /\ AutoWrite(h, next)
             /\ commits' = [commits EXCEPT ![h] = @ + 1]
             /\ Goto(h, "issue.reread")
             /\ UNCHANGED <<job, attempt, seen, answer>>
    <2>1. row \in InviteRow
      BY <1>0, <1>2 DEF Shape, Stages, StageOK, IssueJobs, InviteRow
    <2> HIDE DEF row, refused
    <2>2. next \in Tables /\ next.members = disk.members
          /\ next.invites = [disk.invites EXCEPT ![j.invite] = row]
      BY <1>0, <2>1, InviteUpdated
    <2>3. \A k \in Invites : disk.invites[k] # NoRow => next.invites[k] # NoRow
      BY <1>0, <2>1, <2>2, TablesOf
    <2> HIDE DEF next
    <2>. QED BY <1>0, <1>2, <2>2, <2>3, AutoWriteShape
  <1>. QED BY <1>1, <1>2 DEF IssueInsert

\* Reading a new row back keeps Shape.
LEMMA RereadShape ==
  ASSUME Shape, NEW h \in Handlers, RegisterReread(h) \/ IssueReread(h) PROVE Shape'
  <1>1. pc[h] \notin Dirty /\ UNCHANGED txVars
    BY DEF RegisterReread, IssueReread, Dirty
  <1>2. \E a \in Answers : Reply(h, a)
    BY DEF RegisterReread, IssueReread, Answers
  <1>. QED BY <1>1, <1>2, ReplyShape

\* The arrival of a request keeps Shape.
LEMMA ArriveShape ==
  ASSUME Shape, NEW h \in Handlers, Arrive(h) PROVE Shape'
  <1>1. PICK j \in Jobs : job' = [job EXCEPT ![h] = j] /\ Goto(h, FirstLabel[j.op])
    BY DEF Arrive
  <1>2. pc[h] = "idle" /\ UNCHANGED txVars /\ UNCHANGED <<attempt, seen, answer, commits>>
    BY DEF Arrive
  <1> DEFINE label == FirstLabel[j.op]
  <1>3. /\ label \in {"claim", "update", "register.check", "issue.check"}
        /\ label = "claim" => j \in ClaimJobs
        /\ label = "update" => j \in UpdateJobs
        /\ label = "register.check" => j \in RegisterJobs
        /\ label = "issue.check" => j \in IssueJobs
    BY JobOps DEF FirstLabel
  <1> HIDE DEF label
  <1>4. TypeOK'
    BY <1>1, <1>2, <1>3 DEF Shape, TypeOK, Goto, Labels, txVars, label
  <1>5. Stages'
    BY <1>1, <1>2, <1>3 DEF Shape, TypeOK, Stages, StageOK, Goto, ClaimBody, UpdateBody, txVars, label
  <1>6. Locks'
    BY <1>1, <1>2, <1>3 DEF Shape, TypeOK, Locks, Goto, Dirty, txVars, label
  <1>. QED BY <1>4, <1>5, <1>6 DEF Shape

\* The delivery of an answer keeps Shape.
LEMMA DeliverShape ==
  ASSUME Shape, NEW h \in Handlers, Deliver(h) PROVE Shape'
  <1>1. TypeOK'
    BY DEF Shape, TypeOK, Deliver, Goto, Labels, txVars, Answers
  <1>2. Stages'
    BY DEF Shape, TypeOK, Stages, StageOK, Deliver, Goto, ClaimBody, UpdateBody, txVars
  <1>3. Locks'
    BY DEF Shape, TypeOK, Locks, Deliver, Goto, Dirty, txVars
  <1>. QED BY <1>1, <1>2, <1>3 DEF Shape

\* A crash keeps Shape: no handler is left that writes or has read.
LEMMA CrashShape ==
  ASSUME Shape, Crash PROVE Shape'
  <1>1. TypeOK'
    BY DEF Shape, TypeOK, Crash, TxCrash, Labels, Answers
  <1>2. Stages'
    BY DEF Shape, TypeOK, Stages, StageOK, Crash, TxCrash, ClaimBody, UpdateBody
  <1>3. Locks'
    BY DEF Shape, TypeOK, Locks, Crash, TxCrash, Dirty
  <1>. QED BY <1>1, <1>2, <1>3 DEF Shape

\* The empty store has Shape.
LEMMA InitShape == Init => Shape
  <1> SUFFICES ASSUME Init PROVE Shape
    OBVIOUS
  <1>1. TypeOK
    BY DEF Init, TypeOK, Labels, Answers, Tables
  <1>2. Stages
    BY DEF Init, Stages, StageOK, ClaimBody, UpdateBody
  <1>3. Locks
    BY DEF Init, Locks, Dirty
  <1>. QED BY <1>1, <1>2, <1>3 DEF Shape

\* Shape is about the state alone.
LEMMA StutterShape == Shape /\ UNCHANGED vars => Shape'
  <1> SUFFICES ASSUME Shape, UNCHANGED vars PROVE Shape'
    OBVIOUS
  <1>. QED BY DEF Shape, TypeOK, Stages, StageOK, Locks, vars

\* Every step of the store keeps Shape.
LEMMA NextShape == Shape /\ [Next]_vars => Shape'
  <1> SUFFICES ASSUME Shape, [Next]_vars PROVE Shape'
    OBVIOUS
  <1>1. CASE UNCHANGED vars
    BY <1>1, StutterShape
  <1>2. CASE Crash
    BY <1>2, CrashShape
  <1>3. ASSUME NEW h \in Handlers, Arrive(h) PROVE Shape'
    BY <1>3, ArriveShape
  <1>4. ASSUME NEW h \in Handlers, Deliver(h) PROVE Shape'
    BY <1>4, DeliverShape
  <1>5. ASSUME NEW h \in Handlers, ClaimStep(h) PROVE Shape'
    BY <1>5, ClaimReadInviteShape, ClaimReadMemberShape, ClaimReserveShape, ClaimInsertShape,
       ClaimCommitShape, ClaimAssembleShape DEF ClaimStep
  <1>6. ASSUME NEW h \in Handlers, UpdateStep(h) PROVE Shape'
    BY <1>6, UpdateReadShape, UpdateWriteShape, UpdateCommitShape, UpdateRereadShape
    DEF UpdateStep
  <1>7. ASSUME NEW h \in Handlers, RegisterStep(h) \/ IssueStep(h) PROVE Shape'
    BY <1>7, RegisterCheckShape, RegisterInsertShape, IssueCheckShape, IssueInsertShape,
       RereadShape DEF RegisterStep, IssueStep
  <1>. QED BY <1>1, <1>2, <1>3, <1>4, <1>5, <1>6, <1>7 DEF Next, Serve

\* The inductive invariant: types, what each handler knows at each of its
\* steps, and who may have uncommitted rows.
THEOREM SpecShape == Spec => []Shape
  BY InitShape, NextShape, PTL DEF Spec

\* Every column and every local of a handler always has a value of its type,
\* and no retry loop goes around more often than MaxAttempts.
THEOREM SpecTypeOK == Spec => []TypeOK
  <1>1. Shape => TypeOK
    BY DEF Shape
  <1>. QED BY <1>1, SpecShape, PTL

-----------------------------------------------------------------------------
\* Accounting: what the cache adds to the committed tables at each step of the
\* writer.  pending is the invite whose claim is counted but not inserted yet.

Accounted(t, pending) ==
  \A i \in Invites :
    Cardinality(AdmittedBy(t.members, i)) + (IF i = pending THEN 1 ELSE 0) =
      IF t.invites[i] # NoRow THEN t.invites[i].count ELSE 0

SoundRow(inv) ==
  /\ inv.max # NoLimit => inv.count <= inv.max
  /\ inv.state = "active" => inv.max = NoLimit \/ inv.count < inv.max
  /\ inv.count > 0 => \/ inv.state = "active"
                      \/ inv.state = "claimed" /\ inv.count = inv.max

Sound(t) == \A i \in Invites : t.invites[i] # NoRow => SoundRow(t.invites[i])

Accounting ==
  /\ Accounted(disk, NoRow)
  /\ Sound(disk) /\ Sound(cache)
  /\ \A h \in Handlers : pc[h] = "claim.insert" => Accounted(cache, job[h].invite)
  /\ \A h \in Handlers : pc[h] \in {"claim.commit", "update.commit"} => Accounted(cache, NoRow)

\* The members that an invite admitted can be counted.
LEMMA AdmittedFinite ==
  ASSUME NEW members, NEW i
  PROVE  /\ IsFiniteSet(AdmittedBy(members, i))
         /\ Cardinality(AdmittedBy(members, i)) \in Nat
  <1>1. AdmittedBy(members, i) \in SUBSET MemberIds
    BY DEF AdmittedBy, Present
  <1>2. IsFiniteSet(AdmittedBy(members, i))
    BY <1>1, FS_Subset
  <1>. QED BY <1>2, FS_CardinalityType

\* Inserting a fresh row adds its member to the invite it came by, if any.
LEMMA RowInserted ==
  ASSUME NEW members \in [MemberIds -> MemberRow \union {NoRow}],
         NEW m \in MemberIds, members[m] = NoRow, NEW row \in MemberRow, NEW i
  PROVE  Cardinality(AdmittedBy([members EXCEPT ![m] = row], i)) =
           Cardinality(AdmittedBy(members, i)) + (IF row.via = i THEN 1 ELSE 0)
  <1> DEFINE next == [members EXCEPT ![m] = row]
  <1>1. m \notin AdmittedBy(members, i)
    BY DEF AdmittedBy, Present
  <1>2. CASE row.via = i
    <2>1. AdmittedBy(next, i) = AdmittedBy(members, i) \union {m}
      BY <1>2 DEF AdmittedBy, Present
    <2>. QED BY <1>1, <1>2, <2>1, AdmittedFinite, FS_AddElement
  <1>3. CASE row.via # i
    <2>1. AdmittedBy(next, i) = AdmittedBy(members, i)
      BY <1>3 DEF AdmittedBy, Present
    <2>. QED BY <1>3, <2>1, AdmittedFinite
  <1>. QED BY <1>2, <1>3

\* Changing the state of a row moves nobody.
LEMMA RowChanged ==
  ASSUME NEW members \in [MemberIds -> MemberRow \union {NoRow}],
         NEW m \in MemberIds, members[m] \in MemberRow, NEW row \in MemberRow,
         row.via = members[m].via, NEW i
  PROVE  AdmittedBy([members EXCEPT ![m] = row], i) = AdmittedBy(members, i)
  BY DEF AdmittedBy, Present

\* Counting a claim of a reservable invite keeps its limit and its state sound.
LEMMA ReservedSound ==
  ASSUME NEW inv \in InviteRow, SoundRow(inv), NEW count, Reservable(inv, count)
  PROVE  SoundRow(Reserved(inv))
  <1>1. inv.count \in Nat /\ (inv.max \in Nat \ {0} \/ inv.max = NoLimit)
    BY DEF InviteRow
  <1>2. Reserved(inv).state = IF inv.max # NoLimit /\ inv.count + 1 >= inv.max
                              THEN "claimed" ELSE inv.state
    BY DEF Reserved, InviteRow
  <1>3. Reserved(inv).max = inv.max /\ Reserved(inv).count = inv.count + 1
    BY ReservedRow
  <1>4. CASE inv.max = NoLimit
    BY <1>1, <1>2, <1>3, <1>4 DEF SoundRow, Reservable
  <1>5. CASE inv.max \in Nat \ {0} /\ inv.max # NoLimit
    BY <1>1, <1>2, <1>3, <1>5 DEF SoundRow, Reservable
  <1>. QED BY <1>1, <1>4, <1>5

\* A step that writes no table, and at most takes the writer's work back.
LEMMA QuietStep ==
  ASSUME Shape, Accounting, disk' = disk,
         cache' = cache \/ cache' = disk,
         \A g \in Handlers : pc'[g] \in Dirty =>
           pc'[g] = pc[g] /\ job'[g] = job[g] /\ cache' = cache
  PROVE  Accounting'
  <1>1. Sound(cache)'
    BY DEF Accounting, Sound
  <1>2. \A g \in Handlers : pc'[g] = "claim.insert" => Accounted(cache', job'[g].invite)
    BY DEF Accounting, Dirty
  <1>3. \A g \in Handlers : pc'[g] \in {"claim.commit", "update.commit"} => Accounted(cache', NoRow)
    BY DEF Accounting, Dirty
  <1>. QED BY <1>1, <1>2, <1>3 DEF Accounting, Sound, Accounted

\* Taking the writer's work back keeps Accounting.
LEMMA RollbackQuiet ==
  ASSUME Shape, Accounting, NEW h \in Handlers, TxRollback(h),
         NEW label \in Labels \ Dirty, Goto(h, label), UNCHANGED job
  PROVE  Accounting'
  <1>1. disk' = disk /\ (cache' = cache \/ cache' = disk)
    BY DEF TxRollback
  <1>2. ASSUME NEW g \in Handlers, pc'[g] \in Dirty
        PROVE  pc'[g] = pc[g] /\ job'[g] = job[g] /\ cache' = cache
    BY <1>2 DEF Shape, TypeOK, Locks, TxRollback, Goto
  <1>. QED BY <1>1, <1>2, QuietStep

\* A further round of the retry loop keeps Accounting.
LEMMA RetryQuiet ==
  ASSUME Shape, Accounting, NEW h \in Handlers, Retry(h),
         pc[h] \in {"claim", "claim.assemble", "update", "update.reread"}
                     \union ClaimBody \union UpdateBody
  PROVE  Accounting'
  <1>1. job[h].op \in Labels \ Dirty /\ "answered" \in Labels \ Dirty
    BY DEF Shape, Stages, StageOK, ClaimJobs, UpdateJobs, Labels, Dirty
  <1>. QED BY <1>1, RollbackQuiet DEF Retry

\* A refusal keeps Accounting.
LEMMA RefuseQuiet ==
  ASSUME Shape, Accounting, NEW h \in Handlers, NEW a, Refuse(h, a)
  PROVE  Accounting'
  BY RollbackQuiet DEF Refuse, Reply, Labels, Dirty

\* Giving up keeps Accounting.
LEMMA GiveUpQuiet ==
  ASSUME Shape, Accounting, NEW h \in Handlers, GiveUp(h) PROVE Accounting'
  BY RefuseQuiet DEF GiveUp

\* Any step of a handler that leaves disk and cache alone.
LEMMA StillQuiet ==
  ASSUME Shape, Accounting, NEW h \in Handlers, UNCHANGED <<disk, cache>>,
         NEW label, label \notin Dirty, Goto(h, label),
         \A g \in Handlers \ {h} : job'[g] = job[g]
  PROVE  Accounting'
  <1>1. ASSUME NEW g \in Handlers, pc'[g] \in Dirty
        PROVE  pc'[g] = pc[g] /\ job'[g] = job[g] /\ cache' = cache
    BY <1>1 DEF Shape, TypeOK, Goto
  <1>. QED BY <1>1, QuietStep

\* The reads of a claim keep Accounting.
LEMMA ClaimReadQuiet ==
  ASSUME Shape, Accounting, NEW h \in Handlers, ClaimReadInvite(h) \/ ClaimReadMember(h)
  PROVE  Accounting'
  <1>1. pc[h] \in {"claim", "claim.member"}
    BY DEF ClaimReadInvite, ClaimReadMember
  <1>2. CASE Retry(h)
    BY <1>1, <1>2, RetryQuiet DEF ClaimBody
  <1>3. CASE \E a : Refuse(h, a)
    BY <1>3, RefuseQuiet
  <1>4. CASE TxRollback(h) /\ Goto(h, "claim.assemble") /\ UNCHANGED job
    BY <1>4, RollbackQuiet DEF Labels, Dirty
  <1>5. CASE TxRead(h) /\ UNCHANGED job /\ (Goto(h, "claim.member") \/ Goto(h, "claim.reserve"))
    BY <1>5, StillQuiet DEF TxRead, Dirty
  <1>. QED BY <1>2, <1>3, <1>4, <1>5, GiveUpQuiet DEF ClaimReadInvite, ClaimReadMember

\* The only handler that is dirty after a write is the one that wrote.
LEMMA OnlyWriter ==
  ASSUME Shape, Shape', NEW h \in Handlers, writer' = h
  PROVE  \A g \in Handlers : pc'[g] \in Dirty => g = h
  BY DEF Shape, Locks

\* After the reservation one claim is counted whose member is pending.
LEMMA ClaimReserveAccounting ==
  ASSUME Shape, Shape', Accounting, NEW h \in Handlers, ClaimReserve(h) PROVE Accounting'
  <1> DEFINE i == job[h].invite
             inv == cache.invites[i]
             next == [cache EXCEPT !.invites[i] = Reserved(inv)]
  <1>0. /\ pc[h] = "claim.reserve" /\ i \in Invites
        /\ inv \in InviteRow /\ cache \in Tables /\ inv # NoRow
    BY TablesOf DEF ClaimReserve, Shape, TypeOK, Stages, StageOK, Locks, ClaimBody, ClaimJobs
  <1>1. CASE Retry(h)
    BY <1>0, <1>1, RetryQuiet DEF ClaimBody
  <1>2. CASE /\ Reservable(inv, seen[h].count)
             /\ TxWrite(h, next)
             /\ Goto(h, "claim.insert")
             /\ UNCHANGED <<job, attempt, seen, answer, commits>>
    <2>1. cache = disk
      BY <1>0, <1>2 DEF Shape, Locks, TxWrite, CanWrite, Dirty
    <2>2. Reserved(inv) \in InviteRow /\ Reserved(inv).count = inv.count + 1
      BY <1>0, ReservedRow
    <2>3. next.members = cache.members /\ next.invites = [cache.invites EXCEPT ![i] = Reserved(inv)]
      BY <1>0, <2>2, InviteUpdated
    <2>4. SoundRow(Reserved(inv))
      BY <1>0, <1>2, ReservedSound DEF Accounting, Sound
    <2>5. cache' = next /\ disk' = disk /\ writer' = h /\ pc'[h] = "claim.insert"
      BY <1>2 DEF TxWrite, Goto, Shape, TypeOK
    <2> DEFINE rinv == Reserved(inv)
    <2> HIDE DEF next, rinv
    <2>6. Sound(next)
      BY <1>0, <2>3, <2>4, TablesOf DEF Accounting, Sound, rinv
    <2>7. Accounted(next, i)
      <3> SUFFICES ASSUME NEW k \in Invites
                   PROVE  Cardinality(AdmittedBy(next.members, k)) + (IF k = i THEN 1 ELSE 0) =
                            IF next.invites[k] # NoRow THEN next.invites[k].count ELSE 0
        BY DEF Accounted
      <3>1. Cardinality(AdmittedBy(cache.members, k)) =
              IF cache.invites[k] # NoRow THEN cache.invites[k].count ELSE 0
        BY <2>1, AdmittedFinite DEF Accounting, Accounted
      <3>2. CASE k = i
        BY <1>0, <2>2, <2>3, <3>1, <3>2, TablesOf, AdmittedFinite
      <3>3. CASE k # i
        BY <1>0, <2>3, <3>1, <3>3, TablesOf, AdmittedFinite
      <3>. QED BY <3>2, <3>3
    <2>8. \A g \in Handlers : pc'[g] \in Dirty => g = h
      BY <2>5, OnlyWriter
    <2>. QED BY <1>2, <2>5, <2>6, <2>7, <2>8 DEF Accounting, Accounted, Sound, Dirty
  <1>. QED BY <1>1, <1>2, GiveUpQuiet DEF ClaimReserve

\* The INSERT supplies the member that was pending.
LEMMA ClaimInsertAccounting ==
  ASSUME Shape, Shape', Accounting, NEW h \in Handlers, ClaimInsert(h) PROVE Accounting'
  <1> DEFINE j == job[h]
             m == CHOOSE id \in FreeIds(cache.members) : TRUE
             row == [space |-> seen[h].space, account |-> j.account, device |-> j.device,
                     state |-> "active", disabled_at |-> Never, via |-> j.invite]
             next == [cache EXCEPT !.members[m] = row]
  <1>0. pc[h] = "claim.insert" /\ cache \in Tables /\ j \in ClaimJobs /\ j.invite \in Invites
    BY DEF ClaimInsert, Shape, TypeOK, Stages, StageOK, ClaimBody, ClaimJobs
  <1>1. CASE Retry(h)
    BY <1>0, <1>1, RetryQuiet DEF ClaimBody
  <1>2. CASE /\ FreeIds(cache.members) # {}
             /\ TxWrite(h, next)
             /\ Goto(h, "claim.commit")
             /\ UNCHANGED <<job, attempt, seen, answer, commits>>
    <2>1. row \in MemberRow
      BY <1>0 DEF Shape, Stages, StageOK, ClaimBody, ClaimJobs, MemberRow, MemberStates, InviteRow
    <2>2. m \in MemberIds /\ cache.members[m] = NoRow
      BY <1>2 DEF FreeIds, Present
    <2>3. row.via = j.invite
      OBVIOUS
    <2>4. cache' = next /\ disk' = disk /\ writer' = h
      BY <1>2 DEF TxWrite
    <2> HIDE DEF m, row
    <2>5. next.invites = cache.invites /\ next.members = [cache.members EXCEPT ![m] = row]
      BY <1>0, <2>1, <2>2, MemberUpdated
    <2> HIDE DEF next
    <2>6. Accounted(cache, j.invite)
      BY <1>0 DEF Accounting
    <2>7. Accounted(next, NoRow)
      <3> SUFFICES ASSUME NEW k \in Invites
                   PROVE  Cardinality(AdmittedBy(next.members, k)) =
                            IF next.invites[k] # NoRow THEN next.invites[k].count ELSE 0
        BY AdmittedFinite DEF Accounted
      <3>1. Cardinality(AdmittedBy(next.members, k)) =
              Cardinality(AdmittedBy(cache.members, k)) + (IF row.via = k THEN 1 ELSE 0)
        BY <1>0, <2>1, <2>2, <2>5, RowInserted, TablesOf
      <3>. QED BY <2>3, <2>5, <2>6, <3>1 DEF Accounted
    <2>8. \A g \in Handlers : pc'[g] \in Dirty => g = h
      BY <2>4, OnlyWriter
    <2>9. pc'[h] = "claim.commit"
      BY <1>2 DEF Goto, Shape, TypeOK
    <2>. QED BY <2>4, <2>5, <2>7, <2>8, <2>9 DEF Accounting, Accounted, Sound, Dirty
  <1>. QED BY <1>1, <1>2, GiveUpQuiet DEF ClaimInsert

\* A transition moves no member from one invite to another.
LEMMA UpdateWriteAccounting ==
  ASSUME Shape, Shape', Accounting, NEW h \in Handlers, UpdateWrite(h) PROVE Accounting'
  <1> DEFINE j == job[h]
             row == cache.members[j.member]
             new == WithState(row, j.target, j.at)
             next == [cache EXCEPT !.members[j.member] = new]
  <1>0. /\ pc[h] = "update.write" /\ j \in UpdateJobs /\ j.member \in MemberIds
        /\ row \in MemberRow /\ cache \in Tables
    BY TablesOf DEF UpdateWrite, Shape, TypeOK, Stages, StageOK, Locks, UpdateBody, UpdateJobs
  <1>1. CASE Retry(h)
    BY <1>0, <1>1, RetryQuiet DEF UpdateBody
  <1>2. CASE /\ TxWrite(h, next)
             /\ Goto(h, "update.commit")
             /\ UNCHANGED <<job, attempt, seen, answer, commits>>
    <2>1. new \in MemberRow /\ new.via = row.via
      BY <1>0, WithStateRow DEF UpdateJobs
    <2>2. cache = disk
      BY <1>0, <1>2 DEF Shape, Locks, TxWrite, CanWrite, Dirty
    <2>3. cache' = next /\ disk' = disk /\ writer' = h
      BY <1>2 DEF TxWrite
    <2> HIDE DEF new
    <2>4. next.invites = cache.invites /\ next.members = [cache.members EXCEPT ![j.member] = new]
      BY <1>0, <2>1, MemberUpdated
    <2> HIDE DEF next
    <2>5. \A k \in Invites : AdmittedBy(next.members, k) = AdmittedBy(cache.members, k)
      BY <1>0, <2>1, <2>4, RowChanged, TablesOf
    <2>6. Accounted(next, NoRow)
      BY <2>2, <2>4, <2>5 DEF Accounting, Accounted
    <2>7. \A g \in Handlers : pc'[g] \in Dirty => g = h
      BY <2>3, OnlyWriter
    <2>8. pc'[h] = "update.commit"
      BY <1>2 DEF Goto, Shape, TypeOK
    <2>. QED BY <2>3, <2>4, <2>6, <2>7, <2>8 DEF Accounting, Accounted, Sound, Dirty
  <1>. QED BY <1>1, <1>2, GiveUpQuiet DEF UpdateWrite

\* What is committed was accounted for in the cache.
LEMMA CommitAccounting ==
  ASSUME Shape, Shape', Accounting, NEW h \in Handlers, TxCommit(h),
         pc[h] \in {"claim.commit", "update.commit"}
  PROVE  Accounting'
  <1>1. disk' = cache /\ cache' = cache /\ writer' = NoHandler
    BY DEF TxCommit
  <1>2. \A g \in Handlers : pc'[g] \notin Dirty
    BY <1>1 DEF Shape, Locks
  <1>. QED BY <1>1, <1>2 DEF Accounting, Accounted, Sound, Dirty

\* A commit makes the cache, by then accounted for, the file.
LEMMA ClaimCommitAccounting ==
  ASSUME Shape, Shape', Accounting, NEW h \in Handlers, ClaimCommit(h) \/ UpdateCommit(h)
  PROVE  Accounting'
  <1>1. pc[h] \in {"claim.commit", "update.commit"}
    BY DEF ClaimCommit, UpdateCommit
  <1>2. CASE Retry(h)
    BY <1>1, <1>2, RetryQuiet DEF ClaimBody, UpdateBody
  <1>3. CASE TxCommit(h)
    BY <1>1, <1>3, CommitAccounting
  <1>. QED BY <1>2, <1>3, GiveUpQuiet DEF ClaimCommit, UpdateCommit

\* The read of a transition keeps Accounting.
LEMMA UpdateReadQuiet ==
  ASSUME Shape, Accounting, NEW h \in Handlers, UpdateRead(h)
  PROVE  Accounting'
  <1>1. pc[h] = "update"
    BY DEF UpdateRead
  <1>2. CASE Retry(h)
    BY <1>1, <1>2, RetryQuiet
  <1>3. CASE \E a : Refuse(h, a)
    BY <1>3, RefuseQuiet
  <1>4. CASE TxRead(h) /\ UNCHANGED job /\ Goto(h, "update.write")
    BY <1>4, StillQuiet DEF TxRead, Dirty
  <1>. QED BY <1>2, <1>3, <1>4, GiveUpQuiet DEF UpdateRead

\* The reads after a commit keep Accounting.
LEMMA AnswerQuiet ==
  ASSUME Shape, Accounting, NEW h \in Handlers,
         ClaimAssemble(h) \/ UpdateReread(h) \/ RegisterReread(h) \/ IssueReread(h)
  PROVE  Accounting'
  <1>1. CASE Retry(h) /\ pc[h] \in {"claim.assemble", "update.reread"}
    BY <1>1, RetryQuiet
  <1>2. CASE UNCHANGED txVars /\ \E a : Reply(h, a)
    BY <1>2, StillQuiet DEF txVars, Reply, Dirty
  <1>. QED BY <1>1, <1>2, GiveUpQuiet DEF ClaimAssemble, UpdateReread, RegisterReread, IssueReread

\* The checks of a registration and of a new invite keep Accounting.
LEMMA CheckQuiet ==
  ASSUME Shape, Accounting, NEW h \in Handlers, RegisterCheck(h) \/ IssueCheck(h)
  PROVE  Accounting'
  <1>1. UNCHANGED txVars
    BY DEF RegisterCheck, IssueCheck
  <1>2. CASE \E a : Reply(h, a)
    BY <1>1, <1>2, StillQuiet DEF txVars, Reply, Dirty
  <1>3. CASE (Goto(h, "register.insert") \/ Goto(h, "issue.insert")) /\ UNCHANGED job
    BY <1>1, <1>3, StillQuiet DEF txVars, Dirty
  <1>. QED BY <1>2, <1>3 DEF RegisterCheck, IssueCheck

\* Arrivals and deliveries keep Accounting.
LEMMA ArrivalQuiet ==
  ASSUME Shape, Accounting, NEW h \in Handlers, Arrive(h) \/ Deliver(h)
  PROVE  Accounting'
  <1>1. CASE Deliver(h)
    BY <1>1, StillQuiet DEF Deliver, txVars, Dirty, Shape, TypeOK
  <1>2. CASE Arrive(h)
    <2>1. PICK j \in Jobs : job' = [job EXCEPT ![h] = j] /\ Goto(h, FirstLabel[j.op])
      BY <1>2 DEF Arrive
    <2>2. FirstLabel[j.op] \notin Dirty
      BY JobOps DEF FirstLabel, Dirty
    <2>. QED BY <1>2, <2>1, <2>2, StillQuiet DEF Arrive, txVars, Shape, TypeOK
  <1>. QED BY <1>1, <1>2

\* After a lone INSERT nobody is in the middle of a write.
LEMMA LoneInsert ==
  ASSUME Shape, Shape', NEW h \in Handlers, NEW content, AutoWrite(h, content)
  PROVE  \A g \in Handlers : pc'[g] \notin Dirty
  BY DEF Shape, Locks, AutoWrite, CanAutoWrite

\* A registered member came in by no invite.
LEMMA RegisterInsertAccounting ==
  ASSUME Shape, Shape', Accounting, NEW h \in Handlers, RegisterInsert(h) PROVE Accounting'
  <1> DEFINE j == job[h]
             m == CHOOSE id \in FreeIds(disk.members) : TRUE
             row == [space |-> j.space, account |-> j.account, device |-> j.device,
                     state |-> j.state, disabled_at |-> Never, via |-> NoRow]
             next == [disk EXCEPT !.members[m] = row]
  <1>0. pc[h] = "register.insert" /\ disk \in Tables
    BY DEF RegisterInsert, Shape, TypeOK
  <1>1. CASE DbError(h)
    BY <1>1, StillQuiet DEF DbError, txVars, Reply, Dirty
  <1>2. CASE FreeIds(disk.members) # {} /\ AutoWrite(h, next)
    <2>1. row \in MemberRow
      BY <1>0 DEF Shape, Stages, StageOK, RegisterJobs, MemberRow
    <2>2. m \in MemberIds /\ disk.members[m] = NoRow
      BY <1>2 DEF FreeIds, Present
    <2>3. row.via \notin Invites
      OBVIOUS
    <2>4. cache' = next /\ disk' = next
      BY <1>2 DEF AutoWrite
    <2>5. \A g \in Handlers : pc'[g] \notin Dirty
      BY <1>2, LoneInsert
    <2> HIDE DEF m, row
    <2>6. next.invites = disk.invites /\ next.members = [disk.members EXCEPT ![m] = row]
      BY <1>0, <2>1, <2>2, MemberUpdated
    <2> HIDE DEF next
    <2>7. \A k \in Invites : Cardinality(AdmittedBy(next.members, k)) =
                             Cardinality(AdmittedBy(disk.members, k))
      <3> SUFFICES ASSUME NEW k \in Invites
                   PROVE  Cardinality(AdmittedBy(next.members, k)) =
                          Cardinality(AdmittedBy(disk.members, k))
        OBVIOUS
      <3>1. Cardinality(AdmittedBy(next.members, k)) =
              Cardinality(AdmittedBy(disk.members, k)) + (IF row.via = k THEN 1 ELSE 0)
        BY <1>0, <2>1, <2>2, <2>6, RowInserted, TablesOf
      <3>. QED BY <2>3, <3>1, AdmittedFinite
    <2>8. Accounted(next, NoRow) /\ Sound(next)
      BY <2>6, <2>7 DEF Accounting, Accounted, Sound
    <2>. QED BY <2>4, <2>5, <2>8 DEF Accounting, Accounted, Sound, Dirty
  <1>. QED BY <1>1, <1>2 DEF RegisterInsert

\* A new invite has counted nobody and admitted nobody.
LEMMA IssueInsertAccounting ==
  ASSUME Shape, Shape', Accounting, NEW h \in Handlers, IssueInsert(h) PROVE Accounting'
  <1> DEFINE j == job[h]
             row == [space |-> j.space, max |-> j.max, count |-> 0,
                     state |-> j.state, expires |-> j.expires]
             next == [disk EXCEPT !.invites[j.invite] = row]
  <1>0. pc[h] = "issue.insert" /\ j \in IssueJobs /\ j.invite \in Invites /\ disk \in Tables
    BY DEF IssueInsert, Shape, TypeOK, Stages, StageOK, IssueJobs
  <1>1. CASE DbError(h)
    BY <1>1, StillQuiet DEF DbError, txVars, Reply, Dirty
  <1>2. CASE disk.invites[j.invite] = NoRow /\ j.max # 0 /\ AutoWrite(h, next)
    <2>1. row \in InviteRow
      BY <1>0, <1>2 DEF Shape, Stages, StageOK, IssueJobs, InviteRow
    <2>2. row.count = 0 /\ (row.max = NoLimit \/ row.max \in Nat \ {0})
      BY <2>1 DEF InviteRow
    <2>3. SoundRow(row)
      BY <2>2 DEF SoundRow
    <2>4. cache' = next /\ disk' = next
      BY <1>2 DEF AutoWrite
    <2>5. \A g \in Handlers : pc'[g] \notin Dirty
      BY <1>2, LoneInsert
    <2> HIDE DEF row
    <2>6. next.members = disk.members /\ next.invites = [disk.invites EXCEPT ![j.invite] = row]
      BY <1>0, <2>1, InviteUpdated
    <2> HIDE DEF next
    <2>7. Sound(next)
      BY <1>0, <2>3, <2>6, TablesOf DEF Accounting, Sound
    <2>8. Accounted(next, NoRow)
      BY <1>0, <1>2, <2>1, <2>2, <2>6, TablesOf DEF Accounting, Accounted
    <2>. QED BY <2>4, <2>5, <2>7, <2>8 DEF Accounting, Accounted, Sound, Dirty
  <1>. QED BY <1>1, <1>2 DEF IssueInsert

\* A crash throws the cache away and keeps Accounting.
LEMMA CrashQuiet ==
  ASSUME Shape, Accounting, Crash PROVE Accounting'
  BY QuietStep DEF Crash, TxCrash, Dirty

\* The empty store is accounted for.
LEMMA InitAccounting == Init => Accounting
  <1> SUFFICES ASSUME Init PROVE Accounting
    OBVIOUS
  <1>1. \A i \in Invites : AdmittedBy(disk.members, i) = {}
    BY DEF Init, AdmittedBy, Present
  <1>2. \A i \in Invites : Cardinality(AdmittedBy(disk.members, i)) = 0
    BY <1>1, FS_EmptySet
  <1>. QED BY <1>2 DEF Init, Accounting, Accounted, Sound

\* Every step of the store keeps Accounting.
LEMMA NextAccounting == Shape /\ Shape' /\ Accounting /\ [Next]_vars => Accounting'
  <1> SUFFICES ASSUME Shape, Shape', Accounting, [Next]_vars PROVE Accounting'
    OBVIOUS
  <1>1. CASE UNCHANGED vars
    BY <1>1 DEF vars, Accounting, Accounted, Sound
  <1>2. CASE Crash
    BY <1>2, CrashQuiet
  <1>3. ASSUME NEW h \in Handlers, Arrive(h) \/ Deliver(h) PROVE Accounting'
    BY <1>3, ArrivalQuiet
  <1>4. ASSUME NEW h \in Handlers, ClaimStep(h) PROVE Accounting'
    BY <1>4, ClaimReadQuiet, ClaimReserveAccounting, ClaimInsertAccounting,
       ClaimCommitAccounting, AnswerQuiet DEF ClaimStep
  <1>5. ASSUME NEW h \in Handlers, UpdateStep(h) PROVE Accounting'
    BY <1>5, UpdateReadQuiet, UpdateWriteAccounting, ClaimCommitAccounting, AnswerQuiet
    DEF UpdateStep
  <1>6. ASSUME NEW h \in Handlers, RegisterStep(h) \/ IssueStep(h) PROVE Accounting'
    BY <1>6, CheckQuiet, RegisterInsertAccounting, IssueInsertAccounting, AnswerQuiet
    DEF RegisterStep, IssueStep
  <1>. QED BY <1>1, <1>2, <1>3, <1>4, <1>5, <1>6 DEF Next, Serve

\* Accounting is an invariant.
LEMMA SpecAccounting == Spec => []Accounting
  BY SpecShape, InitAccounting, NextAccounting, PTL DEF Spec

\* However many handlers race, crash and retry: an invite's claim_count is the
\* number of members that its claims inserted.
THEOREM SpecClaimsAccounted == Spec => []ClaimsAccounted
  <1>1. Accounting => ClaimsAccounted
    BY AdmittedFinite DEF Accounting, Accounted, ClaimsAccounted, Issued
  <1>. QED BY <1>1, SpecAccounting, PTL

\* No invite ever admits more members than max_claims.
THEOREM SpecWithinLimit == Spec => []WithinLimit
  <1>1. Accounting => WithinLimit
    BY AdmittedFinite DEF Accounting, Accounted, Sound, SoundRow, WithinLimit, Issued
  <1>. QED BY <1>1, SpecAccounting, PTL

\* The state column of an invite tells whether a use of it is left.
THEOREM SpecStateTellsUse == Spec => []StateTellsUse
  <1>1. Accounting => StateTellsUse
    BY DEF Accounting, Sound, SoundRow, StateTellsUse, Issued
  <1>. QED BY <1>1, SpecAccounting, PTL

-----------------------------------------------------------------------------
\* Member rows: the cache is always a legal next step of the committed rows.

LegalStep(old, new) ==
  /\ new = [old EXCEPT !.state = new.state, !.disabled_at = new.disabled_at]
  /\ AllowedTransition(old.state, new.state)
  /\ ConsistentRow(old) /\ ConsistentRow(new)

Evolves(members, next) ==
  \A m \in MemberIds :
    members[m] # NoRow => next[m] = members[m] \/ LegalStep(members[m], next[m])

\* An update only reaches its write with a transition that the table allows.
Evolution ==
  /\ Evolves(disk.members, cache.members)
  /\ \A h \in Handlers : pc[h] = "update.write" =>
       AllowedTransition(seen[h].state, job[h].target) /\ ConsistentRow(seen[h])

\* The transition of a consistent row is a legal step of it.
LEMMA WithStateLegal ==
  ASSUME NEW row \in MemberRow, NEW old, SameRow(row, old), NEW at \in Times,
         NEW target \in MemberStates,
         AllowedTransition(old.state, target), ConsistentRow(old)
  PROVE  LegalStep(row, WithState(row, target, at))
  <1> DEFINE when == IF target = "disabled" THEN at ELSE Never
             new == WithState(row, target, at)
  <1>1. new = [row EXCEPT !.state = target, !.disabled_at = when]
    BY DEF WithState
  <1>2. new.state = target /\ new.disabled_at = when
    BY <1>1 DEF MemberRow
  <1>3. (target = "disabled") <=> (when # Never)
    BY DEF Never
  <1>4. ConsistentRow(new) /\ ConsistentRow(row) /\ AllowedTransition(row.state, new.state)
    BY <1>2, <1>3 DEF ConsistentRow, SameRow
  <1>. QED BY <1>1, <1>2, <1>4 DEF LegalStep

\* Steps that leave the members of disk and cache alone, or reset the cache,
\* and bring nobody to "update.write".
LEMMA StillEvolves ==
  ASSUME Shape, Evolution, disk' = disk,
         cache'.members = cache.members \/ cache' = disk,
         \A g \in Handlers : pc'[g] = "update.write" =>
           pc[g] = pc'[g] /\ job'[g] = job[g] /\ seen'[g] = seen[g]
  PROVE  Evolution'
  <1>1. Evolves(disk.members, cache.members)'
    BY DEF Evolution, Evolves
  <1>. QED BY <1>1 DEF Evolution

\* The same when what a handler does elsewhere cannot matter.
LEMMA HandlerEvolves ==
  ASSUME Shape, Evolution, NEW h \in Handlers, disk' = disk,
         cache'.members = cache.members \/ cache' = disk,
         NEW label, label # "update.write", Goto(h, label),
         \A g \in Handlers \ {h} : job'[g] = job[g] /\ seen'[g] = seen[g]
  PROVE  Evolution'
  <1>1. ASSUME NEW g \in Handlers, pc'[g] = "update.write"
        PROVE  pc[g] = pc'[g] /\ job'[g] = job[g] /\ seen'[g] = seen[g]
    BY <1>1 DEF Shape, TypeOK, Goto
  <1>. QED BY <1>1, StillEvolves

\* A further round of the retry loop keeps Evolution.
LEMMA RetryEvolves ==
  ASSUME Shape, Evolution, NEW h \in Handlers, Retry(h),
         pc[h] \in {"claim", "claim.assemble", "update", "update.reread"}
                     \union ClaimBody \union UpdateBody
  PROVE  Evolution'
  <1>1. job[h].op # "update.write"
    BY DEF Shape, Stages, StageOK, ClaimJobs, UpdateJobs
  <1>. QED BY <1>1, HandlerEvolves DEF Retry, TxRollback, Shape, TypeOK

\* A refusal keeps Evolution.
LEMMA RefuseEvolves ==
  ASSUME Shape, Evolution, NEW h \in Handlers, NEW a, Refuse(h, a) PROVE Evolution'
  BY HandlerEvolves DEF Refuse, Reply, TxRollback, Shape, TypeOK

\* Giving up keeps Evolution.
LEMMA GiveUpEvolves ==
  ASSUME Shape, Evolution, NEW h \in Handlers, GiveUp(h) PROVE Evolution'
  BY RefuseEvolves DEF GiveUp

\* An answer keeps Evolution.
LEMMA ReplyEvolves ==
  ASSUME Shape, Evolution, NEW h \in Handlers, NEW a, UNCHANGED txVars, Reply(h, a)
  PROVE  Evolution'
  BY HandlerEvolves DEF Reply, txVars, Shape, TypeOK

\* The steps of a claim that write nothing keep Evolution.
LEMMA ClaimEvolves ==
  ASSUME Shape, Evolution, NEW h \in Handlers,
         ClaimReadInvite(h) \/ ClaimReadMember(h) \/ ClaimAssemble(h)
  PROVE  Evolution'
  <1>1. pc[h] \in {"claim", "claim.member", "claim.assemble"}
    BY DEF ClaimReadInvite, ClaimReadMember, ClaimAssemble
  <1>2. CASE Retry(h)
    BY <1>1, <1>2, RetryEvolves DEF ClaimBody
  <1>3. CASE \E a : Refuse(h, a) \/ (UNCHANGED txVars /\ Reply(h, a))
    BY <1>3, RefuseEvolves, ReplyEvolves
  <1>4. CASE /\ TxRollback(h)
             /\ seen' = [seen EXCEPT ![h] = NoRow]
             /\ Goto(h, "claim.assemble")
             /\ UNCHANGED job
    BY <1>4, HandlerEvolves DEF TxRollback, Shape, TypeOK
  <1>5. CASE /\ TxRead(h)
             /\ seen' = [seen EXCEPT ![h] = disk.invites[job[h].invite]]
             /\ Goto(h, "claim.member")
             /\ UNCHANGED job
    BY <1>5, HandlerEvolves DEF TxRead, Shape, TypeOK
  <1>6. CASE TxRead(h) /\ Goto(h, "claim.reserve") /\ UNCHANGED <<job, seen>>
    BY <1>6, HandlerEvolves DEF TxRead
  <1>. QED BY <1>2, <1>3, <1>4, <1>5, <1>6, GiveUpEvolves
         DEF ClaimReadInvite, ClaimReadMember, ClaimAssemble

\* The reservation touches no member row.
LEMMA ClaimReserveEvolves ==
  ASSUME Shape, Evolution, NEW h \in Handlers, ClaimReserve(h) PROVE Evolution'
  <1> DEFINE i == job[h].invite
             next == [cache EXCEPT !.invites[i] = Reserved(cache.invites[i])]
  <1>1. pc[h] = "claim.reserve"
    BY DEF ClaimReserve
  <1>2. CASE Retry(h)
    BY <1>1, <1>2, RetryEvolves DEF ClaimBody
  <1>3. CASE TxWrite(h, next) /\ Goto(h, "claim.insert") /\ UNCHANGED <<job, seen>>
    <2>1. next.members = cache.members
      BY DEF Shape, TypeOK, Tables
    <2>. QED BY <1>3, <2>1, HandlerEvolves DEF TxWrite
  <1>. QED BY <1>2, <1>3, GiveUpEvolves DEF ClaimReserve

\* The INSERT of a claim adds a row and changes none.
LEMMA ClaimInsertEvolves ==
  ASSUME Shape, Evolution, NEW h \in Handlers, ClaimInsert(h) PROVE Evolution'
  <1> DEFINE m == CHOOSE id \in FreeIds(cache.members) : TRUE
  <1>1. pc[h] = "claim.insert"
    BY DEF ClaimInsert
  <1>2. CASE Retry(h)
    BY <1>1, <1>2, RetryEvolves DEF ClaimBody
  <1>3. CASE \E row : /\ FreeIds(cache.members) # {}
                      /\ TxWrite(h, [cache EXCEPT !.members[m] = row])
                      /\ Goto(h, "claim.commit")
                      /\ UNCHANGED <<job, seen>>
    <2>1. m \in MemberIds /\ cache.members[m] = NoRow
      BY <1>3 DEF FreeIds, Present
    <2> HIDE DEF m
    <2>2. PICK row : cache' = [cache EXCEPT !.members[m] = row]
      BY <1>3 DEF TxWrite
    <2>3. cache'.members = [cache.members EXCEPT ![m] = row]
      BY <2>2 DEF Shape, TypeOK, Tables
    <2>4. disk' = disk /\ disk.members[m] = NoRow
      BY <1>3, <2>1 DEF TxWrite, Shape, Locks
    <2>5. Evolves(disk.members, cache.members)'
      BY <2>1, <2>3, <2>4, TablesOf DEF Evolution, Evolves, Shape, TypeOK
    <2>6. ASSUME NEW g \in Handlers, pc'[g] = "update.write"
          PROVE  pc[g] = pc'[g] /\ job'[g] = job[g] /\ seen'[g] = seen[g]
      BY <1>3, <2>6 DEF Shape, TypeOK, Goto
    <2>. QED BY <2>5, <2>6 DEF Evolution
  <1>. QED BY <1>2, <1>3, GiveUpEvolves DEF ClaimInsert

\* A transition goes on with a consistent row and an allowed target.
LEMMA UpdateReadEvolves ==
  ASSUME Shape, Evolution, NEW h \in Handlers, UpdateRead(h) PROVE Evolution'
  <1> DEFINE row == disk.members[job[h].member]
  <1>1. pc[h] = "update"
    BY DEF UpdateRead
  <1>2. CASE Retry(h)
    BY <1>1, <1>2, RetryEvolves
  <1>3. CASE \E a : Refuse(h, a)
    BY <1>3, RefuseEvolves
  <1>4. CASE /\ ConsistentRow(row) /\ AllowedTransition(row.state, job[h].target)
             /\ TxRead(h)
             /\ seen' = [seen EXCEPT ![h] = row]
             /\ Goto(h, "update.write")
             /\ UNCHANGED job
    BY <1>4 DEF Evolution, TxRead, Goto, Shape, TypeOK
  <1>. QED BY <1>2, <1>3, <1>4, GiveUpEvolves DEF UpdateRead

\* The UPDATE of a transition is a legal step of the row as it is now.
LEMMA UpdateWriteEvolves ==
  ASSUME Shape, Evolution, NEW h \in Handlers, UpdateWrite(h) PROVE Evolution'
  <1> DEFINE j == job[h]
             row == cache.members[j.member]
             new == WithState(row, j.target, j.at)
             next == [cache EXCEPT !.members[j.member] = new]
  <1>0. /\ pc[h] = "update.write" /\ j \in UpdateJobs /\ j.member \in MemberIds
        /\ row \in MemberRow /\ cache \in Tables
    BY TablesOf DEF UpdateWrite, Shape, TypeOK, Stages, StageOK, Locks, UpdateBody, UpdateJobs
  <1>1. CASE Retry(h)
    BY <1>0, <1>1, RetryEvolves DEF UpdateBody
  <1>2. CASE /\ SameRow(row, seen[h])
             /\ TxWrite(h, next)
             /\ Goto(h, "update.commit")
             /\ UNCHANGED <<job, attempt, seen, answer, commits>>
    <2>1. new \in MemberRow
      BY <1>0, WithStateRow DEF UpdateJobs
    <2>2. LegalStep(row, new)
      BY <1>0, <1>2, WithStateLegal DEF Evolution, UpdateJobs
    <2>3. cache = disk
      BY <1>0, <1>2 DEF Shape, Locks, TxWrite, CanWrite, Dirty
    <2>4. cache' = next /\ disk' = disk
      BY <1>2 DEF TxWrite
    <2> HIDE DEF new
    <2>5. next.members = [cache.members EXCEPT ![j.member] = new]
      BY <1>0, <2>1, MemberUpdated
    <2> HIDE DEF next
    <2>6. Evolves(disk.members, cache.members)'
      BY <1>0, <2>2, <2>3, <2>4, <2>5, TablesOf DEF Evolution, Evolves
    <2>7. ASSUME NEW g \in Handlers, pc'[g] = "update.write"
          PROVE  pc[g] = pc'[g] /\ job'[g] = job[g] /\ seen'[g] = seen[g]
      BY <1>2, <2>7 DEF Shape, TypeOK, Goto
    <2>. QED BY <2>6, <2>7 DEF Evolution
  <1>. QED BY <1>1, <1>2, GiveUpEvolves DEF UpdateWrite

\* Reading the member again keeps Evolution.
LEMMA UpdateRereadEvolves ==
  ASSUME Shape, Evolution, NEW h \in Handlers, UpdateReread(h) PROVE Evolution'
  <1>1. pc[h] = "update.reread"
    BY DEF UpdateReread
  <1>. QED BY <1>1, RetryEvolves, ReplyEvolves, GiveUpEvolves DEF UpdateReread

\* Once the cache is the file, only what handlers have read is to be kept.
LEMMA FlushedEvolves ==
  ASSUME Shape, Evolution, NEW h \in Handlers, cache' = disk',
         NEW label, label # "update.write", Goto(h, label),
         \A g \in Handlers \ {h} : job'[g] = job[g] /\ seen'[g] = seen[g]
  PROVE  Evolution'
  <1>1. Evolves(disk.members, cache.members)'
    BY DEF Evolves
  <1>2. ASSUME NEW g \in Handlers, pc'[g] = "update.write"
        PROVE  pc[g] = pc'[g] /\ job'[g] = job[g] /\ seen'[g] = seen[g]
    BY <1>2 DEF Shape, TypeOK, Goto
  <1>. QED BY <1>1, <1>2 DEF Evolution

\* A commit makes the cache the file.
LEMMA CommitEvolves ==
  ASSUME Shape, Evolution, NEW h \in Handlers, ClaimCommit(h) \/ UpdateCommit(h)
  PROVE  Evolution'
  <1>1. pc[h] \in ClaimBody \union UpdateBody
    BY DEF ClaimCommit, UpdateCommit, ClaimBody, UpdateBody
  <1>2. CASE Retry(h)
    BY <1>1, <1>2, RetryEvolves
  <1>3. CASE /\ TxCommit(h)
             /\ seen' = [seen EXCEPT ![h] = NoRow]
             /\ (Goto(h, "claim.assemble") \/ Goto(h, "update.reread"))
             /\ UNCHANGED job
    BY <1>3, FlushedEvolves DEF TxCommit, Shape, TypeOK
  <1>. QED BY <1>2, <1>3, GiveUpEvolves DEF ClaimCommit, UpdateCommit

\* Registrations and new invites keep Evolution.
LEMMA LoneEvolves ==
  ASSUME Shape, Evolution, NEW h \in Handlers, RegisterStep(h) \/ IssueStep(h)
  PROVE  Evolution'
  <1>1. CASE UNCHANGED txVars /\ \E a : Reply(h, a)
    BY <1>1, ReplyEvolves
  <1>2. CASE /\ UNCHANGED txVars
             /\ Goto(h, "register.insert") \/ Goto(h, "issue.insert")
             /\ UNCHANGED <<job, seen>>
    BY <1>2, HandlerEvolves DEF txVars
  <1>3. CASE /\ \E content : AutoWrite(h, content)
             /\ Goto(h, "register.reread") \/ Goto(h, "issue.reread")
             /\ UNCHANGED <<job, seen>>
    BY <1>3, FlushedEvolves DEF AutoWrite
  <1>. QED BY <1>1, <1>2, <1>3 DEF RegisterStep, RegisterCheck, RegisterInsert, RegisterReread,
         IssueStep, IssueCheck, IssueInsert, IssueReread, DbError

\* Arrivals and deliveries keep Evolution.
LEMMA ArrivalEvolves ==
  ASSUME Shape, Evolution, NEW h \in Handlers, Arrive(h) \/ Deliver(h) PROVE Evolution'
  <1>1. CASE Deliver(h)
    BY <1>1, HandlerEvolves DEF Deliver, txVars, Shape, TypeOK
  <1>2. CASE Arrive(h)
    <2>1. PICK j \in Jobs : job' = [job EXCEPT ![h] = j] /\ Goto(h, FirstLabel[j.op])
      BY <1>2 DEF Arrive
    <2>2. FirstLabel[j.op] # "update.write"
      BY JobOps DEF FirstLabel
    <2>. QED BY <1>2, <2>1, <2>2, HandlerEvolves DEF Arrive, txVars, Shape, TypeOK
  <1>. QED BY <1>1, <1>2

\* In the empty store nothing is pending.
LEMMA InitEvolution == Init => Evolution
  BY DEF Init, Evolution, Evolves

\* Every step of the store keeps Evolution.
LEMMA NextEvolution == Shape /\ Evolution /\ [Next]_vars => Evolution'
  <1> SUFFICES ASSUME Shape, Evolution, [Next]_vars PROVE Evolution'
    OBVIOUS
  <1>1. CASE UNCHANGED vars
    BY <1>1 DEF vars, Evolution, Evolves
  <1>2. CASE Crash
    BY <1>2, StillEvolves DEF Crash, TxCrash
  <1>3. ASSUME NEW h \in Handlers, Arrive(h) \/ Deliver(h) PROVE Evolution'
    BY <1>3, ArrivalEvolves
  <1>4. ASSUME NEW h \in Handlers, ClaimStep(h) PROVE Evolution'
    BY <1>4, ClaimEvolves, ClaimReserveEvolves, ClaimInsertEvolves, CommitEvolves DEF ClaimStep
  <1>5. ASSUME NEW h \in Handlers, UpdateStep(h) PROVE Evolution'
    BY <1>5, UpdateReadEvolves, UpdateWriteEvolves, CommitEvolves, UpdateRereadEvolves
    DEF UpdateStep
  <1>6. ASSUME NEW h \in Handlers, RegisterStep(h) \/ IssueStep(h) PROVE Evolution'
    BY <1>6, LoneEvolves
  <1>. QED BY <1>1, <1>2, <1>3, <1>4, <1>5, <1>6 DEF Next, Serve

\* Evolution is an invariant.
LEMMA SpecEvolution == Spec => []Evolution
  BY SpecShape, InitEvolution, NextEvolution, PTL DEF Spec

\* Each step changes the committed members not at all, to what the cache
\* holds, or by one fresh row.
LEMMA DiskStep ==
  ASSUME Shape, [Next]_vars
  PROVE  \/ disk' = disk
         \/ disk' = cache
         \/ \A m \in Present(disk.members) : disk'.members[m] = disk.members[m]
  <1>1. CASE UNCHANGED vars
    BY <1>1 DEF vars
  <1>2. CASE Crash
    BY <1>2 DEF Crash, TxCrash
  <1>3. ASSUME NEW h \in Handlers, Arrive(h) \/ Deliver(h) PROVE disk' = disk
    BY <1>3 DEF Arrive, Deliver, txVars
  <1>4. ASSUME NEW h \in Handlers, ClaimStep(h) PROVE disk' = disk \/ disk' = cache
    BY <1>4 DEF ClaimStep, ClaimReadInvite, ClaimReadMember, ClaimReserve, ClaimInsert,
       ClaimCommit, ClaimAssemble, Retry, GiveUp, Refuse, TxRollback, TxRead, TxWrite, TxCommit,
       txVars
  <1>5. ASSUME NEW h \in Handlers, UpdateStep(h) PROVE disk' = disk \/ disk' = cache
    BY <1>5 DEF UpdateStep, UpdateRead, UpdateWrite, UpdateCommit, UpdateReread,
       Retry, GiveUp, Refuse, TxRollback, TxRead, TxWrite, TxCommit, txVars
  <1>6. ASSUME NEW h \in Handlers, RegisterStep(h) \/ IssueStep(h)
        PROVE  \/ disk' = disk
               \/ \A m \in Present(disk.members) : disk'.members[m] = disk.members[m]
    <2>1. CASE disk' = disk
      BY <2>1
    <2>2. CASE \E row : /\ FreeIds(disk.members) # {}
                        /\ disk' = [disk EXCEPT !.members[CHOOSE id \in FreeIds(disk.members) : TRUE] = row]
      <3> DEFINE m == CHOOSE id \in FreeIds(disk.members) : TRUE
      <3>1. m \in MemberIds /\ m \notin Present(disk.members)
        BY <2>2 DEF FreeIds
      <3> HIDE DEF m
      <3>2. PICK row : disk' = [disk EXCEPT !.members[m] = row]
        BY <2>2 DEF m
      <3>3. disk'.members = [disk.members EXCEPT ![m] = row]
        BY <3>2 DEF Shape, TypeOK, Tables
      <3>. QED BY <3>1, <3>3 DEF Shape, TypeOK, Tables, Present
    <2>3. CASE \E row : disk' = [disk EXCEPT !.invites[job[h].invite] = row]
      BY <2>3 DEF Shape, TypeOK, Tables
    <2>. QED BY <1>6, <2>1, <2>2, <2>3 DEF RegisterStep, RegisterCheck, RegisterInsert,
           RegisterReread, IssueStep, IssueCheck, IssueInsert, IssueReread, DbError, AutoWrite,
           txVars
  <1>. QED BY <1>1, <1>2, <1>3, <1>4, <1>5, <1>6 DEF Next, Serve

\* Committed member rows are never lost, keep their identity, and change state
\* only along the allowed transitions, whatever the handlers interleave.
THEOREM SpecMemberRowsEvolve == Spec => MemberRowsEvolve
  <1>1. ASSUME Shape, Evolution, [Next]_vars, NEW m \in Present(disk.members),
               disk'.members[m] # disk.members[m]
        PROVE  LegalStep(disk.members[m], disk'.members[m])
    <2>1. m \in MemberIds /\ disk.members[m] # NoRow
      BY DEF Present
    <2>. QED BY <1>1, <2>1, DiskStep DEF Evolution, Evolves
  <1>2. Shape /\ Evolution /\ [Next]_vars =>
          [\A m \in Present(disk.members) :
             LET old == disk.members[m]
                 new == disk'.members[m]
             IN  new # old =>
                   /\ new = [old EXCEPT !.state = new.state, !.disabled_at = new.disabled_at]
                   /\ AllowedTransition(old.state, new.state)
                   /\ ConsistentRow(old) /\ ConsistentRow(new)]_vars
    BY <1>1 DEF LegalStep
  <1>. QED BY <1>2, SpecShape, SpecEvolution, PTL DEF Spec, MemberRowsEvolve
=============================================================================
