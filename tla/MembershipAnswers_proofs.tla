----------------------- MODULE MembershipAnswers_proofs -----------------------
(***************************************************************************)
(* Proofs of what RelaySpaceMembership answers, and that it implements     *)
(* MembershipLedger, again for every number of handlers, invites, members  *)
(* and retries and both values of ReadLocks.  On top of Shape, Accounting  *)
(* and Evolution stands one more inductive invariant, Promises: what the   *)
(* cache of a writer is ahead of the file by, row by row, what a claim     *)
(* knows of its invite and its member, and that devices are taken once.    *)
(***************************************************************************)
EXTENDS RelaySpaceMembership_proofs

\* A later state of an invite: on the same terms, counted further, and used up
\* or expired for good.
InviteKeeps(old, new) ==
  /\ new # NoRow
  /\ new.space = old.space /\ new.max = old.max /\ new.expires = old.expires
  /\ new.count >= old.count
  /\ old.state \in {"claimed", "expired"} => new.state = old.state

\* A later state of a member: the same device of the same account, and gone
\* for good once it left.
MemberKeeps(old, new) ==
  /\ new # NoRow
  /\ new.space = old.space /\ new.account = old.account
  /\ new.device = old.device /\ new.via = old.via
  /\ old.state = "left" => new.state = "left"

InvitesKeep(t, u) ==
  \A i \in Invites : t.invites[i] # NoRow => InviteKeeps(t.invites[i], u.invites[i])
MembersKeep(t, u) ==
  \A m \in MemberIds : t.members[m] # NoRow => MemberKeeps(t.members[m], u.members[m])
Keeps(t, u) == InvitesKeep(t, u) /\ MembersKeep(t, u)

\* u counts one more claim of i than t.
Counted(t, u, i) ==
  /\ t.invites[i] # NoRow /\ Reservable(t.invites[i], t.invites[i].count)
  /\ u.invites = [t.invites EXCEPT ![i] = Reserved(t.invites[i])]

\* u has a new member.
Entered(t, u, m, row) ==
  /\ m \in MemberIds /\ t.members[m] = NoRow /\ row \in MemberRow
  /\ u.members = [t.members EXCEPT ![m] = row]

\* A member of t is in another state in u.
Moved(t, u, m, row) ==
  /\ m \in MemberIds /\ t.members[m] # NoRow /\ row \in MemberRow
  /\ LegalStep(t.members[m], row)
  /\ u.members = [t.members EXCEPT ![m] = row]

ClaimedRow(j, s) ==
  [space |-> s, account |-> j.account, device |-> j.device,
   state |-> "active", disabled_at |-> Never, via |-> j.invite]

\* What the cache of a writer is ahead of the file by.
Pending(h) ==
  LET j == job[h] IN
  /\ pc[h] \in {"claim.insert", "claim.commit"} => Counted(disk, cache, j.invite)
  /\ pc[h] = "claim.insert" => cache.members = disk.members
  /\ pc[h] = "claim.commit" =>
       \E m \in MemberIds : Entered(disk, cache, m, ClaimedRow(j, seen[h].space))
  /\ pc[h] = "update.commit" =>
       /\ cache.invites = disk.invites
       /\ \E row \in MemberRow : Moved(disk, cache, j.member, row)

\* Devices are members under their own account, and once in a space.
Proper(members) ==
  /\ \A m \in MemberIds :
       members[m] # NoRow /\ members[m].device # NoDevice =>
         members[m].account = Owner[members[m].device]
  /\ \A m, n \in MemberIds :
       /\ members[m] # NoRow /\ members[n] # NoRow
       /\ members[m].space = members[n].space
       /\ members[m].device = members[n].device /\ members[m].device # NoDevice
       => m = n

Eligible(j) == j.account \in Accounts /\ j.device \in Devices /\ Owner[j.device] = j.account

\* The rows of the claiming device in the space of the invite.
RowsOf(j) == InSpace(disk.members, disk.invites[j.invite].space, j.device)

\* The claim has its member.
Admitted(j) ==
  /\ Eligible(j) /\ disk.invites[j.invite] # NoRow
  /\ \E m \in RowsOf(j) : disk.members[m].account = j.account

UsedUp(inv) == inv.state = "claimed" \/ (inv.max # NoLimit /\ inv.count >= inv.max)
TooLate(inv, at) == inv.state = "expired" \/ (inv.expires # Never /\ inv.expires <= at)

\* How often a request has changed the tables, and what follows from it.
Uses(h) ==
  LET j == job[h] IN
  /\ pc[h] = "idle" => commits[h] = 0
  /\ pc[h] # "idle" => j \in Jobs
  /\ pc[h] \notin {"claim.assemble", "answered"} => answer[h] = "none"
  /\ pc[h] = "claim.assemble" =>
       answer[h] \in {"created", "already_active"} /\ Admitted(j)
  /\ pc[h] \in {"claim.reserve", "claim.insert", "claim.commit"} => commits[h] = 0
  /\ j \in ClaimJobs =>
       /\ commits[h] \in {0, 1}
       /\ commits[h] = 1 => Admitted(j)
       /\ answer[h] = "created" => commits[h] = 1

\* What a request has read, as far as it is still so.
Reads(h) ==
  LET j == job[h] IN
  /\ pc[h] \in ClaimBody => Eligible(j) /\ InviteKeeps(seen[h], disk.invites[j.invite])
  /\ pc[h] \in {"claim.reserve", "claim.insert", "claim.commit"} =>
       (seen[h].expires # Never => j.at < seen[h].expires)
  /\ pc[h] = "register.insert" /\ j.device # NoDevice => Owner[j.device] = j.account

\* What the answer to a claim says is so.
Told(h) ==
  LET j == job[h] IN
  pc[h] = "answered" /\ j \in ClaimJobs =>
    /\ answer[h] \in {"created", "already_active"} => Admitted(j)
    /\ answer[h] = "invite_exhausted" =>
         disk.invites[j.invite] # NoRow /\ UsedUp(disk.invites[j.invite])
    /\ answer[h] = "invite_expired" =>
         disk.invites[j.invite] # NoRow /\ TooLate(disk.invites[j.invite], j.at)
    /\ answer[h] = "member_left" =>
         /\ disk.invites[j.invite] # NoRow /\ j.device \in Devices
         /\ \E m \in RowsOf(j) : disk.members[m].state = "left"
    /\ commits[h] = 1 => answer[h] \in {"created", "already_active", "contended", "db_error",
                                         "member_disabled", "member_left"}

Knows(h) == Pending(h) /\ Uses(h) /\ Reads(h) /\ Told(h)

Promises ==
  /\ Proper(disk.members) /\ Proper(cache.members)
  /\ \A h \in Handlers : Knows(h)
-----------------------------------------------------------------------------
USE HandlersAssumption, MembershipAssumption

\* What a handler keeps to itself, and that a step of h leaves that of others alone.
OwnOf(h) == <<pc[h], job[h], attempt[h], seen[h], answer[h], commits[h]>>
OnlyOf(h) == \A q \in Handlers \ {h} : OwnOf(q)' = OwnOf(q)

\* The ways in which a handler may touch the store.
Access(h) ==
  \/ UNCHANGED txVars \/ TxRead(h) \/ TxRollback(h) \/ TxCommit(h)
  \/ \E content : TxWrite(h, content) \/ AutoWrite(h, content)

(***************************************************************************)
(* Tables                                                                  *)
(***************************************************************************)

\* An invite row by its columns.
LEMMA InviteColumns ==
  ASSUME NEW inv \in InviteRow
  PROVE  /\ inv.space \in Spaces /\ inv.max \in Limits /\ inv.count \in Nat
         /\ inv.state \in InviteStates /\ inv.expires \in Times \union {Never}
         /\ inv # NoRow
         /\ inv.max # NoLimit => inv.max \in Nat
  <1>1. /\ inv.space \in Spaces /\ inv.max \in Limits /\ inv.count \in Nat
        /\ inv.state \in InviteStates /\ inv.expires \in Times \union {Never}
    BY DEF InviteRow
  <1>. QED BY <1>1

\* A member row by its columns.
LEMMA MemberColumns ==
  ASSUME NEW row \in MemberRow
  PROVE  /\ row.space \in Spaces /\ row.account \in Accounts
         /\ row.device \in Devices \union {NoDevice} /\ row.state \in MemberStates
         /\ row # NoRow
  <1>1. /\ row.space \in Spaces /\ row.account \in Accounts
        /\ row.device \in Devices \union {NoDevice} /\ row.state \in MemberStates
    BY DEF MemberRow
  <1>. QED BY <1>1

\* An invite that stays as it is is kept.
LEMMA InviteKept ==
  ASSUME NEW inv \in InviteRow
  PROVE  InviteKeeps(inv, inv)
  BY InviteColumns DEF InviteKeeps

\* What is kept twice is kept.
LEMMA InviteKeptOn ==
  ASSUME NEW inv \in InviteRow, NEW new \in InviteRow, NEW newer \in InviteRow,
         InviteKeeps(inv, new), InviteKeeps(new, newer)
  PROVE  InviteKeeps(inv, newer)
  BY InviteColumns DEF InviteKeeps

\* Tables that stay as they are are kept.
LEMMA SameKeeps ==
  ASSUME NEW t \in Tables, NEW u
  PROVE  /\ u.invites = t.invites => InvitesKeep(t, u)
         /\ u.members = t.members => MembersKeep(t, u)
  BY TablesOf, InviteKept DEF InvitesKeep, MembersKeep, MemberKeeps

\* Counting a claim keeps the invites.
LEMMA CountedKeeps ==
  ASSUME NEW t \in Tables, NEW u, NEW i \in Invites, Counted(t, u, i)
  PROVE  InvitesKeep(t, u)
  <1> DEFINE inv == t.invites[i]
             new == Reserved(inv)
  <1>1. inv \in InviteRow /\ t.invites \in [Invites -> InviteRow \union {NoRow}]
    BY TablesOf DEF Counted
  <1>2. new \in InviteRow /\ new.max = inv.max /\ new.count = inv.count + 1
    BY <1>1, ReservedRow
  <1>3. new.space = inv.space /\ new.expires = inv.expires
    BY <1>1 DEF Reserved, InviteRow
  <1>4. inv.state = "active"
    BY DEF Counted, Reservable
  <1>5. InviteKeeps(inv, new)
    BY <1>1, <1>2, <1>3, <1>4, InviteColumns DEF InviteKeeps
  <1> HIDE DEF new
  <1>6. u.invites = [t.invites EXCEPT ![i] = new]
    BY DEF Counted, new
  <1>7. ASSUME NEW k \in Invites, t.invites[k] # NoRow
        PROVE  InviteKeeps(t.invites[k], u.invites[k])
    <2>1. CASE k = i
      BY <1>1, <1>5, <1>6, <2>1
    <2>2. CASE k # i
      BY <1>1, <1>6, <1>7, <2>2, InviteKept
    <2>. QED BY <2>1, <2>2
  <1>. QED BY <1>7 DEF InvitesKeep

\* A new member keeps the members.
LEMMA EnteredKeeps ==
  ASSUME NEW t \in Tables, NEW u, NEW m, NEW row, Entered(t, u, m, row)
  PROVE  MembersKeep(t, u)
  BY TablesOf DEF Entered, MembersKeep, MemberKeeps

\* A legal step of a member keeps who it is, and that it has left.
LEMMA LegalKeeps ==
  ASSUME NEW old \in MemberRow, NEW row \in MemberRow, LegalStep(old, row)
  PROVE  /\ MemberKeeps(old, row)
         /\ old.state \in {"active", "disabled"} /\ row.state # old.state
  <1>1. row = [old EXCEPT !.state = row.state, !.disabled_at = row.disabled_at]
    BY DEF LegalStep
  <1>2. /\ row.space = old.space /\ row.account = old.account
        /\ row.device = old.device /\ row.via = old.via
    BY <1>1 DEF MemberRow
  <1>3. old.state \in {"active", "disabled"} /\ row.state # old.state
    BY DEF LegalStep, AllowedTransition
  <1>. QED BY <1>2, <1>3, MemberColumns DEF MemberKeeps

\* A change of state keeps the members.
LEMMA MovedKeeps ==
  ASSUME NEW t \in Tables, NEW u, NEW m, NEW row, Moved(t, u, m, row)
  PROVE  MembersKeep(t, u)
  <1>1. t.members[m] \in MemberRow /\ row \in MemberRow /\ m \in MemberIds
    BY TablesOf DEF Moved
  <1>2. MemberKeeps(t.members[m], row)
    BY <1>1, LegalKeeps DEF Moved
  <1>3. t.members \in [MemberIds -> MemberRow \union {NoRow}]
    BY TablesOf
  <1>. QED BY <1>1, <1>2, <1>3 DEF Moved, MembersKeep, MemberKeeps

\* A member whose device was not taken leaves the members proper.
LEMMA EnteredProper ==
  ASSUME NEW t \in Tables, NEW u, NEW m, NEW row, Entered(t, u, m, row), Proper(t.members),
         ~DeviceTaken(t.members, row.space, row.device),
         row.device # NoDevice => Owner[row.device] = row.account
  PROVE  Proper(u.members)
  <1>1. t.members \in [MemberIds -> MemberRow \union {NoRow}] /\ m \in MemberIds
    BY TablesOf DEF Entered
  <1>2. \A k \in MemberIds : u.members[k] = IF k = m THEN row ELSE t.members[k]
    BY <1>1 DEF Entered
  <1>3. ASSUME NEW k \in MemberIds, k # m, t.members[k] # NoRow, row.device # NoDevice,
               t.members[k].space = row.space
        PROVE  t.members[k].device # row.device
    BY <1>3 DEF DeviceTaken, InSpace, Present
  <1>. QED BY <1>2, <1>3 DEF Proper

\* A change of state leaves the members proper.
LEMMA MovedProper ==
  ASSUME NEW t \in Tables, NEW u, NEW m, NEW row, Moved(t, u, m, row), Proper(t.members)
  PROVE  Proper(u.members)
  <1>1. t.members \in [MemberIds -> MemberRow \union {NoRow}] /\ m \in MemberIds
    BY TablesOf DEF Moved
  <1>2. t.members[m] # NoRow /\ t.members[m] \in MemberRow /\ row \in MemberRow
    BY <1>1 DEF Moved
  <1>3. MemberKeeps(t.members[m], row)
    BY <1>2, LegalKeeps DEF Moved
  <1>4. \A k \in MemberIds : u.members[k] = IF k = m THEN row ELSE t.members[k]
    BY <1>1 DEF Moved
  <1>5. \A k \in MemberIds :
          u.members[k] # NoRow =>
            /\ t.members[k] # NoRow
            /\ u.members[k].space = t.members[k].space
            /\ u.members[k].device = t.members[k].device
            /\ u.members[k].account = t.members[k].account
    BY <1>2, <1>3, <1>4 DEF MemberKeeps
  <1>. QED BY <1>5 DEF Proper

\* What a writer's cache is ahead by keeps what is on disk.
LEMMA PendingKeeps ==
  ASSUME Shape, NEW h \in Handlers, Pending(h), pc[h] \in {"claim.commit", "update.commit"}
  PROVE  Keeps(disk, cache)
  <1>0. disk \in Tables /\ cache \in Tables
    BY DEF Shape, TypeOK
  <1>1. CASE pc[h] = "claim.commit"
    <2>1. job[h].invite \in Invites
      BY <1>1 DEF Shape, Stages, StageOK, ClaimBody, ClaimJobs
    <2>2. InvitesKeep(disk, cache)
      BY <1>0, <1>1, <2>1, CountedKeeps DEF Pending
    <2>3. MembersKeep(disk, cache)
      BY <1>0, <1>1, EnteredKeeps DEF Pending
    <2>. QED BY <2>2, <2>3 DEF Keeps
  <1>2. CASE pc[h] = "update.commit"
    <2>1. InvitesKeep(disk, cache)
      BY <1>0, <1>2, SameKeeps DEF Pending
    <2>2. MembersKeep(disk, cache)
      BY <1>0, <1>2, MovedKeeps DEF Pending
    <2>. QED BY <2>1, <2>2 DEF Keeps
  <1>. QED BY <1>1, <1>2

(***************************************************************************)
(* What handlers know outlives the steps of others                         *)
(***************************************************************************)

\* A job's rows stay the rows of its device in the space of its invite.
LEMMA RowsKept ==
  ASSUME disk \in Tables, disk' \in Tables, Keeps(disk, disk'), NEW j \in ClaimJobs,
         disk.invites[j.invite] # NoRow
  PROVE  /\ (disk.invites[j.invite])' # NoRow
         /\ InviteKeeps(disk.invites[j.invite], disk'.invites[j.invite])
         /\ \A m \in RowsOf(j) : /\ m \in InSpace(disk'.members, disk'.invites[j.invite].space, j.device)
                                 /\ MemberKeeps(disk.members[m], disk'.members[m])
  <1>1. j.invite \in Invites
    BY DEF ClaimJobs
  <1>2. InviteKeeps(disk.invites[j.invite], disk'.invites[j.invite])
    BY <1>1 DEF Keeps, InvitesKeep
  <1>. QED BY <1>2 DEF InviteKeeps, Keeps, MembersKeep, MemberKeeps, RowsOf, InSpace, Present

\* Who was admitted is so still.
LEMMA AdmittedKept ==
  ASSUME disk \in Tables, disk' \in Tables, Keeps(disk, disk'), NEW j \in ClaimJobs, Admitted(j)
  PROVE  Admitted(j)'
  <1>1. disk.invites[j.invite] # NoRow /\ Eligible(j)
    BY DEF Admitted
  <1>2. PICK m \in RowsOf(j) : disk.members[m].account = j.account
    BY DEF Admitted
  <1>3. /\ (disk.invites[j.invite])' # NoRow
        /\ m \in InSpace(disk'.members, disk'.invites[j.invite].space, j.device)
        /\ MemberKeeps(disk.members[m], disk'.members[m])
    BY <1>1, RowsKept
  <1>. QED BY <1>1, <1>2, <1>3 DEF Admitted, RowsOf, MemberKeeps, Eligible

\* An invite that is used up stays so.
LEMMA UsedUpKept ==
  ASSUME NEW inv \in InviteRow, NEW new \in InviteRow, InviteKeeps(inv, new), UsedUp(inv)
  PROVE  UsedUp(new)
  BY InviteColumns DEF InviteKeeps, UsedUp

\* Moments are numbers: what is not before the expiry is at it or after.
LEMMA TimesOrdered ==
  \A at \in Times, e \in Times \union {Never} : ~(at < e) => e <= at
  <1> SUFFICES ASSUME NEW at \in Times, NEW e \in Times \union {Never}, ~(at < e)
               PROVE  e <= at
    OBVIOUS
  <1>1. at \in Nat /\ e \in Nat
    BY DEF Never
  <1>. QED BY <1>1

\* One that is expired, or was claimed too late, stays so.
LEMMA TooLateKept ==
  ASSUME NEW inv \in InviteRow, NEW new \in InviteRow, InviteKeeps(inv, new), NEW at,
         TooLate(inv, at)
  PROVE  TooLate(new, at)
  BY DEF InviteKeeps, TooLate

\* Nobody else touches the store while a handler has uncommitted rows.
LEMMA WriterAlone ==
  ASSUME Shape, NEW h \in Handlers, Access(h), NEW q \in Handlers, q # h, pc[q] \in Dirty
  PROVE  disk' = disk /\ cache' = cache
  <1>1. writer = q /\ writer # NoHandler /\ writer # h
    BY DEF Shape, Locks
  <1>. QED BY <1>1 DEF Access, txVars, TxRead, TxRollback, TxCommit, TxWrite, AutoWrite,
         CanWrite, CanAutoWrite

\* What a handler knows outlives the steps of others.
LEMMA OtherKnows ==
  ASSUME Shape, Shape', Keeps(disk, disk'), NEW q \in Handlers, Knows(q), OwnOf(q)' = OwnOf(q),
         pc[q] \in Dirty => disk' = disk /\ cache' = cache
  PROVE  Knows(q)'
  <1>0. PICK j : j = job[q]
    OBVIOUS
  <1>1. /\ pc'[q] = pc[q] /\ job[q] = j /\ job'[q] = j /\ seen'[q] = seen[q]
        /\ answer'[q] = answer[q] /\ commits'[q] = commits[q]
    BY <1>0 DEF OwnOf
  <1>2. disk \in Tables /\ disk' \in Tables
    BY DEF Shape, TypeOK
  <1>3. j \in ClaimJobs /\ Admitted(j) => Admitted(j)'
    BY <1>2, AdmittedKept
  <1>4. Pending(q)'
    BY <1>1 DEF Knows, Pending, Dirty
  <1>5. pc[q] = "claim.assemble" => j \in ClaimJobs
    BY <1>1 DEF Shape, Stages, StageOK
  <1>6. Uses(q)'
    BY <1>1, <1>3, <1>5 DEF Knows, Uses
  <1>7. Reads(q)'
    <2>1. ASSUME pc[q] \in ClaimBody
          PROVE  InviteKeeps(seen[q], disk'.invites[j.invite])
      <3>1. j.invite \in Invites /\ disk.invites[j.invite] # NoRow /\ seen[q] \in InviteRow
        BY <1>1, <2>1 DEF Shape, Stages, StageOK, ClaimBody, ClaimJobs
      <3>2. InviteKeeps(disk.invites[j.invite], disk'.invites[j.invite])
        BY <3>1 DEF Keeps, InvitesKeep
      <3>3. disk.invites[j.invite] \in InviteRow /\ disk'.invites[j.invite] \in InviteRow
        BY <1>2, <3>1, <3>2, TablesOf DEF InviteKeeps
      <3>4. InviteKeeps(seen[q], disk.invites[j.invite])
        BY <1>1, <2>1 DEF Knows, Reads
      <3>. QED BY <3>1, <3>2, <3>3, <3>4, InviteKeptOn
    <2>. QED BY <1>1, <2>1 DEF Knows, Reads, Eligible
  <1>8. Told(q)'
    <2> SUFFICES ASSUME pc[q] = "answered", j \in ClaimJobs PROVE Told(q)'
      BY <1>1 DEF Told
    <2>1. j.invite \in Invites
      BY DEF ClaimJobs
    <2>2. ASSUME answer[q] = "invite_exhausted"
          PROVE  (disk.invites[j.invite] # NoRow /\ UsedUp(disk.invites[j.invite]))'
      <3>1. disk.invites[j.invite] # NoRow /\ UsedUp(disk.invites[j.invite])
        BY <1>1, <2>2 DEF Knows, Told
      <3>2. InviteKeeps(disk.invites[j.invite], disk'.invites[j.invite])
        BY <2>1, <3>1 DEF Keeps, InvitesKeep
      <3>3. disk.invites[j.invite] \in InviteRow /\ disk'.invites[j.invite] \in InviteRow
        BY <1>2, <2>1, <3>1, <3>2, TablesOf DEF InviteKeeps
      <3>4. UsedUp(disk'.invites[j.invite]) /\ disk'.invites[j.invite] # NoRow
        BY <3>1, <3>2, <3>3, UsedUpKept DEF InviteKeeps
      <3>. QED BY <3>4 DEF UsedUp
    <2>3. ASSUME answer[q] = "invite_expired"
          PROVE  (disk.invites[j.invite] # NoRow /\ TooLate(disk.invites[j.invite], j.at))'
      <3>1. disk.invites[j.invite] # NoRow /\ TooLate(disk.invites[j.invite], j.at)
        BY <1>1, <2>3 DEF Knows, Told
      <3>2. InviteKeeps(disk.invites[j.invite], disk'.invites[j.invite])
        BY <2>1, <3>1 DEF Keeps, InvitesKeep
      <3>3. disk.invites[j.invite] \in InviteRow /\ disk'.invites[j.invite] \in InviteRow
        BY <1>2, <2>1, <3>1, <3>2, TablesOf DEF InviteKeeps
      <3>4. TooLate(disk'.invites[j.invite], j.at) /\ disk'.invites[j.invite] # NoRow
        BY <3>1, <3>2, <3>3, TooLateKept DEF InviteKeeps
      <3>. QED BY <3>4 DEF TooLate
    <2>4. ASSUME answer[q] = "member_left"
          PROVE  /\ (disk.invites[j.invite] # NoRow)' /\ j.device \in Devices
                 /\ (\E m \in RowsOf(j) : disk.members[m].state = "left")'
      <3>1. disk.invites[j.invite] # NoRow /\ j.device \in Devices
        BY <1>1, <2>4 DEF Knows, Told
      <3>2. PICK m \in RowsOf(j) : disk.members[m].state = "left"
        BY <1>1, <2>4 DEF Knows, Told
      <3>3. /\ (disk.invites[j.invite])' # NoRow
            /\ m \in InSpace(disk'.members, disk'.invites[j.invite].space, j.device)
            /\ MemberKeeps(disk.members[m], disk'.members[m])
        BY <1>2, <3>1, RowsKept
      <3>4. disk'.members[m].state = "left"
        BY <3>2, <3>3 DEF MemberKeeps
      <3>. QED BY <3>1, <3>3, <3>4 DEF RowsOf
    <2>5. answer[q] \in {"created", "already_active"} => Admitted(j)'
      BY <1>1, <1>3 DEF Knows, Told
    <2>6. commits[q] = 1 => answer[q] \in {"created", "already_active", "contended", "db_error",
                                         "member_disabled", "member_left"}
      BY <1>1 DEF Knows, Told
    <2>. QED BY <1>1, <2>2, <2>4, <2>5, <2>6, <2>3 DEF Told
  <1>. QED BY <1>4, <1>6, <1>7, <1>8 DEF Knows

\* Who steps has to see to what it knows itself, and to what is on disk.
LEMMA StepPromises ==
  ASSUME Shape, Shape', Promises, NEW h \in Handlers, Access(h), OnlyOf(h),
         Keeps(disk, disk'), Proper(disk'.members), Proper(cache'.members), Knows(h)'
  PROVE  Promises'
  <1>1. ASSUME NEW q \in Handlers, q # h PROVE Knows(q)'
    BY <1>1, WriterAlone, OtherKnows DEF Promises, OnlyOf
  <1>. QED BY <1>1 DEF Promises

\* The same for a step that writes nothing, and at most takes its rows back.
LEMMA QuietPromises ==
  ASSUME Shape, Shape', Promises, NEW h \in Handlers, Access(h), OnlyOf(h),
         disk' = disk, cache' = cache \/ cache' = disk, Knows(h)'
  PROVE  Promises'
  <1>1. Keeps(disk, disk')
    BY SameKeeps DEF Keeps, Shape, TypeOK
  <1>2. Proper(disk'.members) /\ Proper(cache'.members)
    BY DEF Promises
  <1>. QED BY <1>1, <1>2, StepPromises

(***************************************************************************)
(* Every step keeps the promises                                           *)
(***************************************************************************)

\* A request is of one kind.
LEMMA OneKind ==
  /\ \A j \in ClaimJobs : j.op = "claim"
  /\ \A j \in UpdateJobs : j \notin ClaimJobs /\ j.op = "update"
  /\ \A j \in RegisterJobs : j \notin ClaimJobs
  /\ \A j \in IssueJobs : j \notin ClaimJobs
  BY DEF ClaimJobs, UpdateJobs, RegisterJobs, IssueJobs

\* A further round of the retry loop, or its end.
LEMMA RetryPromises ==
  ASSUME Shape, Shape', Promises, NEW h \in Handlers, Retry(h),
         pc[h] \in {"claim", "claim.assemble", "update", "update.reread"}
                     \union ClaimBody \union UpdateBody
  PROVE  Promises'
  <1>1. /\ TxRollback(h) /\ disk' = disk /\ (cache' = cache \/ cache' = disk)
        /\ job' = job /\ commits' = commits
    BY DEF Retry, TxRollback
  <1>2. OnlyOf(h) /\ Access(h)
    BY <1>1 DEF OnlyOf, OwnOf, Access, Retry, Goto, Shape, TypeOK
  <1>3. job[h] \in ClaimJobs \union UpdateJobs /\ job[h] \in Jobs
    BY DEF Shape, Stages, StageOK, Promises, Knows, Uses, ClaimBody, UpdateBody
  <1>4. \/ pc'[h] = job[h].op /\ answer'[h] = "none"
        \/ pc'[h] = "answered" /\ answer'[h] = "contended"
    BY DEF Retry, Goto, Shape, TypeOK
  <1>5. pc'[h] \in {"claim", "update", "answered"} /\ answer'[h] \in {"none", "contended"}
        /\ (pc'[h] = "answered" => answer'[h] = "contended")
        /\ (pc'[h] # "answered" => answer'[h] = "none")
    BY <1>3, <1>4, OneKind
  <1>6. Pending(h)' /\ Reads(h)'
    BY <1>5 DEF Pending, Reads, ClaimBody
  <1>7. Uses(h)'
    BY <1>1, <1>3, <1>5 DEF Promises, Knows, Uses, Admitted, RowsOf, Eligible
  <1>8. Told(h)'
    BY <1>5 DEF Told
  <1>. QED BY <1>1, <1>2, <1>6, <1>7, <1>8, QuietPromises DEF Knows

\* What may be answered to a claim.
TrueAnswer(h, a) ==
  LET j == job[h] IN
  j \in ClaimJobs =>
    /\ a \in {"created", "already_active"} => Admitted(j)
    /\ a = "created" => commits[h] = 1
    /\ a = "invite_exhausted" =>
         disk.invites[j.invite] # NoRow /\ UsedUp(disk.invites[j.invite])
    /\ a = "invite_expired" =>
         disk.invites[j.invite] # NoRow /\ TooLate(disk.invites[j.invite], j.at)
    /\ a = "member_left" =>
         /\ disk.invites[j.invite] # NoRow /\ j.device \in Devices
         /\ \E m \in RowsOf(j) : disk.members[m].state = "left"
    /\ commits[h] = 1 => a \in {"created", "already_active", "db_error",
                                 "member_disabled", "member_left"}

\* An answer that is true keeps the promises.
LEMMA AnswerPromises ==
  ASSUME Shape, Shape', Promises, NEW h \in Handlers, NEW a, Reply(h, a), Access(h),
         disk' = disk, cache' = cache \/ cache' = disk,
         pc[h] # "idle", TrueAnswer(h, a)
  PROVE  Promises'
  <1>1. /\ pc'[h] = "answered" /\ answer'[h] = a /\ job'[h] = job[h] /\ commits'[h] = commits[h]
        /\ OnlyOf(h)
    BY DEF Reply, Goto, Shape, TypeOK, OnlyOf, OwnOf
  <1>2. Pending(h)' /\ Reads(h)'
    BY <1>1 DEF Pending, Reads, ClaimBody
  <1>3. Uses(h)'
    BY <1>1 DEF Promises, Knows, Uses, TrueAnswer, Admitted, RowsOf, Eligible
  <1>4. Told(h)'
    BY <1>1 DEF Told, TrueAnswer, Admitted, RowsOf, Eligible
  <1>. QED BY <1>1, <1>2, <1>3, <1>4, QuietPromises DEF Knows

\* So does a refusal that is true.
LEMMA RefusePromises ==
  ASSUME Shape, Shape', Promises, NEW h \in Handlers, NEW a, Refuse(h, a),
         pc[h] # "idle", TrueAnswer(h, a)
  PROVE  Promises'
  <1>1. /\ Reply(h, a) /\ Access(h) /\ disk' = disk /\ (cache' = cache \/ cache' = disk)
    BY DEF Refuse, TxRollback, Access
  <1>. QED BY <1>1, AnswerPromises

\* So does giving up, which says nothing of the tables.
LEMMA GiveUpPromises ==
  ASSUME Shape, Shape', Promises, NEW h \in Handlers, GiveUp(h), pc[h] # "idle"
  PROVE  Promises'
  <1>1. TrueAnswer(h, "db_error")
    BY DEF TrueAnswer
  <1>. QED BY <1>1, RefusePromises DEF GiveUp

\* An account and a device pass the check exactly if the device is the account's.
LEMMA EligibleOk ==
  ASSUME NEW a, NEW d
  PROVE  /\ AccountDeviceError(a, d) = "ok" /\ d \in Devices =>
              a \in Accounts /\ Owner[d] = a
         /\ a \in Accounts /\ d \in Devices /\ Owner[d] = a => AccountDeviceError(a, d) = "ok"
         /\ AccountDeviceError(a, d) \in AccountErrors \union {"ok"}
  BY DEF AccountDeviceError, AccountErrors

\* Reading the invite: a claim that has its member is not refused here.
LEMMA ClaimReadInvitePromises ==
  ASSUME Shape, Shape', Promises, NEW h \in Handlers, ClaimReadInvite(h) PROVE Promises'
  <1> DEFINE j == job[h]
             inv == disk.invites[j.invite]
             bad == AccountDeviceError(j.account, j.device)
  <1>0. /\ pc[h] = "claim" /\ j \in ClaimJobs /\ j.invite \in Invites
        /\ inv \in InviteRow \union {NoRow}
    BY TablesOf DEF ClaimReadInvite, Shape, TypeOK, Stages, StageOK, ClaimJobs
  <1>1. commits[h] = 1 => bad = "ok" /\ inv # NoRow
    BY <1>0, EligibleOk DEF Promises, Knows, Uses, Admitted, Eligible
  <1>2. CASE Retry(h)
    BY <1>0, <1>2, RetryPromises
  <1>3. CASE bad # "ok" /\ Refuse(h, bad)
    <2>1. bad \in AccountErrors
      BY <1>3, EligibleOk
    <2>2. TrueAnswer(h, bad)
      BY <1>1, <1>3, <2>1 DEF TrueAnswer, AccountErrors
    <2>. QED BY <1>0, <1>3, <2>2, RefusePromises
  <1>4. CASE inv = NoRow /\ Refuse(h, "invite_not_found")
    <2>1. TrueAnswer(h, "invite_not_found")
      BY <1>1, <1>4 DEF TrueAnswer
    <2>. QED BY <1>0, <1>4, <2>1, RefusePromises
  <1>5. CASE /\ bad = "ok" /\ inv # NoRow
             /\ TxRead(h)
             /\ seen' = [seen EXCEPT ![h] = inv]
             /\ Goto(h, "claim.member")
             /\ UNCHANGED <<job, attempt, answer, commits>>
    <2>1. Eligible(j)
      BY <1>0, <1>5, EligibleOk, AccountDeviceOk DEF Eligible, ClaimJobs
    <2>2. /\ disk' = disk /\ cache' = cache /\ Access(h) /\ OnlyOf(h)
          /\ pc'[h] = "claim.member" /\ job' = job /\ seen'[h] = inv
          /\ answer' = answer /\ commits' = commits
      BY <1>5 DEF TxRead, Access, OnlyOf, OwnOf, Goto, Shape, TypeOK
    <2>3. InviteKeeps(inv, inv)
      BY <1>0, <1>5, InviteKept
    <2>4. Pending(h)' /\ Told(h)'
      BY <2>2 DEF Pending, Told
    <2>5. Reads(h)'
      BY <2>1, <2>2, <2>3 DEF Reads, Eligible
    <2>6. Uses(h)'
      BY <1>0, <2>2 DEF Promises, Knows, Uses, Admitted, RowsOf, Eligible
    <2>. QED BY <2>2, <2>4, <2>5, <2>6, QuietPromises DEF Knows
  <1>. QED BY <1>0, <1>2, <1>3, <1>4, <1>5, GiveUpPromises DEF ClaimReadInvite

\* Looking for the member: who finds one finds the claiming account's own.
LEMMA ClaimReadMemberPromises ==
  ASSUME Shape, Shape', Promises, NEW h \in Handlers, ClaimReadMember(h) PROVE Promises'
  <1> DEFINE j == job[h]
             inv == disk.invites[j.invite]
             found == InSpace(disk.members, seen[h].space, j.device)
             refusal == ClaimError(seen[h], j.at)
  <1>0. /\ pc[h] = "claim.member" /\ j \in ClaimJobs /\ j.invite \in Invites
        /\ inv \in InviteRow /\ inv # NoRow /\ seen[h] \in InviteRow
    BY TablesOf DEF ClaimReadMember, Shape, TypeOK, Stages, StageOK, ClaimJobs, ClaimBody
  <1>1. Eligible(j) /\ InviteKeeps(seen[h], inv)
    BY <1>0 DEF Promises, Knows, Reads, ClaimBody
  <1>2. found = RowsOf(j)
    BY <1>1 DEF RowsOf, InviteKeeps
  <1>3. \A m \in found : disk.members[m].account = j.account
    BY <1>1 DEF Promises, Proper, InSpace, Present, Eligible
  <1>4. commits[h] = 1 => found # {}
    BY <1>0, <1>2 DEF Promises, Knows, Uses, Admitted
  <1>5. CASE Retry(h)
    BY <1>0, <1>5, RetryPromises DEF ClaimBody
  <1>6. CASE \E m \in found : RejoinError(disk.members[m], j.account) # "ok"
                              /\ Refuse(h, RejoinError(disk.members[m], j.account))
    <2>1. PICK m \in found : RejoinError(disk.members[m], j.account) # "ok"
                             /\ Refuse(h, RejoinError(disk.members[m], j.account))
      BY <1>6
    <2> DEFINE bad == RejoinError(disk.members[m], j.account)
    <2>2. bad \in {"member_disabled", "member_left"}
          /\ (bad = "member_left" => disk.members[m].state = "left")
      BY <1>3, <2>1 DEF RejoinError
    <2> HIDE DEF bad
    <2>3. TrueAnswer(h, bad)
      BY <1>0, <1>1, <1>2, <2>2 DEF TrueAnswer, Eligible
    <2>. QED BY <1>0, <2>1, <2>3, RefusePromises DEF bad
  <1>7. CASE /\ found # {}
             /\ TxRollback(h)
             /\ answer' = [answer EXCEPT ![h] = "already_active"]
             /\ seen' = [seen EXCEPT ![h] = NoRow]
             /\ Goto(h, "claim.assemble")
             /\ UNCHANGED <<job, attempt, commits>>
    <2>1. Admitted(j)
      BY <1>0, <1>1, <1>2, <1>3, <1>7 DEF Admitted
    <2>2. /\ disk' = disk /\ (cache' = cache \/ cache' = disk) /\ Access(h) /\ OnlyOf(h)
          /\ pc'[h] = "claim.assemble" /\ job' = job
          /\ answer'[h] = "already_active" /\ commits' = commits
      BY <1>7 DEF TxRollback, Access, OnlyOf, OwnOf, Goto, Shape, TypeOK
    <2>3. Pending(h)' /\ Told(h)' /\ Reads(h)'
      BY <2>2 DEF Pending, Told, Reads, ClaimBody
    <2>4. Uses(h)'
      BY <1>0, <2>1, <2>2 DEF Promises, Knows, Uses, Admitted, RowsOf, Eligible
    <2>. QED BY <2>2, <2>3, <2>4, QuietPromises DEF Knows
  <1>8. CASE found = {} /\ Refuse(h, refusal) /\ refusal # "ok"
    <2>1. refusal \in InviteErrors
          /\ (refusal = "invite_exhausted" => UsedUp(seen[h]))
          /\ (refusal = "invite_expired" => TooLate(seen[h], j.at))
      <3>1. j.at \in Times /\ seen[h].expires \in Times \union {Never}
        BY <1>0, InviteColumns DEF ClaimJobs
      <3>2. refusal \in InviteErrors /\ (refusal = "invite_exhausted" => UsedUp(seen[h]))
        BY <1>8 DEF ClaimError, UsedUp, InviteErrors
      <3>3. refusal = "invite_expired" =>
              seen[h].state = "expired" \/ (seen[h].expires # Never /\ ~(j.at < seen[h].expires))
        BY DEF ClaimError
      <3>4. ~(j.at < seen[h].expires) => seen[h].expires <= j.at
        BY <3>1, TimesOrdered
      <3>. QED BY <3>2, <3>3, <3>4 DEF TooLate
    <2>2. /\ refusal = "invite_exhausted" => UsedUp(inv)
          /\ refusal = "invite_expired" => TooLate(inv, j.at)
      BY <1>0, <1>1, <2>1, UsedUpKept, TooLateKept
    <2> HIDE DEF refusal
    <2>3. TrueAnswer(h, refusal)
      BY <1>0, <1>4, <1>8, <2>1, <2>2 DEF TrueAnswer, InviteErrors
    <2>. QED BY <1>0, <1>8, <2>3, RefusePromises
  <1>9. CASE /\ found = {} /\ refusal = "ok"
             /\ TxRead(h)
             /\ Goto(h, "claim.reserve")
             /\ UNCHANGED <<job, attempt, seen, answer, commits>>
    <2>1. /\ disk' = disk /\ cache' = cache /\ Access(h) /\ OnlyOf(h)
          /\ pc'[h] = "claim.reserve" /\ job' = job /\ seen' = seen
          /\ answer' = answer /\ commits' = commits
      BY <1>9 DEF TxRead, Access, OnlyOf, OwnOf, Goto, Shape, TypeOK
    <2>2. Pending(h)' /\ Told(h)'
      BY <2>1 DEF Pending, Told
    <2>3. seen[h].expires # Never => j.at < seen[h].expires
      BY <1>0, <1>9, InviteColumns DEF ClaimError, InviteStates
    <2>4. Reads(h)'
      BY <1>1, <2>1, <2>3 DEF Reads, Eligible
    <2>5. Uses(h)'
      BY <1>0, <1>4, <1>9, <2>1 DEF Promises, Knows, Uses
    <2>. QED BY <2>1, <2>2, <2>4, <2>5, QuietPromises DEF Knows
  <1>. QED BY <1>0, <1>5, <1>6, <1>7, <1>8, <1>9, GiveUpPromises DEF ClaimReadMember

\* The reservation: the cache is ahead by one counted claim.
LEMMA ClaimReservePromises ==
  ASSUME Shape, Shape', Promises, NEW h \in Handlers, ClaimReserve(h) PROVE Promises'
  <1> DEFINE j == job[h]
             inv == cache.invites[j.invite]
             next == [cache EXCEPT !.invites[j.invite] = Reserved(inv)]
  <1>0. /\ pc[h] = "claim.reserve" /\ j \in ClaimJobs /\ j.invite \in Invites
        /\ disk.invites[j.invite] # NoRow /\ disk \in Tables /\ cache \in Tables
    BY DEF ClaimReserve, Shape, TypeOK, Stages, StageOK, ClaimJobs, ClaimBody
  <1>1. CASE Retry(h)
    BY <1>0, <1>1, RetryPromises DEF ClaimBody
  <1>2. CASE /\ Reservable(inv, seen[h].count)
             /\ TxWrite(h, next)
             /\ Goto(h, "claim.insert")
             /\ UNCHANGED <<job, attempt, seen, answer, commits>>
    <2>1. cache = disk
      BY <1>0, <1>2 DEF Shape, Locks, TxWrite, CanWrite, Dirty
    <2>2. inv \in InviteRow /\ Reserved(inv) \in InviteRow
      BY <1>0, <2>1, TablesOf, ReservedRow
    <2>3. next.members = cache.members
          /\ next.invites = [cache.invites EXCEPT ![j.invite] = Reserved(inv)]
      BY <1>0, <2>2, InviteUpdated
    <2>4. /\ disk' = disk /\ cache' = next /\ Access(h) /\ OnlyOf(h)
          /\ pc'[h] = "claim.insert" /\ job' = job /\ seen' = seen
          /\ answer' = answer /\ commits' = commits
      BY <1>2 DEF TxWrite, Access, OnlyOf, OwnOf, Goto, Shape, TypeOK
    <2> HIDE DEF next
    <2>5. Counted(disk, cache', j.invite) /\ cache'.members = disk.members
      BY <1>0, <1>2, <2>1, <2>3, <2>4 DEF Counted, Reservable
    <2>6. Pending(h)' /\ Told(h)'
      BY <2>4, <2>5 DEF Pending, Told
    <2>7. Reads(h)'
      BY <1>0, <2>4 DEF Promises, Knows, Reads, Eligible, ClaimBody
    <2>8. Uses(h)'
      BY <1>0, <2>4 DEF Promises, Knows, Uses, Admitted, RowsOf, Eligible
    <2>9. Keeps(disk, disk') /\ Proper(disk'.members) /\ Proper(cache'.members)
      BY <1>0, <2>4, <2>5, SameKeeps DEF Keeps, Promises
    <2>. QED BY <2>4, <2>6, <2>7, <2>8, <2>9, StepPromises DEF Knows
  <1>. QED BY <1>0, <1>1, <1>2, GiveUpPromises DEF ClaimReserve

\* The INSERT of a claim: a fresh row, of a device that was not taken.
LEMMA ClaimInsertPromises ==
  ASSUME Shape, Shape', Promises, NEW h \in Handlers, ClaimInsert(h) PROVE Promises'
  <1> DEFINE j == job[h]
             m == CHOOSE id \in FreeIds(cache.members) : TRUE
             row == ClaimedRow(j, seen[h].space)
             next == [cache EXCEPT !.members[m] = row]
  <1>0. /\ pc[h] = "claim.insert" /\ j \in ClaimJobs /\ disk \in Tables /\ cache \in Tables
        /\ seen[h] \in InviteRow
    BY DEF ClaimInsert, Shape, TypeOK, Stages, StageOK, ClaimBody
  <1>1. CASE Retry(h)
    BY <1>0, <1>1, RetryPromises DEF ClaimBody
  <1>2. CASE /\ ~DeviceTaken(cache.members, seen[h].space, j.device)
             /\ FreeIds(cache.members) # {}
             /\ TxWrite(h, next)
             /\ Goto(h, "claim.commit")
             /\ UNCHANGED <<job, attempt, seen, answer, commits>>
    <2>1. /\ Eligible(j) /\ Counted(disk, cache, j.invite) /\ cache.members = disk.members
      BY <1>0 DEF Promises, Knows, Reads, Pending, ClaimBody
    <2>2. row \in MemberRow
      BY <1>0, <2>1 DEF Eligible, ClaimedRow, ClaimJobs, MemberRow, MemberStates, InviteRow
    <2>3. row.space = seen[h].space /\ row.device = j.device /\ row.account = j.account
      BY DEF ClaimedRow
    <2>4. m \in MemberIds /\ cache.members[m] = NoRow
      BY <1>2 DEF FreeIds, Present
    <2>5. /\ disk' = disk /\ cache' = next /\ Access(h) /\ OnlyOf(h)
          /\ pc'[h] = "claim.commit" /\ job' = job /\ seen' = seen
          /\ answer' = answer /\ commits' = commits
      BY <1>2 DEF TxWrite, Access, OnlyOf, OwnOf, Goto, Shape, TypeOK
    <2> HIDE DEF m
    <2>6. next.invites = cache.invites /\ next.members = [cache.members EXCEPT ![m] = row]
      BY <1>0, <2>2, <2>4, MemberUpdated
    <2> HIDE DEF next
    <2>7. Entered(cache, cache', m, row) /\ Entered(disk, cache', m, row)
          /\ Counted(disk, cache', j.invite)
      BY <2>1, <2>2, <2>4, <2>5, <2>6 DEF Entered, Counted
    <2>8. Proper(cache'.members)
      BY <1>0, <1>2, <2>1, <2>3, <2>7, EnteredProper DEF Promises, Eligible
    <2>9. Pending(h)' /\ Told(h)'
      BY <2>4, <2>5, <2>7 DEF Pending, Told
    <2>10. Reads(h)'
      BY <1>0, <2>5 DEF Promises, Knows, Reads, Eligible, ClaimBody
    <2>11. Uses(h)'
      BY <1>0, <2>5 DEF Promises, Knows, Uses, Admitted, RowsOf, Eligible
    <2>12. Keeps(disk, disk') /\ Proper(disk'.members)
      BY <1>0, <2>5, SameKeeps DEF Keeps, Promises
    <2>. QED BY <2>5, <2>8, <2>9, <2>10, <2>11, <2>12, StepPromises DEF Knows
  <1>. QED BY <1>0, <1>1, <1>2, GiveUpPromises DEF ClaimInsert, ClaimedRow

\* The commit of a claim: counted once, and its member is there.
LEMMA ClaimCommitPromises ==
  ASSUME Shape, Shape', Promises, NEW h \in Handlers, ClaimCommit(h) PROVE Promises'
  <1>0. PICK j : j = job[h]
    OBVIOUS
  <1>1. /\ pc[h] = "claim.commit" /\ j \in ClaimJobs /\ j.invite \in Invites
        /\ seen[h] \in InviteRow /\ disk.invites[j.invite] # NoRow
    BY <1>0 DEF ClaimCommit, Shape, Stages, StageOK, ClaimBody, ClaimJobs
  <1>2. CASE Retry(h)
    BY <1>1, <1>2, RetryPromises DEF ClaimBody
  <1>3. CASE /\ TxCommit(h)
             /\ commits' = [commits EXCEPT ![h] = @ + 1]
             /\ answer' = [answer EXCEPT ![h] = "created"]
             /\ seen' = [seen EXCEPT ![h] = NoRow]
             /\ Goto(h, "claim.assemble")
             /\ UNCHANGED <<job, attempt>>
    <2>1. Keeps(disk, cache)
      BY <1>1, PendingKeeps DEF Promises, Knows
    <2>2. /\ disk' = cache /\ cache' = cache /\ Access(h) /\ OnlyOf(h)
          /\ pc'[h] = "claim.assemble" /\ job'[h] = j
          /\ answer'[h] = "created" /\ commits'[h] = commits[h] + 1
      BY <1>0, <1>3 DEF TxCommit, Access, OnlyOf, OwnOf, Goto, Shape, TypeOK
    <2>3. commits[h] = 0 /\ Eligible(j) /\ InviteKeeps(seen[h], disk.invites[j.invite])
          /\ j \in Jobs
      BY <1>0, <1>1 DEF Promises, Knows, Uses, Reads, ClaimBody
    <2>4. PICK m \in MemberIds : Entered(disk, cache, m, ClaimedRow(j, seen[h].space))
      BY <1>0, <1>1 DEF Promises, Knows, Pending
    <2>5. /\ cache.members[m] = ClaimedRow(j, seen[h].space)
          /\ cache.members[m] \in MemberRow
      BY <2>4 DEF Entered, Shape, TypeOK, Tables
    <2>6. cache.invites[j.invite] # NoRow /\ cache.invites[j.invite].space = seen[h].space
      BY <1>1, <2>1, <2>3 DEF Keeps, InvitesKeep, InviteKeeps
    <2>7. m \in InSpace(cache.members, cache.invites[j.invite].space, j.device)
          /\ cache.members[m].account = j.account
      BY <2>4, <2>5, <2>6 DEF InSpace, Present, ClaimedRow
    <2>8. Admitted(j)'
      BY <2>2, <2>3, <2>6, <2>7 DEF Admitted, Eligible, RowsOf
    <2>9. Pending(h)' /\ Told(h)' /\ Reads(h)'
      BY <2>2 DEF Pending, Told, Reads, ClaimBody
    <2>10. Uses(h)'
      BY <2>2, <2>3, <2>8 DEF Uses
    <2>11. Keeps(disk, disk') /\ Proper(disk'.members) /\ Proper(cache'.members)
      BY <2>1, <2>2 DEF Promises
    <2>. QED BY <2>2, <2>9, <2>10, <2>11, StepPromises DEF Knows
  <1>. QED BY <1>1, <1>2, <1>3, GiveUpPromises DEF ClaimCommit

\* Assembling the result of a claim answers what it found.
LEMMA ClaimAssemblePromises ==
  ASSUME Shape, Shape', Promises, NEW h \in Handlers, ClaimAssemble(h) PROVE Promises'
  <1>0. pc[h] = "claim.assemble" /\ job[h] \in ClaimJobs
    BY DEF ClaimAssemble, Shape, Stages, StageOK
  <1>1. CASE Retry(h)
    BY <1>0, <1>1, RetryPromises
  <1>2. CASE UNCHANGED txVars /\ Reply(h, answer[h])
    <2>1. TrueAnswer(h, answer[h])
      BY <1>0 DEF Promises, Knows, Uses, TrueAnswer
    <2>2. Access(h) /\ disk' = disk /\ cache' = cache
      BY <1>2 DEF Access, txVars
    <2>. QED BY <1>0, <1>2, <2>1, <2>2, AnswerPromises
  <1>. QED BY <1>0, <1>1, <1>2, GiveUpPromises DEF ClaimAssemble

\* The read of a transition.
LEMMA UpdateReadPromises ==
  ASSUME Shape, Shape', Promises, NEW h \in Handlers, UpdateRead(h) PROVE Promises'
  <1>0. pc[h] = "update" /\ job[h] \notin ClaimJobs
    BY OneKind DEF UpdateRead, Shape, Stages, StageOK
  <1>1. CASE Retry(h)
    BY <1>0, <1>1, RetryPromises
  <1>2. CASE \E a : Refuse(h, a)
    BY <1>0, <1>2, RefusePromises DEF TrueAnswer
  <1>3. CASE TxRead(h) /\ Goto(h, "update.write")
             /\ seen' = [seen EXCEPT ![h] = disk.members[job[h].member]]
             /\ UNCHANGED <<job, attempt, answer, commits>>
    <2>1. /\ disk' = disk /\ cache' = cache /\ Access(h) /\ OnlyOf(h)
          /\ pc'[h] = "update.write" /\ job' = job /\ answer' = answer /\ commits' = commits
      BY <1>3 DEF TxRead, Access, OnlyOf, OwnOf, Goto, Shape, TypeOK
    <2>2. Knows(h)'
      BY <1>0, <2>1 DEF Promises, Knows, Pending, Uses, Reads, Told, ClaimBody
    <2>. QED BY <2>1, <2>2, QuietPromises
  <1>. QED BY <1>0, <1>1, <1>2, <1>3, GiveUpPromises DEF UpdateRead

\* The UPDATE of a transition: the cache is ahead by one legal step.
LEMMA UpdateWritePromises ==
  ASSUME Shape, Shape', Evolution, Promises, NEW h \in Handlers, UpdateWrite(h) PROVE Promises'
  <1> DEFINE j == job[h]
             row == cache.members[j.member]
             new == WithState(row, j.target, j.at)
             next == [cache EXCEPT !.members[j.member] = new]
  <1>0. /\ pc[h] = "update.write" /\ j \in UpdateJobs /\ j.member \in MemberIds
        /\ row \in MemberRow /\ row # NoRow /\ disk \in Tables /\ cache \in Tables
    BY TablesOf DEF UpdateWrite, Shape, TypeOK, Stages, StageOK, Locks, UpdateBody, UpdateJobs
  <1>1. CASE Retry(h)
    BY <1>0, <1>1, RetryPromises DEF UpdateBody
  <1>2. CASE /\ SameRow(row, seen[h])
             /\ TxWrite(h, next)
             /\ Goto(h, "update.commit")
             /\ UNCHANGED <<job, attempt, seen, answer, commits>>
    <2>1. new \in MemberRow
      BY <1>0, WithStateRow DEF UpdateJobs
    <2>2. LegalStep(row, new)
      BY <1>0, <1>2, WithStateLegal DEF Evolution, UpdateJobs
    <2>3. cache = disk
      BY <1>0, <1>2 DEF Shape, Locks, TxWrite, CanWrite, Dirty
    <2>4. /\ disk' = disk /\ cache' = next /\ Access(h) /\ OnlyOf(h)
          /\ pc'[h] = "update.commit" /\ job' = job /\ answer' = answer /\ commits' = commits
      BY <1>2 DEF TxWrite, Access, OnlyOf, OwnOf, Goto, Shape, TypeOK
    <2> HIDE DEF new
    <2>5. next.invites = cache.invites
          /\ next.members = [cache.members EXCEPT ![j.member] = new]
      BY <1>0, <2>1, MemberUpdated
    <2> HIDE DEF next
    <2>6. Moved(disk, cache', j.member, new)
      BY <1>0, <2>1, <2>2, <2>3, <2>4, <2>5 DEF Moved
    <2>7. Proper(cache'.members)
      BY <1>0, <2>6, MovedProper DEF Promises
    <2>8. Pending(h)'
      BY <2>1, <2>3, <2>4, <2>5, <2>6 DEF Pending
    <2>9. Uses(h)' /\ Reads(h)' /\ Told(h)'
      BY <1>0, <2>4, OneKind DEF Promises, Knows, Uses, Reads, Told, ClaimBody
    <2>10. Keeps(disk, disk') /\ Proper(disk'.members)
      BY <1>0, <2>4, SameKeeps DEF Keeps, Promises
    <2>. QED BY <2>4, <2>7, <2>8, <2>9, <2>10, StepPromises DEF Knows
  <1>. QED BY <1>0, <1>1, <1>2, GiveUpPromises DEF UpdateWrite

\* The commit of a transition, and the read after it.
LEMMA UpdateEndPromises ==
  ASSUME Shape, Shape', Promises, NEW h \in Handlers, UpdateCommit(h) \/ UpdateReread(h)
  PROVE  Promises'
  <1>0. pc[h] \in {"update.commit", "update.reread"} /\ job[h] \notin ClaimJobs
    BY OneKind DEF UpdateCommit, UpdateReread, Shape, Stages, StageOK, UpdateBody
  <1>1. CASE Retry(h)
    BY <1>0, <1>1, RetryPromises DEF UpdateBody
  <1>2. CASE UNCHANGED txVars /\ Reply(h, "transitioned")
    <2>1. Access(h) /\ disk' = disk /\ cache' = cache
      BY <1>2 DEF Access, txVars
    <2>. QED BY <1>0, <1>2, <2>1, AnswerPromises DEF TrueAnswer
  <1>3. CASE /\ pc[h] = "update.commit" /\ TxCommit(h)
             /\ commits' = [commits EXCEPT ![h] = @ + 1]
             /\ seen' = [seen EXCEPT ![h] = NoRow]
             /\ Goto(h, "update.reread")
             /\ UNCHANGED <<job, attempt, answer>>
    <2>1. Keeps(disk, cache)
      BY <1>3, PendingKeeps DEF Promises, Knows
    <2>2. /\ disk' = cache /\ cache' = cache /\ Access(h) /\ OnlyOf(h)
          /\ pc'[h] = "update.reread" /\ job' = job /\ answer' = answer
      BY <1>3 DEF TxCommit, Access, OnlyOf, OwnOf, Goto, Shape, TypeOK
    <2>3. Knows(h)'
      BY <1>0, <1>3, <2>2 DEF Promises, Knows, Pending, Uses, Reads, Told, ClaimBody
    <2>. QED BY <2>1, <2>2, <2>3, StepPromises DEF Promises
  <1>. QED BY <1>0, <1>1, <1>2, <1>3, GiveUpPromises DEF UpdateCommit, UpdateReread

\* The checks of a registration and of a new invite, and the reads after them.
LEMMA LonePromises ==
  ASSUME Shape, Shape', Promises, NEW h \in Handlers,
         RegisterCheck(h) \/ RegisterReread(h) \/ IssueCheck(h) \/ IssueReread(h)
  PROVE  Promises'
  <1>0. /\ pc[h] \in {"register.check", "register.reread", "issue.check", "issue.reread"}
        /\ job[h] \notin ClaimJobs /\ Access(h) /\ disk' = disk /\ cache' = cache
    BY OneKind DEF RegisterCheck, RegisterReread, IssueCheck, IssueReread, Shape, Stages, StageOK,
       Access, txVars
  <1>1. CASE \E a : Reply(h, a)
    BY <1>0, <1>1, AnswerPromises DEF TrueAnswer
  <1>2. CASE /\ pc[h] = "register.check" /\ AccountDeviceError(job[h].account, job[h].device) = "ok"
             /\ Goto(h, "register.insert")
             /\ UNCHANGED <<job, attempt, seen, answer, commits>>
    <2>1. /\ OnlyOf(h) /\ pc'[h] = "register.insert" /\ job' = job
          /\ answer' = answer /\ commits' = commits
      BY <1>2 DEF OnlyOf, OwnOf, Goto, Shape, TypeOK
    <2>2. job[h].device # NoDevice => Owner[job[h].device] = job[h].account
      BY <1>2, EligibleOk, AccountDeviceOk
    <2>3. Knows(h)'
      BY <1>0, <2>1, <2>2 DEF Promises, Knows, Pending, Uses, Reads, Told, ClaimBody
    <2>. QED BY <1>0, <2>1, <2>3, QuietPromises
  <1>3. CASE /\ pc[h] = "issue.check" /\ Goto(h, "issue.insert")
             /\ UNCHANGED <<job, attempt, seen, answer, commits>>
    <2>1. /\ OnlyOf(h) /\ pc'[h] = "issue.insert" /\ job' = job
          /\ answer' = answer /\ commits' = commits
      BY <1>3 DEF OnlyOf, OwnOf, Goto, Shape, TypeOK
    <2>2. Knows(h)'
      BY <1>0, <2>1 DEF Promises, Knows, Pending, Uses, Reads, Told, ClaimBody
    <2>. QED BY <1>0, <2>1, <2>2, QuietPromises
  <1>. QED BY <1>1, <1>2, <1>3 DEF RegisterCheck, RegisterReread, IssueCheck, IssueReread

\* What a registration adds to the tables.
Registers(h) ==
  LET j == job[h] IN
  /\ ~DeviceTaken(disk.members, j.space, j.device)
  /\ disk'.invites = disk.invites
  /\ \E m \in MemberIds :
       Entered(disk, disk', m, [space |-> j.space, account |-> j.account, device |-> j.device,
                                state |-> j.state, disabled_at |-> Never, via |-> NoRow])

\* The INSERT of a registration adds one fresh row, if it writes at all.
LEMMA RegisterInsertAdds ==
  ASSUME Shape, NEW h \in Handlers, RegisterInsert(h)
  PROVE  \/ DbError(h)
         \/ /\ Registers(h) /\ cache' = disk'
            /\ \E content : AutoWrite(h, content)
            /\ commits' = [commits EXCEPT ![h] = @ + 1]
            /\ Goto(h, "register.reread")
            /\ UNCHANGED <<job, attempt, seen, answer>>
  <1> DEFINE j == job[h]
             m == CHOOSE id \in FreeIds(disk.members) : TRUE
             row == [space |-> j.space, account |-> j.account, device |-> j.device,
                     state |-> j.state, disabled_at |-> Never, via |-> NoRow]
             next == [disk EXCEPT !.members[m] = row]
  <1>0. pc[h] = "register.insert" /\ j \in RegisterJobs /\ disk \in Tables
    BY DEF RegisterInsert, Shape, TypeOK, Stages, StageOK
  <1>1. CASE DbError(h)
    BY <1>1
  <1>2. CASE /\ ~DeviceTaken(disk.members, j.space, j.device)
             /\ FreeIds(disk.members) # {}
             /\ AutoWrite(h, next)
             /\ commits' = [commits EXCEPT ![h] = @ + 1]
             /\ Goto(h, "register.reread")
             /\ UNCHANGED <<job, attempt, seen, answer>>
    <2>1. row \in MemberRow
      BY <1>0 DEF Shape, Stages, StageOK, RegisterJobs, MemberRow
    <2>2. m \in MemberIds /\ disk.members[m] = NoRow
      BY <1>2 DEF FreeIds, Present
    <2>3. disk' = next /\ cache' = disk'
      BY <1>2 DEF AutoWrite
    <2> HIDE DEF m
    <2>4. next.invites = disk.invites /\ next.members = [disk.members EXCEPT ![m] = row]
      BY <1>0, <2>1, <2>2, MemberUpdated
    <2> HIDE DEF next
    <2>5. Registers(h)
      BY <1>2, <2>1, <2>2, <2>3, <2>4 DEF Registers, Entered
    <2>. QED BY <1>2, <2>3, <2>5
  <1>. QED BY <1>1, <1>2 DEF RegisterInsert

\* The INSERT of a registration keeps the promises.
LEMMA RegisterInsertPromises ==
  ASSUME Shape, Shape', Promises, NEW h \in Handlers, RegisterInsert(h) PROVE Promises'
  <1> DEFINE j == job[h]
             row == [space |-> j.space, account |-> j.account, device |-> j.device,
                     state |-> j.state, disabled_at |-> Never, via |-> NoRow]
  <1>0. /\ pc[h] = "register.insert" /\ j \notin ClaimJobs /\ disk \in Tables
        /\ (j.device # NoDevice => Owner[j.device] = j.account)
    BY OneKind DEF RegisterInsert, Shape, TypeOK, Stages, StageOK, Promises, Knows, Reads
  <1>1. CASE DbError(h)
    <2>1. Access(h) /\ disk' = disk /\ cache' = cache
      BY <1>1 DEF DbError, Access, txVars
    <2>. QED BY <1>0, <1>1, <2>1, AnswerPromises DEF TrueAnswer, DbError
  <1>2. CASE /\ Registers(h) /\ cache' = disk'
             /\ \E content : AutoWrite(h, content)
             /\ commits' = [commits EXCEPT ![h] = @ + 1]
             /\ Goto(h, "register.reread")
             /\ UNCHANGED <<job, attempt, seen, answer>>
    <2>1. PICK m \in MemberIds : Entered(disk, disk', m, row)
      BY <1>2 DEF Registers
    <2>2. ~DeviceTaken(disk.members, row.space, row.device) /\ disk'.invites = disk.invites
          /\ row.device = j.device /\ row.account = j.account
      BY <1>2 DEF Registers
    <2> HIDE DEF row
    <2>3. Keeps(disk, disk')
      BY <1>0, <2>1, <2>2, EnteredKeeps, SameKeeps DEF Keeps
    <2>4. Proper(disk'.members) /\ Proper(cache'.members)
      BY <1>0, <1>2, <2>1, <2>2, EnteredProper DEF Promises
    <2>5. /\ Access(h) /\ OnlyOf(h) /\ pc'[h] = "register.reread" /\ job' = job /\ answer' = answer
      BY <1>2 DEF Access, OnlyOf, OwnOf, Goto, Shape, TypeOK
    <2>6. Knows(h)'
      BY <1>0, <2>5 DEF Promises, Knows, Pending, Uses, Reads, Told, ClaimBody
    <2>. QED BY <2>3, <2>4, <2>5, <2>6, StepPromises
  <1>. QED BY <1>1, <1>2, RegisterInsertAdds

\* What the INSERT of an invite adds to the tables.
Issues(h) ==
  LET j == job[h] IN
  /\ j.invite \in Invites /\ disk.invites[j.invite] = NoRow
  /\ disk'.members = disk.members
  /\ \E row \in InviteRow :
       row.count = 0 /\ disk'.invites = [disk.invites EXCEPT ![j.invite] = row]

\* The INSERT of an invite adds one unused invite, if it writes at all.
LEMMA IssueInsertAdds ==
  ASSUME Shape, NEW h \in Handlers, IssueInsert(h)
  PROVE  \/ DbError(h)
         \/ /\ Issues(h) /\ cache' = disk'
            /\ \E content : AutoWrite(h, content)
            /\ commits' = [commits EXCEPT ![h] = @ + 1]
            /\ Goto(h, "issue.reread")
            /\ UNCHANGED <<job, attempt, seen, answer>>
  <1> DEFINE j == job[h]
             row == [space |-> j.space, max |-> j.max, count |-> 0,
                     state |-> j.state, expires |-> j.expires]
             refused == disk.invites[j.invite] # NoRow \/ j.max = 0
             next == [disk EXCEPT !.invites[j.invite] = row]
  <1>0. pc[h] = "issue.insert" /\ j \in IssueJobs /\ j.invite \in Invites /\ disk \in Tables
    BY DEF IssueInsert, Shape, TypeOK, Stages, StageOK, IssueJobs
  <1>1. CASE DbError(h)
    BY <1>1
  <1>2. CASE /\ ~refused
             /\ AutoWrite(h, next)
             /\ commits' = [commits EXCEPT ![h] = @ + 1]
             /\ Goto(h, "issue.reread")
             /\ UNCHANGED <<job, attempt, seen, answer>>
    <2>1. row \in InviteRow
      BY <1>0, <1>2 DEF Shape, Stages, StageOK, IssueJobs, InviteRow
    <2>2. row.count = 0
      OBVIOUS
    <2>3. disk' = next /\ cache' = disk' /\ disk.invites[j.invite] = NoRow
      BY <1>2 DEF AutoWrite
    <2> HIDE DEF row
    <2>4. next.members = disk.members
          /\ next.invites = [disk.invites EXCEPT ![j.invite] = row]
      BY <1>0, <2>1, InviteUpdated
    <2> HIDE DEF next
    <2>5. Issues(h)
      BY <1>0, <2>1, <2>2, <2>3, <2>4 DEF Issues
    <2>. QED BY <1>2, <2>3, <2>5
  <1>. QED BY <1>1, <1>2 DEF IssueInsert

\* The INSERT of an invite keeps the promises.
LEMMA IssueInsertPromises ==
  ASSUME Shape, Shape', Promises, NEW h \in Handlers, IssueInsert(h) PROVE Promises'
  <1>0. pc[h] = "issue.insert" /\ job[h] \notin ClaimJobs /\ disk \in Tables
    BY OneKind DEF IssueInsert, Shape, TypeOK, Stages, StageOK
  <1>1. CASE DbError(h)
    <2>1. Access(h) /\ disk' = disk /\ cache' = cache
      BY <1>1 DEF DbError, Access, txVars
    <2>. QED BY <1>0, <1>1, <2>1, AnswerPromises DEF TrueAnswer, DbError
  <1>2. CASE /\ Issues(h) /\ cache' = disk'
             /\ \E content : AutoWrite(h, content)
             /\ commits' = [commits EXCEPT ![h] = @ + 1]
             /\ Goto(h, "issue.reread")
             /\ UNCHANGED <<job, attempt, seen, answer>>
    <2>1. MembersKeep(disk, disk')
      BY <1>0, <1>2, SameKeeps DEF Issues
    <2>2. InvitesKeep(disk, disk')
      BY <1>0, <1>2, TablesOf, InviteKept DEF Issues, InvitesKeep
    <2>3. Proper(disk'.members) /\ Proper(cache'.members)
      BY <1>2 DEF Promises, Issues
    <2>4. /\ Access(h) /\ OnlyOf(h) /\ pc'[h] = "issue.reread" /\ job' = job /\ answer' = answer
      BY <1>2 DEF Access, OnlyOf, OwnOf, Goto, Shape, TypeOK
    <2>5. Knows(h)'
      BY <1>0, <2>4 DEF Promises, Knows, Pending, Uses, Reads, Told, ClaimBody
    <2>. QED BY <2>1, <2>2, <2>3, <2>4, <2>5, StepPromises DEF Keeps
  <1>. QED BY <1>1, <1>2, IssueInsertAdds

\* A request arrives, and its answer is delivered.
LEMMA ArrivalPromises ==
  ASSUME Shape, Shape', Promises, NEW h \in Handlers, Arrive(h) \/ Deliver(h) PROVE Promises'
  <1>1. disk' = disk /\ cache' = cache /\ Access(h)
    BY DEF Arrive, Deliver, txVars, Access
  <1>2. CASE Arrive(h)
    <2>1. PICK j \in Jobs : job' = [job EXCEPT ![h] = j] /\ Goto(h, FirstLabel[j.op])
      BY <1>2 DEF Arrive
    <2>2. FirstLabel[j.op] \in {"claim", "update", "register.check", "issue.check"}
      BY JobOps DEF FirstLabel
    <2>3. /\ OnlyOf(h) /\ job'[h] = j /\ answer' = answer /\ commits' = commits
          /\ pc'[h] \in {"claim", "update", "register.check", "issue.check"}
      BY <1>2, <2>1, <2>2 DEF Arrive, OnlyOf, OwnOf, Goto, Shape, TypeOK
    <2>4. commits[h] = 0 /\ answer[h] = "none"
      BY <1>2 DEF Arrive, Promises, Knows, Uses
    <2>5. Knows(h)'
      BY <2>3, <2>4 DEF Knows, Pending, Uses, Reads, Told, ClaimBody
    <2>. QED BY <1>1, <2>3, <2>5, QuietPromises
  <1>3. CASE Deliver(h)
    <2>1. /\ OnlyOf(h) /\ pc'[h] = "idle" /\ answer'[h] = "none" /\ commits'[h] = 0
      BY <1>3 DEF Deliver, OnlyOf, OwnOf, Goto, Shape, TypeOK
    <2>2. Knows(h)'
      BY <2>1 DEF Knows, Pending, Uses, Reads, Told, ClaimBody
    <2>. QED BY <1>1, <2>1, <2>2, QuietPromises
  <1>. QED BY <1>2, <1>3

\* A crash keeps the promises: nobody is left to whom any was made.
LEMMA CrashPromises ==
  ASSUME Promises, Crash PROVE Promises'
  BY DEF Promises, Crash, TxCrash, Knows, Pending, Uses, Reads, Told, ClaimBody

\* The empty store keeps them.
LEMMA InitPromises == Init => Promises
  BY DEF Init, Promises, Proper, Knows, Pending, Uses, Reads, Told, ClaimBody

\* Every step of the store keeps them.
LEMMA NextPromises ==
  ASSUME Shape, Shape', Evolution, Promises, [Next]_vars PROVE Promises'
  <1>1. CASE UNCHANGED vars
    BY <1>1 DEF vars, Promises, Proper, Knows, Pending, Uses, Reads, Told, Admitted, RowsOf,
       Eligible
  <1>2. CASE Crash
    BY <1>2, CrashPromises
  <1>3. ASSUME NEW h \in Handlers, Arrive(h) \/ Deliver(h) PROVE Promises'
    BY <1>3, ArrivalPromises
  <1>4. ASSUME NEW h \in Handlers, ClaimStep(h) PROVE Promises'
    BY <1>4, ClaimReadInvitePromises, ClaimReadMemberPromises, ClaimReservePromises,
       ClaimInsertPromises, ClaimCommitPromises, ClaimAssemblePromises DEF ClaimStep
  <1>5. ASSUME NEW h \in Handlers, UpdateStep(h) PROVE Promises'
    BY <1>5, UpdateReadPromises, UpdateWritePromises, UpdateEndPromises DEF UpdateStep
  <1>6. ASSUME NEW h \in Handlers, RegisterStep(h) \/ IssueStep(h) PROVE Promises'
    BY <1>6, LonePromises, RegisterInsertPromises, IssueInsertPromises
    DEF RegisterStep, IssueStep
  <1>. QED BY <1>1, <1>2, <1>3, <1>4, <1>5, <1>6 DEF Next, Serve

\* What handlers know of claims, invites and members holds throughout.
THEOREM SpecPromises == Spec => []Promises
  <1>1. Shape /\ Shape' /\ Evolution /\ Promises /\ [Next]_vars => Promises'
    BY NextPromises
  <1>. QED BY <1>1, InitPromises, SpecShape, SpecEvolution, PTL DEF Spec

\* A claim takes one use at most, and what it answers then says so.
THEOREM SpecOneUsePerRequest == Spec => []OneUsePerRequest
  <1>1. ASSUME Shape, Promises, NEW h \in Handlers, job[h] # NoRow, job[h].op = "claim"
        PROVE  /\ commits[h] <= 1
               /\ answer[h] = "created" => commits[h] = 1
               /\ pc[h] = "answered" /\ commits[h] = 1 =>
                    answer[h] \in {"created", "already_active", "contended", "db_error",
                                   "member_disabled", "member_left"}
    <2>1. job[h] \in ClaimJobs
      BY <1>1, JobOps DEF Shape, TypeOK
    <2>. QED BY <1>1, <2>1 DEF Promises, Knows, Uses, Told
  <1>2. Shape /\ Promises => OneUsePerRequest
    BY <1>1 DEF OneUsePerRequest
  <1>. QED BY <1>2, SpecShape, SpecPromises, PTL

\* Who is told to be in the space is, by a row of its account.
THEOREM SpecAdmittedMeansPresent == Spec => []AdmittedMeansPresent
  <1>1. ASSUME Promises, NEW h \in Handlers, pc[h] = "answered", job[h].op = "claim",
               answer[h] \in {"created", "already_active"}
        PROVE  \E m \in InSpace(disk.members, disk.invites[job[h].invite].space, job[h].device) :
                 disk.members[m].account = job[h].account
    <2>1. job[h] \in ClaimJobs
      BY <1>1, JobOps DEF Promises, Knows, Uses
    <2>. QED BY <1>1, <2>1 DEF Promises, Knows, Told, Admitted, RowsOf
  <1>2. Promises => AdmittedMeansPresent
    BY <1>1 DEF AdmittedMeansPresent
  <1>. QED BY <1>2, SpecPromises, PTL

\* Who is told that an invite is used up or expired, or that its member has left,
\* is told what is so.
THEOREM SpecRefusalsAreTrue == Spec => []RefusalsAreTrue
  <1>1. ASSUME Promises, NEW h \in Handlers, pc[h] = "answered", job[h].op = "claim"
        PROVE  LET inv == disk.invites[job[h].invite] IN
               /\ answer[h] = "invite_exhausted" =>
                    inv.state = "claimed" \/ (inv.max # NoLimit /\ inv.count >= inv.max)
               /\ answer[h] = "invite_expired" =>
                    inv.state = "expired" \/ (inv.expires # Never /\ inv.expires <= job[h].at)
               /\ answer[h] = "member_left" =>
                    \A m \in InSpace(disk.members, inv.space, job[h].device) :
                      disk.members[m].state = "left"
    <2>1. job[h] \in ClaimJobs
      BY <1>1, JobOps DEF Promises, Knows, Uses
    <2>2. /\ answer[h] = "invite_exhausted" => UsedUp(disk.invites[job[h].invite])
          /\ answer[h] = "invite_expired" => TooLate(disk.invites[job[h].invite], job[h].at)
      BY <1>1, <2>1 DEF Promises, Knows, Told
    <2>3. ASSUME answer[h] = "member_left", NEW m \in RowsOf(job[h])
          PROVE  disk.members[m].state = "left"
      <3>1. PICK n \in RowsOf(job[h]) : disk.members[n].state = "left"
        BY <1>1, <2>1, <2>3 DEF Promises, Knows, Told
      <3>2. job[h].device \in Devices
        BY <1>1, <2>1, <2>3 DEF Promises, Knows, Told
      <3>3. m = n
        BY <1>1, <3>2 DEF Promises, Proper, RowsOf, InSpace, Present
      <3>. QED BY <3>1, <3>3
    <2>. QED BY <2>2, <2>3 DEF UsedUp, TooLate, RowsOf
  <1>2. Promises => RefusalsAreTrue
    BY <1>1 DEF RefusalsAreTrue
  <1>. QED BY <1>2, SpecPromises, PTL

\* Who is admitted claimed before the invite's expiry, by an invite still active
\* when the claim is committed.
THEOREM SpecAdmittedInTime == Spec => AdmittedInTime
  <1>1. ASSUME Shape, Promises, NEW h \in Handlers, pc[h] = "claim.commit"
        PROVE  LET inv == disk.invites[job[h].invite] IN
               /\ inv.state = "active"
               /\ inv.expires # Never => job[h].at < inv.expires
    <2>1. disk.invites[job[h].invite].state = "active"
      BY <1>1 DEF Promises, Knows, Pending, Counted, Reservable
    <2>2. /\ InviteKeeps(seen[h], disk.invites[job[h].invite])
          /\ seen[h].expires # Never => job[h].at < seen[h].expires
      BY <1>1 DEF Promises, Knows, Reads, ClaimBody
    <2>. QED BY <2>1, <2>2 DEF InviteKeeps
  <1>2. Shape /\ Promises =>
          [\A h \in Handlers : pc[h] = "claim.commit" /\ commits'[h] > commits[h] =>
             LET inv == disk.invites[job[h].invite] IN
             /\ inv.state = "active"
             /\ inv.expires # Never => job[h].at < inv.expires]_vars
    BY <1>1
  <1>. QED BY <1>2, SpecShape, SpecPromises, PTL DEF AdmittedInTime

-----------------------------------------------------------------------------
(***************************************************************************)
(* The committed tables implement the ledger                               *)
(***************************************************************************)

\* The ledger as the mapping of RefinesLedger reads it off the tables.
IsOpen(inv) == inv.state = "active" \/ inv.count > 0
TermOf(inv) == [max |-> inv.max, open |-> IsOpen(inv)]
TermsOf(t) == [i \in Invites |-> IF i \in Issued(t) THEN {TermOf(t.invites[i])} ELSE {}]
AdmittedOf(t) == [i \in Invites |-> AdmittedBy(t.members, i)]
StandingOf(t) ==
  [m \in MemberIds |-> IF m \in Present(t.members) THEN t.members[m].state ELSE "none"]

\* What the tables may become in one step: nothing else, a new invite, a new
\* member by an invite that counts it or by none, or a change of one member.
Commits(t, u) ==
  \/ u.invites = t.invites /\ u.members = t.members
  \/ /\ u.members = t.members
     /\ \E i \in Invites, row \in InviteRow :
          t.invites[i] = NoRow /\ u.invites = [t.invites EXCEPT ![i] = row]
  \/ \E i \in Invites, m \in MemberIds, row \in MemberRow :
       Counted(t, u, i) /\ Entered(t, u, m, row) /\ row.via = i /\ row.state = "active"
  \/ /\ u.invites = t.invites
     /\ \E m \in MemberIds, row \in MemberRow : Entered(t, u, m, row) /\ row.via = NoRow
  \/ /\ u.invites = t.invites
     /\ \E m \in MemberIds, row \in MemberRow : Moved(t, u, m, row)

\* The commit of a claim counts it and adds its member.
LEMMA ClaimCommits ==
  ASSUME Shape, Promises, NEW h \in Handlers, pc[h] = "claim.commit"
  PROVE  Commits(disk, cache)
  <1> DEFINE j == job[h]
             row == ClaimedRow(j, seen[h].space)
  <1>1. j.invite \in Invites /\ Counted(disk, cache, j.invite)
    BY DEF Shape, Stages, StageOK, ClaimBody, ClaimJobs, Promises, Knows, Pending
  <1>2. PICK m \in MemberIds : Entered(disk, cache, m, row)
    BY DEF Promises, Knows, Pending
  <1>3. row \in MemberRow /\ row.via = j.invite /\ row.state = "active"
    BY <1>2 DEF Entered, ClaimedRow
  <1> HIDE DEF row
  <1>. QED BY <1>1, <1>2, <1>3 DEF Commits

\* The commit of a transition changes its member.
LEMMA UpdateCommits ==
  ASSUME Shape, Promises, NEW h \in Handlers, pc[h] = "update.commit"
  PROVE  Commits(disk, cache)
  <1>1. job[h].member \in MemberIds /\ cache.invites = disk.invites
    BY DEF Shape, Stages, StageOK, UpdateBody, UpdateJobs, Promises, Knows, Pending
  <1>2. PICK row \in MemberRow : Moved(disk, cache, job[h].member, row)
    BY DEF Promises, Knows, Pending
  <1>. QED BY <1>1, <1>2 DEF Commits

\* Every step of the store commits one of these.
LEMMA NextCommits ==
  ASSUME Shape, Promises, [Next]_vars PROVE Commits(disk, disk')
  <1>0. disk' = disk => Commits(disk, disk')
    BY DEF Commits
  <1>1. CASE UNCHANGED vars
    BY <1>0, <1>1 DEF vars
  <1>2. CASE Crash
    BY <1>0, <1>2 DEF Crash, TxCrash
  <1>3. ASSUME NEW h \in Handlers, Arrive(h) \/ Deliver(h) PROVE Commits(disk, disk')
    BY <1>0, <1>3 DEF Arrive, Deliver, txVars
  <1>4. ASSUME NEW h \in Handlers, ClaimStep(h) PROVE Commits(disk, disk')
    <2>1. CASE ClaimCommit(h) /\ TxCommit(h)
      BY <2>1, ClaimCommits DEF ClaimCommit, TxCommit
    <2>2. CASE disk' = disk
      BY <1>0, <2>2
    <2>. QED BY <1>4, <2>1, <2>2 DEF ClaimStep, ClaimReadInvite, ClaimReadMember, ClaimReserve,
           ClaimInsert, ClaimCommit, ClaimAssemble, Retry, GiveUp, Refuse, TxRollback, TxRead, TxWrite,
           txVars
  <1>5. ASSUME NEW h \in Handlers, UpdateStep(h) PROVE Commits(disk, disk')
    <2>1. CASE UpdateCommit(h) /\ TxCommit(h)
      BY <2>1, UpdateCommits DEF UpdateCommit, TxCommit
    <2>2. CASE disk' = disk
      BY <1>0, <2>2
    <2>. QED BY <1>5, <2>1, <2>2 DEF UpdateStep, UpdateRead, UpdateWrite, UpdateCommit,
           UpdateReread, Retry, GiveUp, Refuse, TxRollback, TxRead, TxWrite, txVars
  <1>6. ASSUME NEW h \in Handlers, RegisterInsert(h) PROVE Commits(disk, disk')
    <2>1. CASE DbError(h)
      BY <1>0, <2>1 DEF DbError, txVars
    <2>2. CASE Registers(h)
      <3> DEFINE j == job[h]
                 row == [space |-> j.space, account |-> j.account, device |-> j.device,
                         state |-> j.state, disabled_at |-> Never, via |-> NoRow]
      <3>1. PICK m \in MemberIds : Entered(disk, disk', m, row)
        BY <2>2 DEF Registers
      <3>2. row \in MemberRow /\ row.via = NoRow /\ disk'.invites = disk.invites
        BY <2>2, <3>1 DEF Entered, Registers
      <3> HIDE DEF row
      <3>. QED BY <3>1, <3>2 DEF Commits
    <2>. QED BY <1>6, <2>1, <2>2, RegisterInsertAdds
  <1>7. ASSUME NEW h \in Handlers, IssueInsert(h) PROVE Commits(disk, disk')
    <2>1. CASE DbError(h)
      BY <1>0, <2>1 DEF DbError, txVars
    <2>2. CASE Issues(h)
      BY <2>2 DEF Issues, Commits
    <2>. QED BY <1>7, <2>1, <2>2, IssueInsertAdds
  <1>8. ASSUME NEW h \in Handlers,
               RegisterCheck(h) \/ RegisterReread(h) \/ IssueCheck(h) \/ IssueReread(h)
        PROVE  Commits(disk, disk')
    BY <1>0, <1>8 DEF RegisterCheck, RegisterReread, IssueCheck, IssueReread, txVars
  <1>. QED BY <1>1, <1>2, <1>3, <1>4, <1>5, <1>6, <1>7, <1>8
           DEF Next, Serve, RegisterStep, IssueStep

\* A claim is counted on the terms of its invite, which stay as they are.
LEMMA CountedTerms ==
  ASSUME NEW t \in Tables, NEW u, NEW i \in Invites, Counted(t, u, i)
  PROVE  /\ TermsOf(u) = TermsOf(t)
         /\ TermsOf(t)[i] = {TermOf(t.invites[i])}
         /\ IsOpen(t.invites[i])
         /\ t.invites[i].max = NoLimit \/ t.invites[i].count < t.invites[i].max
  <1> DEFINE inv == t.invites[i]
             new == Reserved(inv)
  <1>1. inv \in InviteRow /\ inv # NoRow /\ t.invites \in [Invites -> InviteRow \union {NoRow}]
    BY TablesOf DEF Counted
  <1>2. new \in InviteRow /\ new.max = inv.max /\ new.count = inv.count + 1 /\ inv.count \in Nat
    BY <1>1, ReservedRow, InviteColumns
  <1>3. inv.state = "active" /\ (inv.max = NoLimit \/ inv.count < inv.max)
    BY DEF Counted, Reservable
  <1>4. IsOpen(inv) = TRUE
    BY <1>3 DEF IsOpen
  <1>5. new.count > 0
    BY <1>2
  <1>6. IsOpen(new) = TRUE
    BY <1>5 DEF IsOpen
  <1>7. TermOf(new) = TermOf(inv)
    BY <1>2, <1>4, <1>6 DEF TermOf
  <1>8. new # NoRow
    BY <1>2
  <1>9. u.invites = [t.invites EXCEPT ![i] = new]
    BY DEF Counted
  <1> HIDE DEF new
  <1>10. u.invites[i] = new /\ \A k \in Invites \ {i} : u.invites[k] = t.invites[k]
    BY <1>1, <1>9
  <1>11. Issued(u) = Issued(t) /\ i \in Issued(t)
    BY <1>1, <1>8, <1>10 DEF Issued
  <1>12. \A k \in Invites : TermOf(u.invites[k]) = TermOf(t.invites[k])
    BY <1>7, <1>10
  <1>. QED BY <1>3, <1>4, <1>11, <1>12 DEF TermsOf

\* A new member stands as its row says, admitted by the invite that it names.
LEMMA EnteredLedger ==
  ASSUME NEW t \in Tables, NEW u, NEW m \in MemberIds, NEW row \in MemberRow, Entered(t, u, m, row)
  PROVE  /\ StandingOf(t)[m] = "none"
         /\ StandingOf(u) = [StandingOf(t) EXCEPT ![m] = row.state]
         /\ row.via \in Invites =>
              AdmittedOf(u) = [AdmittedOf(t) EXCEPT ![row.via] = AdmittedOf(t)[row.via] \union {m}]
         /\ row.via \notin Invites => AdmittedOf(u) = AdmittedOf(t)
  <1>1. row # NoRow /\ t.members[m] = NoRow
    BY MemberColumns DEF Entered
  <1>2. \A n \in MemberIds : u.members[n] = IF n = m THEN row ELSE t.members[n]
    BY TablesOf DEF Entered
  <1>3. Present(u.members) = Present(t.members) \union {m} /\ m \notin Present(t.members)
    BY <1>1, <1>2 DEF Present
  <1>4. \A i : AdmittedBy(u.members, i) =
               AdmittedBy(t.members, i) \union (IF row.via = i THEN {m} ELSE {})
    BY <1>2, <1>3 DEF AdmittedBy, Present
  <1>5. StandingOf(u) = [StandingOf(t) EXCEPT ![m] = row.state] /\ StandingOf(t)[m] = "none"
    BY <1>2, <1>3 DEF StandingOf, Present
  <1>6. CASE row.via \in Invites
    <2>1. AdmittedOf(t)[row.via] = AdmittedBy(t.members, row.via)
      BY <1>6 DEF AdmittedOf
    <2>2. AdmittedBy(u.members, row.via) = AdmittedBy(t.members, row.via) \union {m}
      BY <1>4
    <2>3. \A i \in Invites \ {row.via} : AdmittedBy(u.members, i) = AdmittedBy(t.members, i)
      BY <1>4
    <2>4. AdmittedOf(u) = [AdmittedOf(t) EXCEPT ![row.via] = AdmittedOf(t)[row.via] \union {m}]
      BY <2>1, <2>2, <2>3 DEF AdmittedOf
    <2>. QED BY <1>5, <1>6, <2>4
  <1>7. CASE row.via \notin Invites
    <2>1. \A i \in Invites : AdmittedBy(u.members, i) = AdmittedBy(t.members, i)
      BY <1>4, <1>7
    <2>. QED BY <1>5, <1>7, <2>1 DEF AdmittedOf
  <1>. QED BY <1>6, <1>7

\* A change moves one member from one standing to another.
LEMMA MovedLedger ==
  ASSUME NEW t \in Tables, NEW u, NEW m \in MemberIds, NEW row \in MemberRow, Moved(t, u, m, row)
  PROVE  /\ StandingOf(t)[m] \in {"active", "disabled"}
         /\ row.state \in MemberStates \ {StandingOf(t)[m]}
         /\ StandingOf(u) = [StandingOf(t) EXCEPT ![m] = row.state]
         /\ AdmittedOf(u) = AdmittedOf(t)
  <1>1. row # NoRow /\ t.members[m] # NoRow /\ t.members[m] \in MemberRow /\ row.state \in MemberStates
    BY MemberColumns, TablesOf DEF Moved
  <1>2. /\ row.via = t.members[m].via
        /\ t.members[m].state \in {"active", "disabled"} /\ row.state # t.members[m].state
    BY <1>1, LegalKeeps DEF Moved, MemberKeeps
  <1>3. \A n \in MemberIds : u.members[n] = IF n = m THEN row ELSE t.members[n]
    BY TablesOf DEF Moved
  <1>4. Present(u.members) = Present(t.members) /\ m \in Present(t.members)
    BY <1>1, <1>3 DEF Present
  <1>5. \A i : AdmittedBy(u.members, i) = AdmittedBy(t.members, i)
    BY <1>2, <1>3, <1>4 DEF AdmittedBy, Present
  <1>6. StandingOf(u) = [StandingOf(t) EXCEPT ![m] = row.state]
        /\ StandingOf(t)[m] = t.members[m].state
    BY <1>3, <1>4 DEF StandingOf, Present
  <1>. QED BY <1>1, <1>2, <1>5, <1>6 DEF AdmittedOf

\* The ledger of the mapping is the one read off the tables.
LEMMA LedgerOf ==
  /\ Ledger!ledgerVars = <<TermsOf(disk), AdmittedOf(disk), StandingOf(disk)>>
  /\ Ledger!ledgerVars' = <<TermsOf(disk'), AdmittedOf(disk'), StandingOf(disk')>>
  BY DEF Ledger!ledgerVars, TermsOf, TermOf, IsOpen, AdmittedOf, StandingOf, AdmittedBy, Issued,
         Present

\* The commit of a new invite issues it.
LEMMA IssuesInLedger ==
  ASSUME disk \in Tables, disk' \in Tables, NEW i \in Invites, NEW row \in InviteRow,
         disk.invites[i] = NoRow, disk'.invites = [disk.invites EXCEPT ![i] = row],
         disk'.members = disk.members
  PROVE  Ledger!Issue(i)
  <1> DEFINE max == row.max
             open == IsOpen(row)
  <1>1. row # NoRow /\ max \in Limits
    BY InviteColumns
  <1>2. open \in BOOLEAN
    BY DEF IsOpen
  <1>3. disk'.invites[i] = row /\ \A k \in Invites \ {i} : disk'.invites[k] = disk.invites[k]
    BY TablesOf
  <1>4. Issued(disk') = Issued(disk) \union {i} /\ i \notin Issued(disk)
    BY <1>1, <1>3 DEF Issued
  <1>5. TermsOf(disk)[i] = {} /\ TermsOf(disk') = [TermsOf(disk) EXCEPT ![i] = {TermOf(row)}]
    BY <1>3, <1>4 DEF TermsOf
  <1>6. TermOf(row) = [max |-> max, open |-> open]
    BY DEF TermOf
  <1> HIDE DEF max, open
  <1>7. \E m \in Limits, o \in BOOLEAN :
          TermsOf(disk') = [TermsOf(disk) EXCEPT ![i] = {[max |-> m, open |-> o]}]
    BY <1>1, <1>2, <1>5, <1>6
  <1>8. AdmittedOf(disk') = AdmittedOf(disk) /\ StandingOf(disk') = StandingOf(disk)
    BY DEF AdmittedOf, StandingOf
  <1>. QED BY <1>5, <1>7, <1>8 DEF Ledger!Issue, TermsOf, TermOf, IsOpen, AdmittedOf, StandingOf,
         AdmittedBy, Issued, Present

\* The commit of a claim admits its member.
LEMMA AdmitsInLedger ==
  ASSUME disk \in Tables, disk' \in Tables, NEW i \in Invites, NEW m \in MemberIds,
         NEW row \in MemberRow, Counted(disk, disk', i), Entered(disk, disk', m, row),
         row.via = i, row.state = "active",
         Cardinality(AdmittedBy(disk.members, i)) = disk.invites[i].count
  PROVE  Ledger!Admit(i, m)
  <1>1. /\ TermsOf(disk') = TermsOf(disk)
        /\ TermsOf(disk)[i] = {TermOf(disk.invites[i])}
        /\ IsOpen(disk.invites[i])
        /\ disk.invites[i].max = NoLimit \/ disk.invites[i].count < disk.invites[i].max
    BY CountedTerms
  <1>2. /\ StandingOf(disk)[m] = "none"
        /\ StandingOf(disk') = [StandingOf(disk) EXCEPT ![m] = "active"]
        /\ AdmittedOf(disk') = [AdmittedOf(disk) EXCEPT ![i] = AdmittedOf(disk)[i] \union {m}]
    <2>1. /\ StandingOf(disk)[m] = "none"
          /\ StandingOf(disk') = [StandingOf(disk) EXCEPT ![m] = row.state]
          /\ row.via \in Invites =>
               AdmittedOf(disk') =
                 [AdmittedOf(disk) EXCEPT ![row.via] = AdmittedOf(disk)[row.via] \union {m}]
          /\ row.via \notin Invites => AdmittedOf(disk') = AdmittedOf(disk)
      BY EnteredLedger, Zenon
    <2>. QED BY <2>1
  <1>3. AdmittedOf(disk)[i] = AdmittedBy(disk.members, i)
    BY DEF AdmittedOf
  <1>4. \E t \in TermsOf(disk)[i] :
          t.open /\ (t.max = NoLimit \/ Cardinality(AdmittedOf(disk)[i]) < t.max)
    <2>1. TermOf(disk.invites[i]).max = disk.invites[i].max
      BY DEF TermOf
    <2>2. TermOf(disk.invites[i]).open
      BY <1>1 DEF TermOf
    <2>. QED BY <1>1, <1>3, <2>1, <2>2
  <1>5. /\ Ledger!Unlimited = NoLimit
        /\ Ledger!Cardinality(AdmittedOf(disk)[i]) = Cardinality(AdmittedOf(disk)[i])
    BY DEF Ledger!Unlimited, NoLimit, Ledger!Cardinality, Cardinality
  <1>6. \E t \in TermsOf(disk)[i] :
          /\ t.open
          /\ t.max = Ledger!Unlimited \/ Ledger!Cardinality(AdmittedOf(disk)[i]) < t.max
    BY <1>4, <1>5
  <1>. QED BY <1>1, <1>2, <1>6 DEF Ledger!Admit, TermsOf, TermOf, IsOpen, AdmittedOf, StandingOf,
         AdmittedBy, Issued, Present

\* A registration enrols its member.
LEMMA EnrolsInLedger ==
  ASSUME disk \in Tables, disk' \in Tables, NEW m \in MemberIds, NEW row \in MemberRow,
         Entered(disk, disk', m, row), row.via = NoRow, disk'.invites = disk.invites
  PROVE  Ledger!Enroll(m)
  <1>1. /\ StandingOf(disk)[m] = "none"
        /\ StandingOf(disk') = [StandingOf(disk) EXCEPT ![m] = row.state]
        /\ AdmittedOf(disk') = AdmittedOf(disk)
    <2>1. row.via \notin Invites
      BY MembershipAssumption
    <2>2. /\ StandingOf(disk)[m] = "none"
          /\ StandingOf(disk') = [StandingOf(disk) EXCEPT ![m] = row.state]
          /\ row.via \in Invites =>
               AdmittedOf(disk') =
                 [AdmittedOf(disk) EXCEPT ![row.via] = AdmittedOf(disk)[row.via] \union {m}]
          /\ row.via \notin Invites => AdmittedOf(disk') = AdmittedOf(disk)
      BY EnteredLedger, Zenon
    <2>. QED BY <2>1, <2>2
  <1>2. TermsOf(disk') = TermsOf(disk)
    BY DEF TermsOf, Issued
  <1>3. \E s \in MemberStates : StandingOf(disk') = [StandingOf(disk) EXCEPT ![m] = s]
    BY <1>1, MemberColumns
  <1>. QED BY <1>1, <1>2, <1>3 DEF Ledger!Enroll, Ledger!Standings, MemberStates, TermsOf, TermOf,
         IsOpen, AdmittedOf, StandingOf, AdmittedBy, Issued, Present

\* A transition changes its member.
LEMMA ChangesInLedger ==
  ASSUME disk \in Tables, disk' \in Tables, NEW m \in MemberIds, NEW row \in MemberRow,
         Moved(disk, disk', m, row), disk'.invites = disk.invites
  PROVE  Ledger!Change(m)
  <1>1. /\ StandingOf(disk)[m] \in {"active", "disabled"}
        /\ row.state \in MemberStates \ {StandingOf(disk)[m]}
        /\ StandingOf(disk') = [StandingOf(disk) EXCEPT ![m] = row.state]
        /\ AdmittedOf(disk') = AdmittedOf(disk)
    BY MovedLedger
  <1>2. TermsOf(disk') = TermsOf(disk)
    BY DEF TermsOf, Issued
  <1>3. \E s \in MemberStates \ {StandingOf(disk)[m]} :
          StandingOf(disk') = [StandingOf(disk) EXCEPT ![m] = s]
    BY <1>1
  <1>. QED BY <1>1, <1>2, <1>3 DEF Ledger!Change, Ledger!Standings, MemberStates, TermsOf, TermOf,
         IsOpen, AdmittedOf, StandingOf, AdmittedBy, Issued, Present

\* Every step of the store is one of the ledger, or none.
LEMMA NextLedger ==
  ASSUME Shape, Shape', Accounting, Promises, [Next]_vars
  PROVE  [Ledger!LedgerNext]_(Ledger!ledgerVars)
  <1>1. disk \in Tables /\ disk' \in Tables /\ Commits(disk, disk')
    BY NextCommits DEF Shape, TypeOK
  <1>2. CASE disk'.invites = disk.invites /\ disk'.members = disk.members
    <2>1. /\ TermsOf(disk') = TermsOf(disk) /\ AdmittedOf(disk') = AdmittedOf(disk)
          /\ StandingOf(disk') = StandingOf(disk)
      BY <1>2 DEF TermsOf, AdmittedOf, StandingOf, Issued
    <2>. QED BY <2>1, LedgerOf
  <1>3. CASE /\ disk'.members = disk.members
             /\ \E i \in Invites, row \in InviteRow :
                  disk.invites[i] = NoRow /\ disk'.invites = [disk.invites EXCEPT ![i] = row]
    <2>1. \E i \in Invites : Ledger!Issue(i)
      BY <1>1, <1>3, IssuesInLedger
    <2>. QED BY <2>1 DEF Ledger!LedgerNext
  <1>4. CASE \E i \in Invites, m \in MemberIds, row \in MemberRow :
               /\ Counted(disk, disk', i) /\ Entered(disk, disk', m, row)
               /\ row.via = i /\ row.state = "active"
    <2>1. PICK i \in Invites, m \in MemberIds, row \in MemberRow :
                 /\ Counted(disk, disk', i) /\ Entered(disk, disk', m, row)
                 /\ row.via = i /\ row.state = "active"
      BY <1>4
    <2>2. disk.invites[i] # NoRow
      BY <2>1 DEF Counted
    <2>3. Cardinality(AdmittedBy(disk.members, i)) = disk.invites[i].count
      BY <2>2, AdmittedFinite DEF Accounting, Accounted
    <2>4. Ledger!Admit(i, m)
      BY <1>1, <2>1, <2>3, AdmitsInLedger
    <2>. QED BY <2>4 DEF Ledger!LedgerNext
  <1>5. CASE /\ disk'.invites = disk.invites
             /\ \E m \in MemberIds, row \in MemberRow :
                  Entered(disk, disk', m, row) /\ row.via = NoRow
    <2>1. \E m \in MemberIds : Ledger!Enroll(m)
      BY <1>1, <1>5, EnrolsInLedger
    <2>. QED BY <2>1 DEF Ledger!LedgerNext
  <1>6. CASE /\ disk'.invites = disk.invites
             /\ \E m \in MemberIds, row \in MemberRow : Moved(disk, disk', m, row)
    <2>1. \E m \in MemberIds : Ledger!Change(m)
      BY <1>1, <1>6, ChangesInLedger
    <2>. QED BY <2>1 DEF Ledger!LedgerNext
  <1>. QED BY <1>1, <1>2, <1>3, <1>4, <1>5, <1>6 DEF Commits

\* The empty tables are the empty ledger.
LEMMA InitLedger == Init => Ledger!LedgerInit
  <1> SUFFICES ASSUME Init PROVE Ledger!LedgerInit
    OBVIOUS
  <1>1. Issued(disk) = {} /\ Present(disk.members) = {}
    BY DEF Init, Issued, Present
  <1>2. /\ TermsOf(disk) = [i \in Invites |-> {}] /\ AdmittedOf(disk) = [i \in Invites |-> {}]
        /\ StandingOf(disk) = [m \in MemberIds |-> "none"]
    BY <1>1 DEF TermsOf, AdmittedOf, StandingOf, AdmittedBy
  <1>. QED BY <1>2 DEF Ledger!LedgerInit, TermsOf, TermOf, IsOpen, AdmittedOf, StandingOf,
         AdmittedBy, Issued, Present

\* Membership implements the ledger: each commit, of whatever interleaving of
\* handlers, retries and crashes, is one of its steps and nothing else shows.
THEOREM SpecRefinesLedger == Spec => RefinesLedger
  <1>1. Init => Ledger!LedgerInit
    BY InitLedger
  <1>2. Shape /\ Shape' /\ Accounting /\ Promises /\ [Next]_vars
          => [Ledger!LedgerNext]_(Ledger!ledgerVars)
    BY NextLedger
  <1>. QED BY <1>1, <1>2, SpecShape, SpecAccounting, SpecPromises, PTL
           DEF Spec, RefinesLedger, Ledger!LedgerSpec
=============================================================================
