------------------------ MODULE RelaySpaceMembership ------------------------
(***************************************************************************)
(* Who belongs to a relay space: the tables relay_space_members and        *)
(* relay_space_invites, and the four requests that change them             *)
(*   claim     POST /v0/relay-spaces/invites/claim                         *)
(*   update    POST .../members/{routing_member_id}/state                  *)
(*   register  POST .../members                                            *)
(*   issue     POST .../invites                                            *)
(* served by concurrent handlers, one SQL statement per step, over the     *)
(* locks of SqliteTx, with SQLITE_BUSY, the store's retry loops and a      *)
(* crash of the process between any two steps.                             *)
(*                                                                         *)
(* disk and cache (SqliteTx) are records [invites, members].  Accounts,    *)
(* devices and relay spaces never change once they exist (no statement     *)
(* updates or deletes them), so they are constants here.                   *)
(***************************************************************************)
EXTENDS SqliteTx, Integers

CONSTANTS
  Spaces, Accounts, Devices,
  Owner,        \* devices.account_id
  Stranger,     \* stands for an account, device or space that does not exist
  NoDevice,     \* device_id "" / NULL
  Invites,      \* invite tokens, each the token of at most one invite
  MemberIds,    \* the uuids that routing members get
  Nobody,       \* a routing member id that is "" / NULL
  NoRow,        \* an absent row
  Times,        \* claimed_at, changed_at and expires_at, in seconds
  Limits,       \* values of max_claims
  MaxAttempts,  \* 30 in the code
  Jobs          \* the requests that clients may send

Never   == 0    \* expires_at or disabled_at "" / NULL
NoLimit == -1   \* max_claims NULL

MemberStates == {"active", "disabled", "left"}
InviteStates == {"active", "claimed", "disabled", "expired"}

InviteRow == [space : Spaces, max : Limits, count : Nat, state : InviteStates,
              expires : Times \union {Never}]

\* via is the invite whose claim inserted the row: not a column, but what the
\* accounting of claims is about.
MemberRow == [space : Spaces, account : Accounts, device : Devices \union {NoDevice},
              state : MemberStates, disabled_at : Times \union {Never},
              via : Invites \union {NoRow}]

Tables == [invites : [Invites -> InviteRow \union {NoRow}],
           members : [MemberIds -> MemberRow \union {NoRow}]]

ClaimJobs == [op : {"claim"}, invite : Invites, account : Accounts \union {Stranger},
              device : Devices \union {Stranger}, at : Times]
UpdateJobs == [op : {"update"}, space : Spaces, member : MemberIds,
               target : MemberStates, at : Times]
RegisterJobs == [op : {"register"}, space : Spaces \union {Stranger},
                 account : Accounts \union {Stranger},
                 device : Devices \union {Stranger, NoDevice}, state : MemberStates]
IssueJobs == [op : {"issue"}, invite : Invites, space : Spaces \union {Stranger},
              creator : MemberIds \union {Nobody}, max : Limits \union {0},
              expires : Times \union {Never}, state : InviteStates]
AllJobs == ClaimJobs \union UpdateJobs \union RegisterJobs \union IssueJobs

ASSUME MembershipAssumption ==
  /\ Owner \in [Devices -> Accounts]
  /\ Stranger \notin Spaces \union Accounts \union Devices
  /\ NoDevice \notin Devices \union {Stranger}
  /\ Nobody \notin MemberIds
  /\ NoRow \notin InviteRow \union MemberRow \union Invites
  /\ Times \subseteq Nat \ {0}
  /\ Limits \subseteq (Nat \ {0}) \union {NoLimit}
  /\ MaxAttempts \in Nat \ {0}
  /\ IsFiniteSet(MemberIds)
  /\ Jobs \subseteq AllJobs

VARIABLES
  pc,       \* where each handler is
  job,      \* the request it serves
  attempt,  \* completed rounds of its retry loop
  seen,     \* the row it has read: of the invite (claim) or the member (update)
  answer,   \* the classification or error it is going to give or has given
  commits   \* history: how many times this request has changed the tables

local == <<pc, job, attempt, seen, answer, commits>>
vars == <<disk, cache, readers, writer, pc, job, attempt, seen, answer, commits>>

Init ==
  /\ disk = [invites |-> [i \in Invites |-> NoRow], members |-> [m \in MemberIds |-> NoRow]]
  /\ cache = disk
  /\ readers = {}
  /\ writer = NoHandler
  /\ pc = [h \in Handlers |-> "idle"]
  /\ job = [h \in Handlers |-> NoRow]
  /\ attempt = [h \in Handlers |-> 0]
  /\ seen = [h \in Handlers |-> NoRow]
  /\ answer = [h \in Handlers |-> "none"]
  /\ commits = [h \in Handlers |-> 0]

-----------------------------------------------------------------------------
\* Helpers

Present(members) == {m \in MemberIds : members[m] # NoRow}

InSpace(members, s, d) ==
  {m \in Present(members) : members[m].space = s /\ members[m].device = d}

\* The index idx_relay_space_members_unique_device skips NULL devices.
DeviceTaken(members, s, d) == d # NoDevice /\ InSpace(members, s, d) # {}

FreeIds(members) == MemberIds \ Present(members)

AccountDeviceError(a, d) ==
  IF a \notin Accounts THEN "account_not_found"
  ELSE IF d = NoDevice THEN "ok"
  ELSE IF d \notin Devices THEN "device_not_found"
  ELSE IF Owner[d] # a THEN "account_device_mismatch"
  ELSE "ok"

\* Fault: an off-by-one in the exhaustion test.
ClaimError_OneTooEarly(inv, at) ==
  IF inv.state = "disabled" THEN "invite_disabled"
  ELSE IF inv.state = "expired" \/ (inv.state = "active" /\ inv.expires # Never /\ ~(at < inv.expires))
       THEN "invite_expired"
  ELSE IF inv.state = "claimed" \/ (inv.max # NoLimit /\ inv.count + 1 >= inv.max)
       THEN "invite_exhausted"
  ELSE "ok"

\* Fault: an invite may still be claimed at the moment it expires.
ClaimError_AtExpiry(inv, at) ==
  IF inv.state = "disabled" THEN "invite_disabled"
  ELSE IF inv.state = "expired" \/ (inv.state = "active" /\ inv.expires # Never /\ ~(at <= inv.expires))
       THEN "invite_expired"
  ELSE IF inv.state = "claimed" \/ (inv.max # NoLimit /\ inv.count >= inv.max)
       THEN "invite_exhausted"
  ELSE "ok"

\* validateRelaySpaceInviteClaimable
ClaimError(inv, at) ==
  IF inv.state = "disabled" THEN "invite_disabled"
  ELSE IF inv.state = "expired" \/ (inv.state = "active" /\ inv.expires # Never /\ ~(at < inv.expires))
       THEN "invite_expired"
  ELSE IF inv.state = "claimed" \/ (inv.max # NoLimit /\ inv.count >= inv.max)
       THEN "invite_exhausted"
  ELSE "ok"

\* The refusals of a claim by a device that already has a member row.  The
\* first is out of reach: a device never changes its account.
RejoinError(row, a) ==
  IF row.account # a THEN "member_account_conflict"
  ELSE IF row.state = "disabled" \/ row.disabled_at # Never THEN "member_disabled"
  ELSE IF row.state = "left" THEN "member_left"
  ELSE "ok"

\* Fault: the last use leaves the invite "active".
Reserved_StateKept(inv) == [inv EXCEPT !.count = @ + 1]

\* Fault: the UPDATE selects by relay_space_invite_id alone.
Reservable_ByIdOnly(inv, count) == TRUE

\* The SET and WHERE clauses of the reservation.
Reserved(inv) ==
  [inv EXCEPT !.count = @ + 1,
              !.state = IF inv.max # NoLimit /\ inv.count + 1 >= inv.max
                        THEN "claimed" ELSE @]
Reservable(inv, count) ==
  /\ inv.state = "active"
  /\ inv.count = count
  /\ inv.max = NoLimit \/ inv.count < inv.max

\* validateStoredRelaySpaceMemberState
ConsistentRow(row) == (row.state = "disabled") <=> (row.disabled_at # Never)

AllowedTransition(from, to) ==
  \/ from = "active" /\ to \in {"disabled", "left"}
  \/ from = "disabled" /\ to \in {"active", "left"}

\* Fault: the UPDATE selects by routing_member_id alone.
SameRow_ByIdOnly(row, old) == TRUE

\* The WHERE and SET clauses of the transition.
SameRow(row, old) ==
  /\ row.space = old.space
  /\ row.state = old.state
  /\ row.disabled_at = old.disabled_at
WithState(row, target, at) ==
  [row EXCEPT !.state = target, !.disabled_at = IF target = "disabled" THEN at ELSE Never]

InFlight == {h \in Handlers : pc[h] \notin {"idle", "answered"}}
AutoReaders == {h \in Handlers : pc[h] \in {"claim.assemble", "update.reread",
                   "register.check", "register.reread", "issue.check", "issue.reread"}}
AutoWriters == {h \in Handlers : pc[h] \in {"register.insert", "issue.insert"}}

ReadBusy(h) == ReadMayBeBusy(h, AutoWriters)

Goto(h, label) == pc' = [pc EXCEPT ![h] = label]

\* The handler has its answer; whatever transaction it had is over.
Reply(h, a) ==
  /\ Goto(h, "answered")
  /\ answer' = [answer EXCEPT ![h] = a]
  /\ seen' = [seen EXCEPT ![h] = NoRow]
  /\ UNCHANGED <<job, attempt, commits>>

\* Fault: rounds are not counted.
Retry_Uncounted(h) ==
  /\ TxRollback(h)
  /\ seen' = [seen EXCEPT ![h] = NoRow]
  /\ Goto(h, job[h].op) /\ answer' = [answer EXCEPT ![h] = "none"]
  /\ UNCHANGED <<job, attempt, commits>>

\* Fault: one round too many.
Retry_OneMore(h) ==
  /\ TxRollback(h)
  /\ attempt' = [attempt EXCEPT ![h] = @ + 1]
  /\ seen' = [seen EXCEPT ![h] = NoRow]
  /\ IF attempt[h] < MaxAttempts
     THEN Goto(h, job[h].op) /\ answer' = [answer EXCEPT ![h] = "none"]
     ELSE Goto(h, "answered") /\ answer' = [answer EXCEPT ![h] = "contended"]
  /\ UNCHANGED <<job, commits>>

\* One more round of the loop in ClaimRelaySpaceInvite and
\* UpdateRelaySpaceMemberState, or the end of it.
Retry(h) ==
  /\ TxRollback(h)
  /\ attempt' = [attempt EXCEPT ![h] = @ + 1]
  /\ seen' = [seen EXCEPT ![h] = NoRow]
  /\ IF attempt[h] + 1 < MaxAttempts
     THEN Goto(h, job[h].op) /\ answer' = [answer EXCEPT ![h] = "none"]
     ELSE Goto(h, "answered") /\ answer' = [answer EXCEPT ![h] = "contended"]
  /\ UNCHANGED <<job, commits>>

\* Refuse from inside a transaction: the deferred Rollback runs.
Refuse(h, a) == TxRollback(h) /\ Reply(h, a)

\* A statement of a claim or a transition fails with an error that is neither
\* BUSY nor a conflict: the loop is left at once, even after its own commit.
GiveUp(h) == Refuse(h, "db_error")

-----------------------------------------------------------------------------
\* A request arrives.  Bound: enough unused ids remain for every handler.

Labels ==
  {"idle", "answered",
   "claim", "claim.member", "claim.reserve", "claim.insert", "claim.commit", "claim.assemble",
   "update", "update.write", "update.commit", "update.reread",
   "register.check", "register.insert", "register.reread",
   "issue.check", "issue.insert", "issue.reread"}

AccountErrors == {"account_not_found", "device_not_found", "account_device_mismatch"}
InviteErrors == {"invite_not_found", "invite_disabled", "invite_expired", "invite_exhausted"}
MemberErrors == {"member_account_conflict", "member_disabled", "member_left",
                 "member_not_found", "member_wrong_space", "member_state_inconsistent",
                 "member_rejoin_required", "target_state_unsupported"}
IssueErrors == {"creator_not_found", "invite_creator_wrong_space", "invite_creator_not_active"}
Answers ==
  {"none", "ok", "created", "already_active", "transitioned", "already_in_state", "registered",
   "invite_created", "contended", "db_error", "relay_space_not_found"}
    \union AccountErrors \union InviteErrors \union MemberErrors \union IssueErrors

FirstLabel == [claim |-> "claim", update |-> "update",
               register |-> "register.check", issue |-> "issue.check"]

Arrive(h) ==
  /\ pc[h] = "idle"
  /\ \E j \in Jobs :
       /\ j.op \in {"claim", "register"} =>
            Cardinality(FreeIds(cache.members)) >= Cardinality(Handlers)
       /\ job' = [job EXCEPT ![h] = j]
       /\ Goto(h, FirstLabel[j.op])
  /\ UNCHANGED txVars
  /\ UNCHANGED <<attempt, seen, answer, commits>>

\* The response is written, or the client is gone: the handler is free again.
Deliver(h) ==
  /\ pc[h] = "answered"
  /\ Goto(h, "idle")
  /\ job' = [job EXCEPT ![h] = NoRow]
  /\ attempt' = [attempt EXCEPT ![h] = 0]
  /\ answer' = [answer EXCEPT ![h] = "none"]
  /\ commits' = [commits EXCEPT ![h] = 0]
  /\ UNCHANGED txVars
  /\ UNCHANGED seen

-----------------------------------------------------------------------------
\* claimRelaySpaceInviteOnce

\* Begin, check the account and device, read the invite.
ClaimReadInvite(h) ==
  LET j == job[h]
      inv == disk.invites[j.invite]
      bad == AccountDeviceError(j.account, j.device)
  IN
  /\ pc[h] = "claim"
  /\ \/ GiveUp(h)
     \/ ReadBusy(h) /\ Retry(h)
     \/ bad # "ok" /\ Refuse(h, bad)
     \/ bad = "ok" /\ inv = NoRow /\ Refuse(h, "invite_not_found")
     \/ /\ bad = "ok" /\ inv # NoRow
        /\ TxRead(h)
        /\ seen' = [seen EXCEPT ![h] = inv]
        /\ Goto(h, "claim.member")
        /\ UNCHANGED <<job, attempt, answer, commits>>

\* Look for the device's member row; without one, the invite must be claimable.
ClaimReadMember(h) ==
  LET j == job[h]
      found == InSpace(disk.members, seen[h].space, j.device)
      refusal == ClaimError(seen[h], j.at)
  IN
  /\ pc[h] = "claim.member"
  /\ \/ GiveUp(h)
     \/ ReadBusy(h) /\ Retry(h)
     \/ \E m \in found :
          LET bad == RejoinError(disk.members[m], j.account) IN
          \/ bad # "ok" /\ Refuse(h, bad)
          \/ /\ bad = "ok"
             /\ TxRollback(h)
             /\ answer' = [answer EXCEPT ![h] = "already_active"]
             /\ seen' = [seen EXCEPT ![h] = NoRow]
             /\ Goto(h, "claim.assemble")
             /\ UNCHANGED <<job, attempt, commits>>
     \/ found = {} /\ refusal # "ok" /\ Refuse(h, refusal)
     \/ /\ found = {} /\ refusal = "ok"
        /\ TxRead(h)
        /\ Goto(h, "claim.reserve")
        /\ UNCHANGED <<job, attempt, seen, answer, commits>>

\* Fault: the reservation is not part of the transaction.
ClaimReserve_OnItsOwn(h) ==
  LET i == job[h].invite
      inv == disk.invites[i]
  IN
  /\ pc[h] = "claim.reserve"
  /\ \/ ReadBusy(h) /\ Retry(h)
     \/ /\ Reservable(inv, seen[h].count)
        /\ AutoWrite(h, [disk EXCEPT !.invites[i] = Reserved(inv)])
        /\ Goto(h, "claim.insert")
        /\ UNCHANGED <<job, attempt, seen, answer, commits>>

\* UPDATE relay_space_invites: compare with what was read, and count.
ClaimReserve(h) ==
  LET i == job[h].invite
      inv == cache.invites[i]
      fits == Reservable(inv, seen[h].count)
  IN
  /\ pc[h] = "claim.reserve"
  /\ \/ GiveUp(h)
     \/ ReadBusy(h) /\ Retry(h)
     \/ CanWrite(h) /\ ~fits /\ Retry(h)
     \/ /\ fits
        /\ TxWrite(h, [cache EXCEPT !.invites[i] = Reserved(inv)])
        /\ Goto(h, "claim.insert")
        /\ UNCHANGED <<job, attempt, seen, answer, commits>>

\* INSERT INTO relay_space_members; the unique index may refuse it.
ClaimInsert(h) ==
  LET j == job[h]
      s == seen[h].space
      m == CHOOSE id \in FreeIds(cache.members) : TRUE
      row == [space |-> s, account |-> j.account, device |-> j.device,
              state |-> "active", disabled_at |-> Never, via |-> j.invite]
  IN
  /\ pc[h] = "claim.insert"
  /\ \/ GiveUp(h)
     \/ DeviceTaken(cache.members, s, j.device) /\ Retry(h)
     \/ /\ ~DeviceTaken(cache.members, s, j.device)
        /\ FreeIds(cache.members) # {}
        /\ TxWrite(h, [cache EXCEPT !.members[m] = row])
        /\ Goto(h, "claim.commit")
        /\ UNCHANGED <<job, attempt, seen, answer, commits>>

\* Fault: the error of the commit is ignored.
ClaimCommit_Unchecked(h) ==
  /\ pc[h] = "claim.commit"
  /\ \/ CommitMayBeBusy(h, AutoReaders) /\ TxRollback(h) /\ UNCHANGED commits
     \/ TxCommit(h) /\ commits' = [commits EXCEPT ![h] = @ + 1]
  /\ answer' = [answer EXCEPT ![h] = "created"]
  /\ seen' = [seen EXCEPT ![h] = NoRow]
  /\ Goto(h, "claim.assemble")
  /\ UNCHANGED <<job, attempt>>

ClaimCommit(h) ==
  /\ pc[h] = "claim.commit"
  /\ \/ GiveUp(h)
     \/ CommitMayBeBusy(h, AutoReaders) /\ Retry(h)
     \/ /\ TxCommit(h)
        /\ commits' = [commits EXCEPT ![h] = @ + 1]
        /\ answer' = [answer EXCEPT ![h] = "created"]
        /\ seen' = [seen EXCEPT ![h] = NoRow]
        /\ Goto(h, "claim.assemble")
        /\ UNCHANGED <<job, attempt>>

\* assembleRelaySpaceInviteClaimResult: three SELECTs outside any transaction,
\* of rows that exist; a busy one sends the whole claim around the loop again,
\* and one that fails otherwise is the answer, whatever was committed.
ClaimAssemble(h) ==
  /\ pc[h] = "claim.assemble"
  /\ \/ GiveUp(h)
     \/ ReadBusy(h) /\ Retry(h)
     \/ UNCHANGED txVars /\ Reply(h, answer[h])

-----------------------------------------------------------------------------
\* updateRelaySpaceMemberStateOnce

UpdateRead(h) ==
  LET j == job[h]
      row == disk.members[j.member]
      bad == IF row = NoRow THEN "member_not_found"
             ELSE IF row.space # j.space THEN "member_wrong_space"
             ELSE IF ~ConsistentRow(row) THEN "member_state_inconsistent"
             ELSE IF row.state = j.target THEN "already_in_state"
             ELSE IF row.state = "left" THEN "member_rejoin_required"
             ELSE IF ~AllowedTransition(row.state, j.target) THEN "target_state_unsupported"
             ELSE "ok"
  IN
  /\ pc[h] = "update"
  /\ \/ GiveUp(h)
     \/ ReadBusy(h) /\ Retry(h)
     \/ bad # "ok" /\ Refuse(h, bad)
     \/ /\ bad = "ok"
        /\ TxRead(h)
        /\ seen' = [seen EXCEPT ![h] = row]
        /\ Goto(h, "update.write")
        /\ UNCHANGED <<job, attempt, answer, commits>>

\* UPDATE relay_space_members: compare with what was read, and set.
UpdateWrite(h) ==
  LET j == job[h]
      row == cache.members[j.member]
      fits == SameRow(row, seen[h])
  IN
  /\ pc[h] = "update.write"
  /\ \/ GiveUp(h)
     \/ ReadBusy(h) /\ Retry(h)
     \/ CanWrite(h) /\ ~fits /\ Retry(h)
     \/ /\ fits
        /\ TxWrite(h, [cache EXCEPT !.members[j.member] = WithState(row, j.target, j.at)])
        /\ Goto(h, "update.commit")
        /\ UNCHANGED <<job, attempt, seen, answer, commits>>

UpdateCommit(h) ==
  /\ pc[h] = "update.commit"
  /\ \/ GiveUp(h)
     \/ CommitMayBeBusy(h, AutoReaders) /\ Retry(h)
     \/ /\ TxCommit(h)
        /\ commits' = [commits EXCEPT ![h] = @ + 1]
        /\ seen' = [seen EXCEPT ![h] = NoRow]
        /\ Goto(h, "update.reread")
        /\ UNCHANGED <<job, attempt, answer>>

\* GetRelaySpaceMember outside the transaction: the row as it is by now.
UpdateReread(h) ==
  /\ pc[h] = "update.reread"
  /\ \/ GiveUp(h)
     \/ ReadBusy(h) /\ Retry(h)
     \/ UNCHANGED txVars /\ Reply(h, "transitioned")

-----------------------------------------------------------------------------
\* registerRelaySpaceMember and createRelaySpaceInvite: statements with no
\* transaction around them, and no retry; any error of SQLite, a lock or a
\* unique index included, is the answer.

DbError(h) == UNCHANGED txVars /\ Reply(h, "db_error")

RegisterCheck(h) ==
  LET j == job[h]
      bad == IF j.space \notin Spaces THEN "relay_space_not_found"
             ELSE AccountDeviceError(j.account, j.device)
  IN
  /\ pc[h] = "register.check"
  /\ UNCHANGED txVars
  /\ \/ Reply(h, "db_error")
     \/ bad # "ok" /\ Reply(h, bad)
     \/ /\ bad = "ok"
        /\ Goto(h, "register.insert")
        /\ UNCHANGED <<job, attempt, seen, answer, commits>>

\* disabled_at is not among the columns of this INSERT, whatever the state.
\* (A routing_member_id of the client's own that is taken is refused as a taken
\* device is; the model's ids are fresh.)
RegisterInsert(h) ==
  LET j == job[h]
      m == CHOOSE id \in FreeIds(disk.members) : TRUE
      row == [space |-> j.space, account |-> j.account, device |-> j.device,
              state |-> j.state, disabled_at |-> Never, via |-> NoRow]
      taken == DeviceTaken(disk.members, j.space, j.device)
  IN
  /\ pc[h] = "register.insert"
  /\ \/ DbError(h)
     \/ /\ ~taken
        /\ FreeIds(disk.members) # {}
        /\ AutoWrite(h, [disk EXCEPT !.members[m] = row])
        /\ commits' = [commits EXCEPT ![h] = @ + 1]
        /\ Goto(h, "register.reread")
        /\ UNCHANGED <<job, attempt, seen, answer>>

RegisterReread(h) ==
  /\ pc[h] = "register.reread"
  /\ UNCHANGED txVars
  /\ \/ Reply(h, "db_error")
     \/ Reply(h, "registered")

IssueCheck(h) ==
  LET j == job[h]
      row == disk.members[j.creator]
      bad == IF j.space \notin Spaces THEN "relay_space_not_found"
             ELSE IF j.creator = Nobody THEN "ok"
             ELSE IF row = NoRow THEN "creator_not_found"
             ELSE IF row.space # j.space THEN "invite_creator_wrong_space"
             ELSE IF row.state # "active" \/ row.disabled_at # Never
                  THEN "invite_creator_not_active"
             ELSE "ok"
  IN
  /\ pc[h] = "issue.check"
  /\ UNCHANGED txVars
  /\ \/ Reply(h, "db_error")
     \/ bad # "ok" /\ Reply(h, bad)
     \/ /\ bad = "ok"
        /\ Goto(h, "issue.insert")
        /\ UNCHANGED <<job, attempt, seen, answer, commits>>

\* The token hash is UNIQUE, as is a relay_space_invite_id of the client's own,
\* and max_claims has CHECK(max_claims >= 1).
IssueInsert(h) ==
  LET j == job[h]
      row == [space |-> j.space, max |-> j.max, count |-> 0,
              state |-> j.state, expires |-> j.expires]
      refused == disk.invites[j.invite] # NoRow \/ j.max = 0
  IN
  /\ pc[h] = "issue.insert"
  /\ \/ DbError(h)
     \/ /\ ~refused
        /\ AutoWrite(h, [disk EXCEPT !.invites[j.invite] = row])
        /\ commits' = [commits EXCEPT ![h] = @ + 1]
        /\ Goto(h, "issue.reread")
        /\ UNCHANGED <<job, attempt, seen, answer>>

IssueReread(h) ==
  /\ pc[h] = "issue.reread"
  /\ UNCHANGED txVars
  /\ \/ Reply(h, "db_error")
     \/ Reply(h, "invite_created")

-----------------------------------------------------------------------------
\* The process is killed and started again on the same file.
Crash ==
  /\ InFlight # {}
  /\ TxCrash
  /\ pc' = [h \in Handlers |-> "idle"]
  /\ job' = [h \in Handlers |-> NoRow]
  /\ attempt' = [h \in Handlers |-> 0]
  /\ seen' = [h \in Handlers |-> NoRow]
  /\ answer' = [h \in Handlers |-> "none"]
  /\ commits' = [h \in Handlers |-> 0]

ClaimStep(h) ==
  \/ ClaimReadInvite(h) \/ ClaimReadMember(h) \/ ClaimReserve(h)
  \/ ClaimInsert(h) \/ ClaimCommit(h) \/ ClaimAssemble(h)
UpdateStep(h) == UpdateRead(h) \/ UpdateWrite(h) \/ UpdateCommit(h) \/ UpdateReread(h)
RegisterStep(h) == RegisterCheck(h) \/ RegisterInsert(h) \/ RegisterReread(h)
IssueStep(h) == IssueCheck(h) \/ IssueInsert(h) \/ IssueReread(h)

\* What the goroutine of a request does between its arrival and its answer.
Serve(h) == ClaimStep(h) \/ UpdateStep(h) \/ RegisterStep(h) \/ IssueStep(h)

Next == Crash \/ \E h \in Handlers : Arrive(h) \/ Serve(h) \/ Deliver(h)

Spec == Init /\ [][Next]_vars

\* A runnable goroutine is eventually run; nothing forces a client to send.
FairSpec == Spec /\ \A h \in Handlers : WF_vars(Serve(h)) /\ WF_vars(Deliver(h))
-----------------------------------------------------------------------------
\* Properties

TypeOK ==
  /\ disk \in Tables /\ cache \in Tables
  /\ readers \subseteq Handlers
  /\ writer \in Handlers \union {NoHandler}
  /\ pc \in [Handlers -> Labels]
  /\ job \in [Handlers -> Jobs \union {NoRow}]
  /\ attempt \in [Handlers -> 0..MaxAttempts]
  /\ seen \in [Handlers -> InviteRow \union MemberRow \union {NoRow}]
  /\ answer \in [Handlers -> Answers]
  /\ commits \in [Handlers -> Nat]

Issued(tables) == {i \in Invites : tables.invites[i] # NoRow}
AdmittedBy(members, i) == {m \in Present(members) : members[m].via = i}

\* An invite's claim_count is exactly the number of members its claims have
\* inserted: no claim is counted without its member or the other way round,
\* whatever is refused, retried or killed between the UPDATE that counts
\* (relay_space_invite_claim.go:169) and the INSERT (209).
ClaimsAccounted ==
  \A i \in Invites :
    Cardinality(AdmittedBy(disk.members, i)) =
      IF i \in Issued(disk) THEN disk.invites[i].count ELSE 0

\* No invite ever admits more members than its max_claims, however many
\* handlers race for the last use of it.
WithinLimit ==
  \A i \in Issued(disk) :
    disk.invites[i].max # NoLimit =>
      Cardinality(AdmittedBy(disk.members, i)) <= disk.invites[i].max

\* The state column tells whether an invite can still be used: "active" ones
\* have a use left, a used one that says "claimed" has none, and only active
\* invites are ever consumed.
StateTellsUse ==
  \A i \in Issued(disk) :
    LET inv == disk.invites[i] IN
    /\ inv.state = "active" => inv.max = NoLimit \/ inv.count < inv.max
    /\ inv.count > 0 => \/ inv.state = "active"
                        \/ inv.state = "claimed" /\ inv.count = inv.max

\* A client is only told that an invite is used up or expired when it really is,
\* and that its member has left when it has: no answer is built on a reservation
\* that another handler was going to roll back, or on what was true only once.
RefusalsAreTrue ==
  \A h \in Handlers : pc[h] = "answered" /\ job[h].op = "claim" =>
    LET inv == disk.invites[job[h].invite] IN
    /\ answer[h] = "invite_exhausted" =>
         inv.state = "claimed" \/ (inv.max # NoLimit /\ inv.count >= inv.max)
    /\ answer[h] = "invite_expired" =>
         inv.state = "expired" \/ (inv.expires # Never /\ inv.expires <= job[h].at)
    /\ answer[h] = "member_left" =>
         \A m \in InSpace(disk.members, inv.space, job[h].device) :
           disk.members[m].state = "left"

\* Whoever is admitted claims before the invite expires, and the invite is still
\* active when the claim is committed, though its expiry was looked at in another
\* statement (relay_space_invite_claim.go:280) and never by the UPDATE.
AdmittedInTime ==
  [][\A h \in Handlers : pc[h] = "claim.commit" /\ commits'[h] > commits[h] =>
       LET inv == disk.invites[job[h].invite] IN
       /\ inv.state = "active"
       /\ inv.expires # Never => job[h].at < inv.expires]_vars

\* A claim request takes at most one use of an invite however often its loop
\* goes around, even when it loops or gives up after its own commit because a
\* re-read failed; "created" means it took one, and no refusal that names the
\* invite or the account follows one.
OneUsePerRequest ==
  \A h \in Handlers : job[h] # NoRow /\ job[h].op = "claim" =>
    /\ commits[h] <= 1
    /\ answer[h] = "created" => commits[h] = 1
    /\ pc[h] = "answered" /\ commits[h] = 1 =>
         answer[h] \in {"created", "already_active", "contended", "db_error",
                        "member_disabled", "member_left"}

\* "created" and "already_active" promise that the device is in the space by
\* a row of that account.
AdmittedMeansPresent ==
  \A h \in Handlers :
    (pc[h] = "answered" /\ job[h].op = "claim" /\ answer[h] \in {"created", "already_active"}) =>
      \E m \in InSpace(disk.members, disk.invites[job[h].invite].space, job[h].device) :
        disk.members[m].account = job[h].account

\* A member row, once committed, keeps its space, account and device, is never
\* lost, changes state only along the allowed transitions ("left" is final)
\* and has a disabled_at exactly while such a change says "disabled".
MemberRowsEvolve ==
  [][\A m \in Present(disk.members) :
       LET old == disk.members[m]
           new == disk'.members[m]
       IN  new # old =>
             /\ new = [old EXCEPT !.state = new.state, !.disabled_at = new.disabled_at]
             /\ AllowedTransition(old.state, new.state)
             /\ ConsistentRow(old) /\ ConsistentRow(new)]_vars

\* Every request is answered (or its process killed): handlers that keep
\* meeting each other's locks give up after MaxAttempts rounds.
EveryRequestIsAnswered == \A h \in Handlers : (h \in InFlight) ~> (h \notin InFlight)

\* The ledger that the committed tables stand for.
Ledger == INSTANCE MembershipLedger WITH
  terms <- [i \in Invites |->
              IF i \in Issued(disk)
              THEN {[max |-> disk.invites[i].max,
                     open |-> disk.invites[i].state = "active" \/ disk.invites[i].count > 0]}
              ELSE {}],
  admitted <- [i \in Invites |-> AdmittedBy(disk.members, i)],
  standing <- [m \in MemberIds |->
                 IF m \in Present(disk.members) THEN disk.members[m].state ELSE "none"]

\* The handlers, their retries and the locks together implement the ledger:
\* each commit is one of its steps and everything else is invisible.
RefinesLedger == Ledger!LedgerSpec

-----------------------------------------------------------------------------
\* What the code or its tests say, and the interleavings do not keep

\* "stored routing-member state is inconsistent" (internal/httpapi) is said of
\* rows that no operation of the store should produce.
StoredRowsConsistent ==
  \A m \in Present(disk.members) : ConsistentRow(disk.members[m])

\* The request that used up a claim says so: "created", claim_consumed = true.
ConsumedClaimIsReported ==
  \A h \in Handlers :
    pc[h] = "answered" /\ job[h].op = "claim" /\ commits[h] = 1 => answer[h] = "created"
=============================================================================
