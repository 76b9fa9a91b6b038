# Verification of the Cypher relay

Cypher is a small store-and-forward relay: an HTTP server (`internal/httpapi`) over one
SQLite file (`internal/db`, `migrations/`). Clients register devices, join relay spaces by
claiming invites, queue ciphertext envelopes for each other, list and acknowledge them, and
publish KeyPackages. Every request is one goroutine that runs a handful of SQL statements,
some inside a transaction and many not; there is no in-memory state. All that is hard here
comes from that: what happens when the statements of several requests interleave, meet each
other's locks (`SQLITE_BUSY`), fail half way, or are cut off when the process is killed.

This directory holds TLA+ models of the parts where that matters, TLC configurations that
check them, and proofs of the core properties for every size of the system.

## Inventory

| part | code | state | operations | hard behaviour | modelled in |
|---|---|---|---|---|---|
| Relay-space membership | `internal/db/relay_space_invite_claim.go`, `relay_space_member_state.go`, `relay_spaces.go`, `migrations/003` | tables `relay_space_invites`, `relay_space_members` | claim an invite, change a member's state, register a member, create an invite | races for the last use, a use counted whose INSERT then fails, the whole request retried (30 rounds) even after its own commit, reads that go stale | `RelaySpaceMembership`, `MembershipLedger` |
| Envelope delivery | `internal/httpapi/api.go` | tables `envelopes`, `envelope_acks` | submit, list an inbox, acknowledge; each inside a relay space and outside any | reads outside the transaction that writes, two writes per ack, lookups whose error is taken for an absence, a row loop that ends early | `EnvelopeDelivery` |
| KeyPackage publication | `internal/db/keypackage_publications.go`, `internal/httpapi/keypackage_publication.go`, `migrations/004` | table `keypackage_publications`, and an envelope for each row | publish | once per reference and per payload under races and retries; two writes; memberships read first and relied on at the commit | `EnvelopeDelivery` |
| SQLite and `database/sql` | `internal/db/db.go`; the library is external | the file, its locks, the writer's page cache | begin, read, write, commit, rollback, lone INSERT, crash | deferred transactions, who may commit, what may be BUSY | `SqliteTx` |
| Accounts, account invites, devices | `api.go` 74-324, `db.go` 128-156 | tables `invites`, `accounts`, `devices` | claimInvite, createDevInvite, SeedDevInvite, registerDevice, accountDevices | an UPDATE without a compare, check-then-insert, seeding at every start, references without foreign keys | `Directory` |
| Relay-space registry | `relay_spaces.go` 106-287 | table `relay_spaces` | create, list, get | lookups before a lone INSERT, a re-read after it | `Directory` |
| Schema migration | `db.go` 41-126, `migrations/*` | table `schema_migrations`, the schema | Migrate at every start | a kill between statements, two processes at once, files that cannot be applied twice, edited files, other releases | `SchemaMigration` |
| HTTP plumbing | `api.go` 66-72, 1253-1296 | none | routing, JSON, errors, `pathBetween` | pure text | no |
| Process, configuration | `cmd/cypher/main.go`, `internal/config` | none | migrate, seed, listen; `--print-config`, `--check-config` | an end or a kill at any step of a start | `Directory`, `SchemaMigration` (not the inspection flags) |
| Gate F probe | `internal/adversarial` | none | development probe | not linked into the relay | no |

How they interact: handlers call the store or run SQL themselves; the only shared state is
the SQLite file, so every interaction is through its tables and its locks. Submits, lists,
acks and publications read `relay_space_members`, which the membership requests change
meanwhile; publications put rows in `envelopes`, which submits and acks share. Everything
refers to accounts, devices and relay spaces, which the directory requests create and nothing
ever changes or deletes. A process migrates, then seeds its invite code, then listens; other
processes may be doing the same on the same file.

What makes each part correct:

- membership: an invite never admits more than `max_claims` or after its expiry; the count, the state column and
  the admitted members always agree; a refused or killed claim leaves nothing; a member's
  row only takes allowed transitions and `left` is final; an answer tells the truth; every
  request is answered;
- delivery: an envelope is acknowledged exactly if an acknowledgement is on record; nothing
  that was answered is ever lost; an inbox overlooks nothing;
- publication: once per reference and payload, both rows or neither, between active members;
- directory: a code makes one account; what a row refers to exists; rows stay as they are; a
  serving process has its seeded code;
- migration: a file has taken effect exactly if it is on record, once and in order; a process
  only serves on the schema it brought; a start on its own comes through whatever was left.

## Modules

`SqliteTx` is the contract of the storage engine that the other modules are built on: the
committed file `disk`, the content `cache` that the writing connection sees, the connections
that hold a read lock (`readers`) and the one that holds the write lock (`writer`). The
store opens the file in the default rollback-journal mode and uses deferred transactions: a
transaction takes its read lock at its first SELECT and the write lock at its first write,
and a commit needs every other read lock gone. A statement that meets a lock either waits
(its action is not enabled, or simply not taken yet) or fails with `SQLITE_BUSY`
(`...MayBeBusy`). After a failed `tx.Commit` the deferred `Rollback` of the handlers is a no-op
(`sql.ErrTxDone`); that the driver has ended the transaction by then is an assumption about it.
With `ReadLocks = TRUE` that is SQLite. With `ReadLocks = FALSE` a commit may also go through over
readers: a strict superset of SQLite's behaviours, used wherever a property should hold by
the code's own compare-and-set clauses and unique indexes.

`RelaySpaceMembership` models the four membership requests, one SQL statement per action:

| action | code |
|---|---|
| `Arrive`, `Deliver` | the handler takes a request; the answer is written |
| `ClaimReadInvite`, `ClaimReadMember`, `ClaimReserve`, `ClaimInsert`, `ClaimCommit`, `ClaimAssemble` | `claimRelaySpaceInviteOnce` statement by statement, with its loop in `ClaimRelaySpaceInvite` (`Retry`) |
| `UpdateRead`, `UpdateWrite`, `UpdateCommit`, `UpdateReread` | `updateRelaySpaceMemberStateOnce` and its loop |
| `RegisterCheck`, `RegisterInsert`, `RegisterReread` | `RegisterRelaySpaceMember` |
| `IssueCheck`, `IssueInsert`, `IssueReread` | `CreateRelaySpaceInvite` |
| `Retry`, `GiveUp` (parts of the claim and update steps) | a statement is refused as busy, or the race is lost: another round, or `contended`; it fails with any other error: `db_error` at once |
| `Crash` | the process is killed at any point and started again |

Any statement of a claim or of a state change may fail either way, the re-reads after the
request's own commit included: such a request answers `db_error` (or goes around once more) with
its change already on disk. A registration or an issue has no loop, so that any failure of it
ends in `db_error`.

State: `disk`/`cache` hold `[invites, members]`; per handler `pc`, `job` (the request),
`attempt`, `seen` (the row it read), `answer`, and the history `commits`. Two things are not
columns: `via` in a member row, the invite it came in by, which makes the accounting of
claims expressible, and `commits`.

`MembershipLedger` is what membership promises, with no handlers, locks or retries: `Issue`,
`Admit`, `Enroll`, `Change`. `RelaySpaceMembership` implements it (`RefinesLedger`): each
commit maps to one ledger step and everything else to a stutter.

`EnvelopeDelivery` models both routes of submit, inbox and ack (a job whose space is
`NoSpace` came by the route outside any relay space) and the publishing transaction with its
loop. `disk`/`cache` hold `[members, envelopes, acks, bindings]`. The membership requests
appear as `MembersChange`, a lone commit that moves one device's standing as
`MemberRowsEvolve` allows; handlers see nothing else of them. `earlier` (what an inbox had
when the request arrived) and `via` (which route inserted an envelope) are history.

| action | code |
|---|---|
| `SubmitLookup`, `SubmitSender`, `SubmitRecipient`, `SubmitInsert` | `submitEnvelope`, `submitRelaySpaceEnvelope` |
| `InboxLookup`, `InboxMember`, `InboxQuery` | `deviceEnvelopes`, `relaySpaceDeviceEnvelopes` |
| `AckRead`, `AckMember`, `AckDecide`, `AckInsert`, `AckUpdate`, `AckCommit` | `ackEnvelope`, `ackRelaySpaceEnvelope` |
| `PublishBegin`, `PublishSender`, `PublishRecipient`, `PublishFind`, `PublishEnvelope`, `PublishBinding`, `PublishCommit` | `publishRelaySpaceKeyPackageOnce`, and its loop: busy or not unique goes around again (`Retry`), any other error is `db_error` (`PublishFails`) |
| `Tick`, `MembersChange`, `Crash` | the clock, the membership requests, a kill |

`Mailbox` is what envelope delivery promises: `Send`, `Announce` (an envelope that publishes a
KeyPackage, bound to it from the start) and `Acknowledge`. `EnvelopeDelivery` implements it
(`RefinesMailbox`) under the mapping `Mail`, which reads `placed`, `bound`, `waiting` and
`receipts` off the committed tables.

`Directory` models what creates the rows that the other modules take as constants:

| action | code |
|---|---|
| `Start`, `Die`, `SeedLookup`, `SeedInsert`, `Listen` | `runCypherServer` after Migrate, with `SeedDevInvite`; any number of processes may be starting |
| `InviteLookup`, `InviteInsert` | `createDevInvite` |
| `ClaimRead`, `ClaimAccount`, `ClaimInvite`, `ClaimCommit` | `claimInvite`, one transaction |
| `DeviceLookup`, `DeviceInsert`, `ListDevices` | `registerDevice`, `accountDevices` |
| `SpaceAccount`, `SpaceDevice`, `SpaceInsert`, `SpaceReread`, `ListSpaces` | `CreateRelaySpace` with its validation, `GetRelaySpace`, `ListRelaySpaces` |
| `Crash` | the serving process is killed with its requests |

State: `disk`/`cache` hold `[invites, accounts, devices, spaces]`; `served` is the code of the
process that listens, or `Down`. A handler is a request or, in a job `start`, a process on its
way to listening. The code an account was made with is history, not a column.

`SchemaMigration` models `Store.Migrate`; its handlers are processes, each started with one of
`Releases` (a directory of files, of which each has one of `Contents`):

| action | code |
|---|---|
| `Launch`, `Kill` | a process is started, and dies |
| `Ensure` | `CREATE TABLE IF NOT EXISTS schema_migrations` |
| `Lookup` | the recorded checksum of the next file, and the comparison |
| `Apply`, `Record`, `Commit` | the transaction of a file that is not on record |
| `Finish`, `Failed` | `Migrate` returns; an error ends the process |

State: `disk`/`cache` hold whether the table exists, `recorded` (its rows) and `schema`, the
files in the order in which they took effect.

`MCRelaySpaceMembership`, `MCEnvelopeDelivery`, `MCDirectory` and `MCSchemaMigration` hold the
small instances: for the first two the sets of requests (`Jobs`) that clients may send, in any
order and any number of times; for migration the four files of the repository and its
releases, two of them with a file edited afterwards.

`RelaySpaceMembership_proofs` and, on top of it, `MembershipAnswers_proofs`,
`EnvelopeDelivery_proofs`, `Directory_proofs` and `SchemaMigration_proofs` hold the theorems.

Operators named with an underscore and a suffix (`Reserved_StateKept`,
`AckInsert_OnItsOwn`, ...) are faults: the definition as a plausible bug would have it. Each
stands before the definition it would replace, nothing refers to it, and each property of a
passing run is violated when its fault is put in place.

## Runs

| run | requests and bounds | properties | shows |
|---|---|---|---|
| `ClaimMix` | 2 handlers (symmetric), invites of 1 use, of no limit, issued as claimed or expired, claimed before and at the expiry; 2 devices; one member disabled and leaving; `ReadLocks = FALSE`, 3 rounds | `TypeOK`, `ClaimsAccounted`, `WithinLimit`, `StateTellsUse`, `RefusalsAreTrue`, `OneUsePerRequest`, `AdmittedMeansPresent`, `AdmittedInTime`, `RefinesLedger` | whatever races, fails and retries, `claim_count` is the number of members, the limit and the expiry hold, refusals are true, and the commits implement the ledger |
| `Lifecycle` | 2 handlers, 13 requests of all four kinds, 2 spaces, `ReadLocks = FALSE`, 2 rounds, `FairSpec` | `MemberRowsEvolve`, `EveryRequestIsAnswered` | racing transitions, registrations and claims only take legal steps, and handlers that keep refusing each other's commits give up in the end |
| `Acks` | 2 handlers (symmetric), an envelope in and one outside a space, 5 acks right and wrong, clock of 2, `ReadLocks = FALSE` | `TypeOK`, `AcksMatchState`, `AnswersAreDurable` | an ack is on record exactly if the envelope says so, under races, failures and crashes |
| `Publish` | 2 handlers, 7 publications that agree, conflict or name what does not exist, `ReadLocks = TRUE` | `PublishedOnce`, `AnswersAreDurable`, `PublishedBetweenActive` | at most once, both rows or neither, between active members |
| `Mix` | 2 handlers (symmetric), a publication, a submit, an ack, a list, `ReadLocks = FALSE` | `PublishedOnce`, `ScopedInboxIsComplete`, `SpaceEnvelopesAreInternal`, `RefinesMailbox` | the unique indexes suffice without read locks; a space's inbox overlooks nothing and its envelopes never leave the circle of its members; the commits implement the mailbox |
| `Directory` | 2 handlers and 2 codes (symmetric), 3 accounts, 3 devices, a space; every request on them; `ReadLocks = TRUE` | `TypeOK`, `OneAccountPerCode`, `ReferencesHold`, `AnswersAreDurable`, `SeededWhenServing`, `ListedSpacesAreComplete`, `DirectoryOnlyGrows` | one account per code though the UPDATE compares nothing; references hold with no help from foreign keys; rows never change, so that the other modules may take them as constants |
| `Migrations` | 2 processes, 4 files, 6 releases, `ReadLocks = TRUE`, `FairSpec` | `TypeOK`, `RecordedIsApplied`, `AppliedOnceInOrder`, `MigratedIsComplete`, `SchemaOnlyGrows`, `LoneStartMigrates` | files take effect once, in order and exactly if on record; a process only serves on the schema it brought; a later start on its own comes through |

And five runs that end in a violation, each of something a test, a message or a document of
the repository says (quoted under `findings` in `PROJECT.json`):

- `RegisteredDisabled`: `RegisterRelaySpaceMember` stores a member in state `disabled` with
  `disabled_at` NULL; every later transition of it is refused as inconsistent.
- `ClaimReport`: the SELECTs after the commit of a claim are busy, the loop goes around, and
  the request that consumed the use answers `already_active`, `claim_consumed` false.
- `AckTwice`: both acks look for an earlier acknowledgement before their transactions, both
  insert one, and answer with different times. (The records stay consistent: `Acks`.)
- `UnscopedInbox`: `deviceEnvelopes` never asks `rows.Err()`, so an error while fetching cuts
  the list short with 200; the relay-space route asks. The first row comes with `Query`, which
  returns its error, so that a list is only ever cut short after it (`Fetched`): two envelopes wait.
- `DeviceLookup`: `deviceExists` returns `err == nil`: a lookup that meets a lock becomes a
  404 for a device that exists.

Two windows are open in the code, modelled, and not held against it because nothing promises
more than a check at the time of the request: a submit in a relay space checks both
memberships and inserts in separate statements, and so does the creation of an invite with
its creator. `SpaceEnvelopesAreInternal` says nothing of the window: it asks that both devices
were made members at some time, so that neither lookup may be missed. The publication route checks inside its transaction and has no such window
(`PublishedBetweenActive`, which its fault `PublishReads_OutsideTx` breaks).

### Bounds, and why they are enough

- Two handlers: every conflict in the code is between two transactions, or between a
  transaction and a lone statement. The theorems cover any number of handlers, of
  retries and of rows for every safety property below, with invites of any number of uses.
- `MaxAttempts` is 2 or 3 for the 30 of the code: a round remembers nothing of the one before
  but the attempt number, and what a first, a middle and a last round can do all occur.
- Ids (`MemberIds`, `Envelopes`, `AccountIds`, `DeviceIds`): a request that may insert arrives only while each handler
  could find a fresh id. Uuids are fresh, so a request never fails for want of one.
- `Times = {1, 2}`: before, at and after an expiry. `MaxTime` is 2 where two different
  acknowledgement times matter.
- Two codes in `Directory`: one that two starts or claims may race for, and another; no more
  than two can be involved in a conflict of two handlers. One space, whose id both may ask for.
- Four files and six releases in `Migrations`: those of the repository, the three directories
  it has had before, and two in which a file that creates or one that alters was edited.
- Symmetry in handlers, and in the codes of `Directory`, of which none is told apart; never in
  a run with a liveness property.
- Deadlock is checked in every run.

### Fairness

Safety needs none. `Lifecycle` assumes weak fairness of `Serve(h)`, the goroutine of a request
that has arrived, and of `Deliver(h)`: the Go scheduler runs a runnable goroutine eventually,
SQLite's busy error returns to it, and each wait in the loops is a bounded sleep. Nothing is
assumed of clients (`Arrive`) or of `Crash`; a crash ends a request. `ReadLocks = FALSE` only
adds commits that read locks would have refused, and a handler whose commit is refused is never
stuck: the statement may fail instead.

`Migrations` assumes weak fairness of each process's `Migrate` steps, for the same reasons.
Nothing makes anyone start a process, kill one or leave it alone; `LoneStartMigrates` promises
an end only to a start that stays alone and whose files are as they were when applied. A start
beside a process that already serves counts as alone: the locks that the requests of that
process take meanwhile are not in this module. Disk
errors are left out of that module, since no start could be promised to succeed with them.

## Theorems

`RelaySpaceMembership_proofs` proves, for any sets of handlers, spaces, accounts, devices,
invites and members, any requests, any `MaxAttempts` and both values of `ReadLocks`:

| theorem | statement |
|---|---|
| `SpecTypeOK` | `Spec => []TypeOK` |
| `SpecShape` | `Spec => []Shape`, the handlers' own inductive invariant |
| `SpecClaimsAccounted` | `Spec => []ClaimsAccounted` |
| `SpecWithinLimit` | `Spec => []WithinLimit` |
| `SpecStateTellsUse` | `Spec => []StateTellsUse` |
| `SpecMemberRowsEvolve` | `Spec => MemberRowsEvolve` |

The assumptions are `HandlersAssumption` (SqliteTx) and `MembershipAssumption`: the markers
for "absent" are not rows or ids, times and limits are positive, `MemberIds` is finite.

The argument has three layers, because none of the properties is inductive alone.

1. `Shape` is type correctness with what a handler knows at each step (`Stages`: from
   `claim.member` on, its invite exists and its account and device are real) and how locks
   and steps go together (`Locks`: the writer is exactly the handler between its first write
   and its commit, `cache = disk` when there is none, and the cache never lacks a committed
   row).
2. `Accounting`, relative to `Shape`: in `disk` each invite's count is the number of members
   that came by it, stays within `max` and agrees with the state column; in `cache` the same
   holds but for the one claim between its UPDATE (counted) and its INSERT (not yet a member).
   That pending claim is why `ClaimsAccounted` alone is not inductive: the commit publishes
   `cache`, so `cache` must be accounted for at that step. The UPDATE's WHERE clause, which
   looks at the row as it is now and not as it was read, carries `WithinLimit`.
3. `Evolution`, relative to `Shape`: every row in `cache` differs from the row in `disk` by a
   legal transition at most, and a handler at `update.write` holds a consistent row and an
   allowed target. The UPDATE compares the stored state and `disabled_at` with what was read,
   so the row it changes is legal to change; the commit then publishes a legal step.

`MembershipAnswers_proofs` goes on from there, for the same constants and under the same
assumptions:

| theorem | statement |
|---|---|
| `SpecPromises` | `Spec => []Promises`, the fourth layer |
| `SpecOneUsePerRequest` | `Spec => []OneUsePerRequest` |
| `SpecAdmittedMeansPresent` | `Spec => []AdmittedMeansPresent` |
| `SpecRefusalsAreTrue` | `Spec => []RefusalsAreTrue` |
| `SpecAdmittedInTime` | `Spec => AdmittedInTime` |
| `SpecRefinesLedger` | `Spec => RefinesLedger` |

4. `Promises`, relative to `Shape` and `Evolution`, is about single rows where the other
   layers count. Every claim that commits publishes `cache`, so `Pending` says row by row what
   `cache` is ahead of `disk` by: a claim counted (`Counted`), then its member entered
   (`Entered`), or one member moved (`Moved`). `Proper` is what the unique index keeps: a
   device is a member once per space, and of its own account. `Uses` carries
   `OneUsePerRequest`: a request whose claim was committed has its member (`Admitted`), and
   a claim that finds its member never reaches the reservation again, whatever made it loop;
   if it gives up instead, `Told` has `db_error` among the answers that may follow a use.
   `Reads` says that the invite a claim read is an earlier state of the one on disk
   (`InviteKeeps`, which keeps the expiry) and that the claim came before it expired, and `Told`
   what the answers rest on. What a handler knows survives the
   steps of the others because rows are never lost, counts only grow, an expiry stays and
   `claimed`, `expired` and `left` are final (`Keeps`, `OtherKnows`), and because nobody else writes while it does (`WriterAlone`).

With that, `NextCommits` lists the five things that a step may do to the committed tables, and
each is mapped to `Issue`, `Admit`, `Enroll`, `Change` or a stutter. `Admit` needs `Accounting`
as well: the ledger compares the number of members that were admitted with the limit, the code
its counter.

`EnvelopeDelivery_proofs` proves, for any handlers, spaces, devices, envelopes and KeyPackages,
any requests, any `MaxAttempts` and `MaxTime`:

| theorem | statement |
|---|---|
| `SpecIInv` | `Spec => []IInv`, the inductive invariant |
| `SpecTypeOK` | `Spec => []TypeOK` |
| `SpecAcksMatchState` | `Spec => []AcksMatchState` |
| `SpecAnswersAreDurable` | `Spec => []AnswersAreDurable` |
| `SpecPublishedOnce` | `Spec => []PublishedOnce` |
| `SpecScopedInboxIsComplete` | `Spec => []ScopedInboxIsComplete` |
| `SpecSpaceEnvelopesAreInternal` | `Spec => []SpaceEnvelopesAreInternal` |
| `SpecPublishedBetweenActive` | `ReadLocks => (Spec => PublishedBetweenActive)` |
| `SpecRefinesMailbox` | `Spec => RefinesMailbox` |

The assumptions are `HandlersAssumption` and `DeliveryAssumption` (the markers are not ids or
rows, the bounds are positive, `Envelopes` is finite); only `SpecPublishedBetweenActive` takes
`ReadLocks`, since a member could be disabled between the check and the commit without them.
None of the properties is inductive: a commit publishes `cache`, which holds half an
acknowledgement or half a publication for most of a transaction. `IInv` says what is so of the
tables on disk (`Sound`: `Acked`, `Paired`, `Once`, `Internal`), what each handler knows at each
of its steps (`SubmitStage`, `AckStage`, `PublishStage`, `Told`), and with it what `cache` is
ahead of `disk` by: `Receipted`, then `Closed`; `Posted`, then `Bound`. `PublishStage` has
`~Published` at the commit, which the unique indexes established at the INSERT of the binding
and which lasts because the handler is then the writer: that is why `PublishedOnce` needs no read
locks. Knowledge survives the steps of others because tables only grow (`Grows`, `OtherKnows`)
and a writer is not disturbed (`Untouched`). For the refinement, `NextMailbox` maps the commit
of each kind of request to `Send`, `Acknowledge` or `Announce`, and every other step to a
stutter; that an acknowledgement acknowledges is `AckStage`, not the statement that commits.

`Directory_proofs` proves, for any handlers, codes, accounts, devices and spaces:

| theorem | statement |
|---|---|
| `SpecIInv` | `Spec => []IInv`, the inductive invariant |
| `SpecTypeOK` | `Spec => []TypeOK` |
| `SpecOneAccountPerCode` | `Spec => []OneAccountPerCode` |
| `SpecReferencesHold` | `Spec => []ReferencesHold` |
| `SpecAnswersAreDurable` | `Spec => []AnswersAreDurable` |
| `SpecSeededWhenServing` | `Spec => []SeededWhenServing` |
| `SpecListedSpacesAreComplete` | `Spec => []ListedSpacesAreComplete` |
| `SpecDirectoryOnlyGrows` | `Spec => DirectoryOnlyGrows` |

The assumptions are `HandlersAssumption`, `DirectoryAssumption` (the markers are not ids or
codes or each other, ids are finitely many) and, in each theorem, `ReadLocks`: without SQLite's
read locks two claims of one code could both commit, since `UPDATE invites` does not compare.
`OneAccountPerCode` is not inductive: a commit publishes the cache of the claim. `IInv` adds
what that cache is (`NewAccount`: the file and one account, then its invite too), that the
invite is unclaimed in the file from the claim's SELECT to its commit, and that just the claims
between those steps hold read locks (`Locks`). Whoever commits is then alone (`Alone`), so that no
claim's knowledge is ever overtaken; everything else that handlers know (`SpaceStage`, `Stage`,
`Told`) survives because tables only grow (`OtherKnows`, from `Grows`).

`SchemaMigration_proofs` proves, for any processes, number of files, contents and releases and
both values of `ReadLocks`:

| theorem | statement |
|---|---|
| `SpecIInv` | `Spec => []IInv`, the inductive invariant |
| `SpecTypeOK` | `Spec => []TypeOK` |
| `SpecRecordedIsApplied` | `Spec => []RecordedIsApplied` |
| `SpecAppliedOnceInOrder` | `Spec => []AppliedOnceInOrder` |
| `SpecMigratedIsComplete` | `Spec => []MigratedIsComplete` |
| `SpecSchemaOnlyGrows` | `Spec => SchemaOnlyGrows` |

The assumptions are `HandlersAssumption` and `MigrationAssumption`. `IInv` says that the schema of
the file is always the first so many files, and that just these are on record with their
contents (`Sound`); that the cache of the writer is ahead by the one file it is at, and then by
its record (`Ahead`); and that what a process has behind it is on record as it brought it
(`StageOK`). That the file a process is at is the first it has to do (`FirstIsLeast`) comes from the
library's theorem on well-founded orders.

Only model-checked are `EveryRequestIsAnswered` and `LoneStartMigrates`, since liveness under
fairness is out of the prover's reach, and the five runs that end in a violation: what they
check is false. Every other property of a run is a theorem.

## What the models leave out

- Accounts, devices and spaces are constants of the membership and delivery modules: no
  statement updates or deletes one (`DirectoryOnlyGrows`), and what a client can name of them
  existed before it could.
- Validation of request bodies, trimming, base64 and hashing are pure, come before the first
  statement and never read the store; requests in `Jobs` are those that pass.
- Routing and `pathBetween`: pure text, no state.
- An `expires_at` that cannot be parsed (`invite_integrity_error`), and the order of lists,
  which is by a time in whole seconds with ties undefined.
- Ids chosen by clients of the registration and invite routes: a clash is a refused INSERT,
  the same step as a busy one. (The id of a relay space is chosen by the client in
  `Directory`.)
- `publishRelaySpaceKeyPackageOnce` looks up by reference and by payload in two SELECTs of
  one transaction; they are one action, since a read lock is held.
- In `EnvelopeDelivery` and `Directory` any statement may fail at any time (`db_error`, or
  another round of the loop), which includes every way a lock can refuse it; liveness is not
  claimed there. In `RelaySpaceMembership` any statement may fail at any time too, but one that
  is refused as busy is tied to a lock that another handler holds (`ReadMayBeBusy`,
  `CommitMayBeBusy`).
- `createDevInvite` answers `not_found` outside dev mode and `SeedDevInvite` returns early
  without a code. Neither can happen in the program: `config.Load` replaces an empty
  `CYPHER_DEV_INVITE` by `dev-invite`, so that there is always a code.
- `accountDevices` never asks `rows.Err()`, like `deviceEnvelopes`; `ListDevices` may answer any
  part of the list and no property holds it to more.
- `disabled_at` and `revoked_at` of accounts, devices, invites and spaces: read by some
  statements, set by none.
- Foreign keys, whose pragma is set on one pooled connection: no module relies on them, and
  `ReferencesHold` shows the references of the directory without them.
- A migrations directory that changes during a start, or whose files are not a beginning of
  the files in order: every release of the repository is.
- More than one serving process on one file (on different ports). Starting processes are in
  `Directory` and `SchemaMigration`; the locks are the same for serving ones, of which a crash
  would then kill one's handlers only.

## Plan

Done: `SqliteTx`; `RelaySpaceMembership` with its ledger, `EnvelopeDelivery` with publications and
its mailbox, `Directory` and `SchemaMigration`; the proofs of every safety property, action
property and refinement that the runs check.

Open: what `SqliteTx` promises as a whole, that the commits of the transactions of any handlers
are those of one after the other, is used by each proof in its own form (`WriterAlone`, `Alone`,
`Untouched`). Proving the lock discipline once, over `SqliteTx` alone, would let the four proofs share it.
