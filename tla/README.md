# A verification development for ci-connect-api

`ci-connect-api` is the account service of CI-Connect: a multithreaded HTTP
server (`ciconnect-service`) that keeps users, groups, memberships and pending
group requests in DynamoDB behind in-memory caches, and a provisioner
(`ci-connect sync_users`) that turns what the service says into unix accounts on
a login host. This directory holds TLA+ models of its core logic, TLC
configurations that check them on small instances, and proofs that TLAPS checks
for every value of the constants. Paths below are relative to `src/src/` unless
they name another directory.

## 1. Inventory

The server runs `server.multithreaded()`: every handler may run at the same time
as every other, in one process and, against the same tables, in several. There
is no lock across two operations; what is atomic is one operation of a
`cuckoohash_map` or of `concurrent_multimap`, and one request to DynamoDB. No
read asks for consistency, so any may return what was there before. Each process
has caches of its own; the modules that have caches model those of one process.
What another process writes, they show only once their entries have expired, and
nothing in the code promises more. `log_fatal` throws, so a failed query usually
ends the handler.

| Component | State | Operations | What makes it hard | What makes it correct | Modelled in |
|---|---|---|---|---|---|
| Unix ID allocation (`PersistentStore.cpp` 581-758, 1407-1495) | `next_unixID` of the record `!_NextUnixID`; `unixID` of each record; index `ByUnixID` | `allocateUnixID`, `allocateSpecificUnixID`, `reserveUnixID`, `addUser`, `addGroup`, `addGroupRequest` | optimistic retry loops; an index that lags; half-written records; wrap-around | no two records share an ID; a call ends; "unable to allocate" only when it is true | `UnixIDAllocation`, `IDRegistry`, `UnixIDScan` |
| Membership records (1114-1224, 1346-1403, 1635-1687) | items `user:group` of the users table; `groupMembershipCache`, `...ByUserCache`, `...ByGroupCache` | `setUserStatusInGroup`, `removeUserFromGroup`, `userStatusInGroup`, `getUserGroupMemberships`, `getMembersOfGroup` | three caches changed one by one, before or after the database; refills that overlap writes | caches agree with the database between calls, and again after a race | `MembershipStore` |
| `concurrent_multimap` (`include/concurrent_multimap.h`) | categories: records and one expiration time | `insert_or_assign`, `find`, `update_expiration`, `erase` | the expiration of a category is not that of its records | a live category is complete | as used by `MembershipStore` |
| External commands (`Process.cpp`) | `processTable`, `reapFlag`, the handles | `startProcessAsync`, handle constructor and destructor, `reapProcesses`, `runCommand` | a signal handler, a reaper thread and the caller meet in one table | the caller gets its own child's status, always | `ProcessReaper` |
| User records (714-1112) | users table; `userCache`, `userByTokenCache`, `userByGlobusIDCache` | `addUser`, `getUser`, lookups by token and Globus ID, `updateUser`, `removeUser`, `listUsers` | one record in three caches; updates are upserts; read-modify-write in the handlers | a revoked token is refused; no update is lost; no half-written record | `UserStore`, `Account` |
| Secondary attributes (1226-1325, 2023-2122) | attribute items and their caches | set, get and remove | filled under one key and read under another | a change is seen in the end | not modelled |
| Groups and requests (1407-2021) | groups table; `groupCache`, `groupRequestCache` | `addGroup`, `addGroupRequest`, `approveGroupRequest`, `removeGroup`, `updateGroup`, `updateGroupRequest`, lookups | many-step handlers; upserts; cached pending groups; failed reads taken for empty answers | a group is never brought back, nor left with members when it is gone | `GroupRecords`, `GroupLifecycle` |
| Table start-up (`PersistentStore.cpp` 194-560) | tables, indices, the initial ID records | `InitializeUserTable`, `InitializeGroupTable` | a crash between two steps | a table in use has its ID record | not modelled |
| User handlers (`UserCommands.cpp`) | none of their own | create, update and delete a user, replace a token, membership changes over the group hierarchy | several store calls per request; checks made before acting | membership in a group implies one in the enclosing group | `UserStore`, `GroupHierarchy`; `createUser`'s test in `UnixIDAllocation` |
| Group handlers (`GroupCommands.cpp`) | none of their own | create, update, delete, approve, deny, rename | the same; the parent is named apart from the group, whose name may be absolute | a request is decided once; groups stay within groups | `GroupRecords`, `GroupHierarchy` |
| Multiplexer (`ciconnect_service.cpp` 174-277, `include/ThreadPool.h`) | pool of 8 threads, task queue, futures | `multiplex`, `enqueue`, worker loop, destructor | a bundle that contains a bundle; references to a handler's locals | every bundle is answered | `MultiplexPool`, `BundleService` |
| Provisioner (`sync_users.cpp`) | lists of accounts and groups it made; the host's accounts | fetch, compare, create, update, delete, in phases | crashes between the change and the list; failing commands | never touches an account it did not make, and loses track of none | `Provisioner` |
| Lock file (`sync_users.cpp` 196-267) | a file with a pid | test, write, remove | the test and the write are two steps; the pid may be stale | one provisioner at a time | `LockFile` |
| SSH keys (`UserCommands.cpp` 65-216) | none | `validateSSHKeys` | a scanner over lines | accepts what it should | not modelled |
| Provisioning plug-ins | the users' files | external programs | I/O | - | not modelled |
| Authentication, configuration, entities, HTTP client, e-mail, logging, version | none that changes | - | - | - | not modelled: stateless or pure I/O |
| crow, rapidjson, libcuckoo, cppcodec | - | - | - | - | third party; assumed to do what they say |

How they interact: a handler authenticates a token (user store), tests
permissions (membership store), then calls one or more store operations; the
multiplexer runs handlers on pool threads and waits for them; the provisioner
reads users, groups and memberships over HTTP, which is to say through the
caches, and runs `useradd` and the like through `runCommand`.

The hazards this makes for are listed, each at its line, in `PROJECT.json`.

## 2. Modules and their correspondence with the code

### Unix IDs: `UnixIDAllocation`, `IDRegistry`, `UnixIDScan`

The allocation of an ID is the same code for users and for groups; the call
around it is that of users. A `Worker` is one call of `addUser` with the test
`createUser` makes before it; its `pc` follows the database requests the call
makes, and everything between two requests is one step. (`createGroup` goes on
when its test has failed; that is in `GroupRecords`.)

| Step | Code |
|---|---|
| `CheckName` | `createUser`'s `unixNameInUse` |
| `ReadHint` | `getNextIDHint`, first time round |
| `CheckAvailability` | the query of `ByUnixID` in `checkIDAvailability` |
| `Reserve`, `ReserveRefused` | the transaction of `reserveUnixID`: the hint is compared and set, and a record with a key and an ID only is put unconditionally |
| `RereadOrdinary` | the rest of the loop of `allocateUnixID`: next candidate, or start again where the hint has moved to, or give up |
| `RereadSpecific` | the loop of `allocateSpecificUnixID`, whose inner `initialID` hides the outer one |
| `PutRecord` | `PutItem` of the whole record |
| `CallFails`, `Crash` | `log_fatal` after any other request; the end of the process |
| `Remove` | `DeleteItem` of `removeUser` or `removeGroup` |

The range is half-open as in the code (`nextID == maxID` wraps). DynamoDB reads
without `ConsistentRead`, and all queries of an index, may be stale: `replica`
and `hintReplica` are what a stale read returns, and `Propagate...` brings them
up to date. With `Lagging = FALSE` they are not used. `lapped` is a history
variable.

`IDRegistry` is the abstract specification: a function from names to IDs, in
which a name gets an ID once, nobody else has it, and it goes when the record
goes. `UnixIDScan` adds the history variable `freeThroughout`, to say that an
allocation that gives up had a reason, and the refinement mapping.

### Memberships: `MembershipStore`

A `Thread` runs one of the five functions. `work` is the list of records it has
still to write to the caches, in the order `groupMembershipCache`, by user, by
group, each write a step of its own. `setUserStatusInGroup` writes the database
first and the caches after; `removeUserFromGroup` the caches first. A read that
finds a live cache changes nothing and is not a step. `CacheRecord`'s expiration
is the flag `live`, which `Expire...` may take down at any time; a category of
`concurrent_multimap` has one flag for all its records, is born expired
(`insert_or_assign`) and is renewed as a whole (`Extend`, `update_expiration`).
Membership states are compared only for equality.

### Commands: `ProcessReaper`

A `Caller` forks (`startProcessAsync`), constructs its handle (`uprase_fn` on
`processTable`), waits (`collectChildOutput`'s `done()` loop) or is unwound
(`Abandon`), and destroys the handle (`erase_fn`). The reaper's steps are the
lines of `reapProcesses`; `setExitStatus` writes the value and the flag in two
steps, `RecordStatus` and `FinishRecord`, inside the lock of the record
(`Locked`), which keeps constructors and destructors out but not readers of the
handle. The kernel (`ChildExits`, `signal`, `proc`) is external.

### Groups and requests: `GroupRecords`, `GroupLifecycle`

One table holds both: `item` is the set of attributes of a name's item, which
decides what `getGroup` and `getGroupRequest` make of it (`Readable`,
`ReadableAsRequest`; on anything else `findOrThrow` throws). Each of the two has
its cache. A thread handles one call; `pc` names the store operation it comes to
next, and each operation is one step: `GetGroup` and `FillGroup` (the cache is
filled some time after the read), `GetRequest`, `FillRequest`, `Reserve` (the
allocation puts an item with only an ID), `Put`, `Update`, `UpdateRequest` (both
are upserts), `Approve`, `SetAdmin`, `RemoveMembers`, `EraseCaches`,
`DeleteItem`. `AfterGroup` and `AfterRequest` are the handlers' tests between
them. A rename is one call that works on two names. What caches are erased or
replaced together is one step. `ReadFails` is what the code makes of a failed
read, which is mostly nothing: an invalid `Group` or an empty list comes back
and the handler goes on. `ReadsFormer` is a `GetItem` answered by a copy of the
database that lags: with any item the name may have had in an earlier life, or
what `ReadFails` gives if it had none yet. The answer goes to the caches and to
the handler, which may write it back.

`GroupLifecycle` says what the handlers promise of each name: founded or
requested under a free name, a group only by approval, members only while it is
a group, the record last. `GroupRecords` implements it with `kind` read off the
item, and `unclear` for names on which the code promises nothing: two calls that
write have met there, a call has acted on an outdated read or on a cache entry
that one, or a race, had left wrong, a failed read was taken for an empty
answer, or an allocation was not completed. `unclear` and `stale` are history
variables; a name leaves them when nothing is left of what happened.

### Nested groups: `GroupHierarchy`

`Above[g]` are the groups that enclose `g`, `Alike[g]` those whose names begin
with the characters of its name: that, not `Above`, is what
`removeUserFromGroup` goes by (1049), although its comment speaks of memberships
"within the target group". A call begins with the step that makes its first
tests; those that are refused change nothing and are left out. After it come the
test in the enclosing group and the write (`CheckStatus`, `CheckEnclosing`,
`WriteStatus`), or the writes of a creation, an approval or a renaming
(`Create`, `WriteGroup`, `Approve`, `WriteApproval`, `SetAdmin`, `Rename`,
`WriteRequest`), each a step that takes for granted what was tested before. A
removal lists memberships and then removes them one by one; a deletion lists
groups, takes them in descending order of their names (`NextGroup`), lists the
members of each and removes those one by one; denial and renaming end with the
removal of one.

The parent in the URL of a creation, an approval or a denial (`other`) is a name
of its own: the rights and the requester's membership are tested there, while
the new group may be anywhere, since `canonicalizeGroupName` takes absolute
names as they are; a renaming tests them in the group the old name is within and
may go anywhere too. A call may stop at any step (`Fail`, `Restart`), and reads
may fail and be taken for empty (`StatusReadFails`, `GroupReadFails`,
`ListFails`). An approval that fails goes on and makes the requester an admin of
what may still be a request (`ApproveFails`); `approveGroupRequest` reads the
request again and fails if it is gone.

A read that succeeds finds what is in the database here, which is an assumption
of this module: what lagging reads and the caches do to a record is the subject
of the others. `raced` collects the groups for which nothing is promised: calls
have met there, a list was cut short or a removal stopped half-way, or a failed
read was taken for an empty answer; or the group was made under another parent
than the one in its name (`Stray`), or one that is gone; or it is left within a
request that was removed (`Left`). Calls meet where their `Scope`s do: the one
group that a change of a membership or a creation is about, every group alike
for a removal, and for approval, denial, renaming and deletion the group with
all that are within it, since each of these may end by removing it.

### Accounts: `UserStore`, `Account`

The record of one account, with its token and Globus ID, and the three caches by
name, token and Globus ID, whose records are copies. Lookups, `updateUser` and
`removeUser` are followed cache operation by cache operation; `old` and `new`
are the two copies a handler passes to `updateUser`. A record that has expired
is ignored by lookups but used by `removeUser`, so `userCache` distinguishes
expired from absent. Globus IDs that were given up stay cached until they expire
(`left`): the code does not erase them. `past` are the records the item has
had; a read or a query of an index may find one of them, a replaced token lead
to the account, a name in use seem free (`ReadsFormer`), or nothing be found
(`Fail`). `Account` is the promise: tokens are new, an edit leaves the token
alone, a replacement the rest. It is kept until calls that change the account
meet, or one acts on a read that was outdated (`unclear`).

### The pool: `MultiplexPool`, `BundleService`

`Parts[c]` are the calls a bundle asks for; a call that is no bundle has none.
`Push` is `enqueue` under the lock, `Notify` its `notify_one` after it, `Get`
one `future::get` with its `try`, `TakeTask`, `Wait` and `End` a worker's loop,
`Stop` the destructor. `BundleService` promises that calls are started and
answered once, a bundle after its parts.

### The provisioner: `LockFile`, `Provisioner`

`LockFile` is the constructor in three steps (test, truncate, write) and the
destructor, for several processes that stand for their PIDs and may vanish at
any time. The test reads the PID and asks whether there is such a process in one
step; an overlap of two constructors, which the code does not exclude, puts
exclusion in doubt anyway. `Provisioner` extends it with `SystemState` and the
phases of `main`: what `useradd`, `usermod`, `userdel`, `groupadd` and
`groupdel` accept and do is modelled as the shadow tools do it (a taken name and
a missing group are refused; a group that is an account's first is not deleted).
Each command is a step. An exception unwinds to the two `Write...` steps, a kill
does not; a failed write in the destructor terminates the process. Steps of the
lock are the steps of `LockFile`, and `LockSpec` checks that the rest of the
program leaves its variables alone.

The administrator may delete any account, and any group that is nobody's first,
and make any that is not there (`AdminChanges`, `AdminChangesGroup`), also under
a name that is in a list: `reused` are the names she has taken in that way. What
the server can answer (`ServerStates`) has no memberships in groups it does not
list, as in a request with members or a group half removed, and the accounts of
others begin with none of its groups as their first. A run is undisturbed, for
`Converged`, if nothing fails and nobody else changes anything from the reading
of its lists on.

## 3. Runs

Every passing run explores its instance completely. `CHECK_DEADLOCK FALSE` is in
each of them because the number of requests is bounded and the system rests when
there are no more.

| Run | Instance | Shows |
|---|---|---|
| `UnixIDConcurrent` (114 thousand states) | 2 calls, 2 names, 3 IDs, of which a client may ask for ID 2; stale reads, refusals, failures, crashes, deletions | `TypeOK`; `OrdinaryIDsUnique`: until the hint has gone round, no two records have one ID that the store chose for both; `OrdinaryCallsEnd`: no such call retries for ever |
| `UnixIDSequential` | 1 call at a time, 6 of them, 3 names, 3 IDs, deletions, refusals | `IDsUnique` without exception through several turns of the range; `ExhaustionIsReal`; `RegistrySpec` |
| `UnixIDSpecificCalls` | 2 calls, fresh reads | a counterexample: see finding 1 |
| `MembershipSequential` (890 thousand states) | 1 thread, 1 user, 2 groups, 3 changes, failing writes | `TypeOK`; `CachesAgree`: between calls, whatever is live agrees with the database, but for keys whose removal failed half-way |
| `MembershipHeals` (307 thousand states) | 2 threads, 1 membership, 2 changes, failing writes, stale reads | `StatusHeals`: a race may leave `groupMembershipCache` wrong, but not for good |
| `ReaperRaces` (261 thousand states) | 2 callers, 3 commands, abandonment | `StatusIsOwn`, `StatusNotLost`, `TableClean` |
| `ReaperLostSignal` | 1 caller, 2 commands, as `sync_users` runs them | a counterexample: see finding 2 |
| `PoolNestedBundles` (52 thousand states) | 2 workers; a bundle of a call and a bundle, and a bundle of a bundle | `RequestsOutliveTasks`, `RunOnce`, `ServiceSpec`; `AnsweredUnlessAllBlocked`: nobody waits for ever unless bundles inside bundles hold all workers; `PoolEnds` |
| `ProvisionerRuns` (3.7 million states) | 2 processes, 3 launches, 1 user, 2 groups, 1 failure or death, 1 change from outside | `Exclusive` and `LockSpec`; `ForeignUntouched`: what others made is not changed, unless its name was in a list; `Tracked`: the lists name all accounts it made; `Converged`: two undisturbed runs make the host what the server says |
| `GroupRequests` (1.8 million states) | 2 threads, 2 names, 3 calls, 1 failed request, outdated read or restart | `RecordsReadable`, `CachesAgree`, `LifecycleSpec` |
| `GroupNesting` (3.6 million states) | 2 threads, a user and a superuser, groups `root`, `root.p`, `root.p.x` and `root.pq`, 3 calls, 1 failed request or restart | `NestedMemberships`, `MembersHaveGroups`, `GroupsEnclosed` |
| `UserAccounts` (8.5 million states) | 2 threads, 1 account, 2 Globus IDs, 3 calls, 1 failed request, outdated read or restart | `RecordsWhole`, `CachesAgree`, `AccountSpec` |

Why the bounds are enough. For IDs, two calls are what a race needs and three
IDs let each lose a candidate, wrap and give up; the sequential run issues twice
as many calls as there are IDs, so the range is exhausted, freed and walked
round again. For memberships, two groups let a list hold an entry that a query
does not return; one user is enough, because users share nothing but a category
of `byGroup`, which behaves like one of `byUser`. For the reaper, two callers
and three commands let a record of one command outlive it while another's is
made; what is proved in section 4 is for any number. For the modules with
`MaxCalls`, three calls on two threads let two race and a third find what they
left behind; one trouble (`MaxTroubles` counts failing requests, outdated reads
and restarts) is what a handler can be expected to survive, and with more the
names concerned are exempt anyway. Two names are what a rename needs. Four
groups have a chain of three and two that are alike in name only. One account is
enough because accounts share nothing but Globus IDs, of which `updateUser` does
not test that they are free. The pool of two workers can be blocked by its two
inner bundles, and need not be; the code's pool has eight. Two processes race
for the lock, the third launch finds what they left, and what an administrator
has made of it; two groups let a user's first group change. `sync_users` itself
has one caller; `Process.cpp` is written for several. Pids are not reused within
a behaviour.

`MembershipSequential` uses one thread because with two `CachesAgree` does not
hold and the code does not claim it: nothing orders a refill against a write.
What is left to say of races is `StatusHeals`; of the lists by user and by group
not even that is true, since each query renews the whole category, with records
it did not return.

**Fairness.** A thread that can take a step takes one (`WF` of each thread's
`Proceed`): threads are the operating system's, none holds a lock across a step,
and DynamoDB answers or fails. Entries expire because time passes; DynamoDB's
replicas converge, as its documentation promises; commands end and signals are
delivered. In the pool, handlers and workers run (`WF` of `Handle` and `Work`);
clients need not send anything, the server need not stop. No fairness is assumed
of requests arriving, of failures, or of transactions being refused:
`OrdinaryCallsEnd` holds although the database may refuse every transaction,
because each refusal uses up a candidate. In `MembershipStore` a failing read is
one of the ways a thread may proceed, since it ends the call. The number of
requests is bounded, so a call cannot lose the race for the hint for ever; that,
and not the code, excludes an unlucky call under endless traffic.

## 4. Proofs

Every invariant, action property and refinement that a run checks is also a
theorem, for every value of the constants: any number of threads, callers or
processes, any sets of names, users, groups and IDs, any bounds on calls and
troubles. What remains for TLC alone is temporal. Every obligation is checked by
`tlapm`.

| Module | About | Theorems |
|---|---|---|
| `UnixIDAllocation_proofs` | `UnixIDAllocation`, `UnixIDScan`, `IDRegistry` | `TypeCorrect`, `OrdinaryUnique`, `SequentialUnique`, `SequentialImplementsRegistry`, `ExhaustedForAReason` |
| `MembershipStore_proofs` | `MembershipStore` | `TypeCorrect`, `CachesCoherent` |
| `ProcessReaper_proofs` | `ProcessReaper` | `TypeCorrect`, `StatusBelongsToCommand`, `StatusKept`, `TableStaysClean` |
| `GroupRecords_proofs` | `GroupRecords`, `GroupLifecycle` | `TypeCorrect`, `LookupsReadable`, `CachesCoherent`, `KeepsLifecycle` |
| `GroupHierarchy_proofs` | `GroupHierarchy` | `TypeCorrect`, `MembershipsStayNested`, `MembersStayInGroups`, `GroupsStayEnclosed` |
| `UserStore_proofs` | `UserStore`, `Account` | `TypeCorrect`, `RecordsStayWhole`, `CachesCoherent`, `KeepsPromise` |
| `MultiplexPool_proofs` | `MultiplexPool`, `BundleService` | `TypeCorrect`, `TasksRunOnce`, `NoTaskOrphaned`, `PoolImplementsService` |
| `Provisioner_proofs` | `LockFile`, `Provisioner` | `LockTypeCorrect`, `MutualExclusion`, `ImplementsLock`, `ProvisionerExclusive`, `TypeCorrect`, `OthersAreSafe`, `NothingLost`, `TwoRunsConverge` |

Each inductive invariant was model-checked on the instance of the corresponding
run before it was proved. Why each is needed, and what the argument is:

- `TypeCorrect`: `TypeOK` is inductive on its own in `UnixIDAllocation`,
  `MembershipStore` (with which function reads), `ProcessReaper` and
  `Provisioner`; elsewhere it comes with `IInv`, because what a call carries
  depends on where it is. In `Provisioner` it contains that an account the
  provisioner made has a first group, which needs that a non-empty set of
  numbers has a lowest member.
- `OrdinaryUnique`: `OrdinaryIDsUnique` for any number of workers, names and
  IDs, with every failure in the model. It is not inductive: it says nothing of
  calls that hold an ID but have not put it, and nothing stops the hint from
  pointing at an ID in use. `FirstLap` adds that every ID the store chose, in
  the table or in a call's hands, is below the hint (`BelowHint`), and belongs
  to one call (`HeldByOne`) and to its record (`HeldForItsName`). The argument
  is the compare-and-set: what a successful reservation takes is at or above the
  hint, and the hint moves past it. The lagging index plays no part in it.
- `SequentialUnique`: `IDsUnique` for one worker on fresh reads. `SeqInv`
  follows the call: its name stays free until it reserves, the ID it tested
  stays free until it reserves it, and what it reserved is nobody else's until
  it is put. Here the argument is the availability test; the compare-and-set
  plays no part.
- `SequentialImplementsRegistry`: from `SeqInv`, every step is a step of
  `IDRegistry` or leaves its variable alone.
- `ExhaustedForAReason` (`ExhaustionIsReal`), on fresh reads: of the IDs that
  have been free since the scan began, none lies between its first candidate and
  the present one (`LeftBehind`), in the circular order of `NextID`; when the
  scan is back where it began, that is all of them.
- `CachesCoherent` of `MembershipStore`, under `Sequential` (one thread, fresh
  reads), which is what `CachesAgree` is about. `SettledAgree` is the property,
  stronger by what expired lists hold: they may lack a record but hold none that
  is wrong, or renewing the category would revive it. The rest follows the call:
  what a writer and a reader have in hand (`WorkOfWriter`, `WorkOfReader`), what
  is written already (`Written`), and that whatever a list still lacks while it
  is refreshed is in hand (`Refreshed`).
- `LookupsReadable`, `CachesCoherent`, `KeepsLifecycle` of `GroupRecords`, name
  by name. That calls which meet, and reads that were outdated, are known
  (`MeetingsKnown`, `unclear`) makes what a handler has read stay true until it
  acts (`ItemsKnown`) on names where nothing is unclear. The caches are right as
  long as no writer has met another call, or the only writer has not written yet
  (`TrustedCaches`), with what threads are about to put there (`TrustedFills`);
  `GoneUncached` is what lets a name be trusted again once its item is gone.
  `KeepsLifecycle` maps each name's item to the kind it stands for, and each
  step to one of `GroupLifecycle` or a stutter.
- `RecordsStayWhole`, `CachesCoherent`, `KeepsPromise` of `UserStore`: the same
  shape for one account (`MeetingsKnown`, `RecordKnown`, `TrustedCaches`). What
  is particular is that `removeUser` finds the keys of two caches in the third:
  whenever there is a token in the cache, its record is in `userCache`, expired
  or not (`KeysStored`); and that a token handed out is new (`TokensFresh`), so
  that a replaced one cannot come back.
- `MembershipsStayNested`, `MembersStayInGroups`, `GroupsStayEnclosed`: what a
  handler has tested stays true unless the group is raced (`Knows`): that there
  is the group to be written to, the membership above the one to be written, in
  a creation the parent, where it is the group in the name, and, in a deletion,
  that no group is left within those already dealt with. The latter rests on the
  descending order in which groups are deleted. `HierarchyAssumption` says what
  names that extend one another by a component give: the groups above form a
  chain, and a name that begins like another is not above it.
- `StatusBelongsToCommand`, `StatusKept`, `TableStaysClean`: from one invariant,
  `IInv`, for any number of callers and commands. A pid belongs to one command
  (`PidsUsedOnce`); the kernel or the reaper has the status of the command's own
  child (`OwnStatus`); the record of a child without a handle is a status left
  for it (`ForkedRecord`), that of a child with one names it until the status
  has been delivered (`HandleRecord`); the rest says that a record is there for
  a reason, and is gone once it has none. The properties alone are not
  inductive: none of them says that a record in the table with no handle belongs
  to a child whose handle has been destroyed, and not to one whose handle is yet
  to come.
- `MutualExclusion`: `Exclusive` says nothing of the file, so `Owner` adds that,
  as long as no two constructors have overlapped, one process at most is past
  its test, and once inside its PID is in the file. That is what stops the next
  one's test, whatever PIDs the dead have left. Launching alone ends the doubt
  since nobody is there.
- `ImplementsLock`, `ProvisionerExclusive`: every step of `Provisioner` is a
  step of `LockFile` or leaves its variables alone, so exclusion carries over.
- `OthersAreSafe` (`ForeignUntouched`): `NotClaimed` says that what others made,
  whenever they did, is in no list, on disk or in a process, unless they took
  the name while it was in one (`reused`); `Targets` that what a phase deletes
  or updates is in the process's own list. It does not need the lock: it holds
  for provisioners that race.
- `NothingLost` (`Tracked`): what the provisioner made is in the files, or, from
  `ReadLists` to the step that writes the list, in the list of the one process
  inside (`UsersKnown`, `GroupsKnown`). That this process is alone comes from
  `Owner`; that a process outside has nothing of its own, from `Idle`.
- `TwoRunsConverge` (`Converged`): the property looks at one state, the argument
  at two runs. After the first, every account the provisioner made is as the
  server says and every group the server names is there (`Settled`); after the
  second also nothing is missing and no group is left over (`Agrees`):
  `groupdel` then has no reason to refuse, because an account that is right has
  a first group the server names (`NothingInTheWay`). In between, `OnPlan` says
  what the process means to do, `Did` what it has achieved in each phase and
  `DidAgain` what more it has if it found things settled; `GroupsThere` and
  `UsersThere`, that its lists name nothing that is not on the host, which is so
  from their reading on as long as nobody else changes it. It takes
  `NothingLost` (an account in no list is never updated), the exclusion (no
  other process acts in between), and `NotClaimed` (what it updates is its own).
- `TasksRunOnce`, `NoTaskOrphaned`, `PoolImplementsService`: from one invariant,
  `IInv`. A call in the queue is queued and is there once (`Queue`), a call run
  by a worker is being handled, by that worker only (`Workplace`); a bundle has
  pushed a prefix of its calls and got a prefix of those (`Progress`), and
  begins and ends with neither outstanding (`Course`). That a call is asked for
  in one place (`PartsAssumption`) keeps one bundle's pushes out of another's. A
  pushed call is new to the client, a taken one has begun, so each step starts a
  call, answers one, or is a stutter.

Assumptions: those named in the modules (the ID range is not empty and starts
above 0; groups on the host are numbered from 1, in the order of their names;
bounds are natural numbers; `HierarchyAssumption`); `Sequential` or fresh reads
(`~Lagging`) where stated; in `ProcessReaper`, that the kernel does not give out
a pid twice; in `GroupHierarchy`, that reads which succeed are current. That an
operation of `cuckoohash_map` is atomic, and a DynamoDB transaction too, is
built into the actions. What the properties exempt (`unclear`, `stale`, `raced`,
`untracked`, `reused`, `failed`, `lapped`) the theorems exempt too; section 5
says what happens there.

Only model-checked: everything temporal (`OrdinaryCallsEnd`, `StatusHeals`,
`AnsweredUnlessAllBlocked`, `PoolEnds`, and the liveness counterexamples), which
is out of the prover's reach.

## 5. Findings

1. `allocateSpecificUnixID` (710) declares a new `initialID` in its loop and
   drops the value it has just read, so a call that loses one race compares with
   an old hint for ever (`UnixIDSpecificCalls`).
2. `reapProcesses` clears `reapFlag` after `waitpid` has found nothing (348,
   354): a child that ends in between is not reaped until another one ends, and
   `sync_users`, which runs one command at a time, waits for ever
   (`ReaperLostSignal`).

Behaviour the models reproduce, and properties exempt, without a run of its own:

- `allocateSpecificUnixID` writes the hint back unchanged (708), so a request
  for an ID and an ordinary call about to take the same ID both succeed:
  `OrdinaryIDsUnique` speaks of IDs the store chose.
- `getUserGroupMemberships` renews a whole category, including records its query
  did not return (1400): a removed membership that a racing `userStatusInGroup`
  put back stays listed while it is asked for.
- A failed read counts as an empty answer (1199, 1378, 1663, 1896):
  `createGroup` may overwrite a group it could not read, a removal leave
  memberships behind.
- No read asks for consistency, and updates are upserts: an outdated `getUser`
  (776), `getGroup` (1889) or `getGroupRequest` (1939) after a finished deletion
  lets an update leave an item that no lookup can read, after a finished change
  it lets the next update undo it, and in either case it is cached. No two calls
  need meet.
- Creation reserves and then puts: two calls on one name, or a failure between,
  can leave an item that no lookup can read. Two creations of one name both
  succeed, the second replacing the record of the first.
- `createGroup`, `approveSubgroupRequest` and `denySubgroupRequest` test rights
  in the parent of the URL and never that the new name is directly within it
  (`GroupCommands.cpp` 195-204, 890-908, 964-972); a request may be renamed to
  anything (574-590, where a comment says as much). One call makes a group, and
  an admin who is no member of the enclosing group, anywhere, also within a
  group that does not exist.
- An approval that fails leaves a request with an admin (918-937).
- A denial tests that there is a request and then removes what is there
  (`GroupCommands.cpp`, `denySubgroupRequest`). If the request is approved in
  between, it removes the new group, and a group made in it meanwhile stays
  within nothing. It takes four calls, one more than `GroupNesting` makes; the
  proof of `GroupsStayEnclosed` would not go through until `Scope` counted a
  denial's groups.
- Removal from `root.p` also removes from `root.pq` (`UserCommands.cpp` 1049).
- A run of `sync_users` killed between `userdel` or `groupdel` and the writing
  of the lists (545) leaves a name in a list without an account. If an
  administrator makes one of that name before the next run, that run takes it
  for its own (696-699) and changes or deletes it. It takes two runs, one death
  and one change; an account deleted and made again by hand fares the same.
- A group that was somebody's first outlives the run that should delete it,
  since the `usermod` that reduces memberships is given no user
  (`sync_users.cpp` 1260).

## 6. Plan

The properties that runs check are proved. Next, in this order: `deleteUser`'s
removal of memberships in `GroupHierarchy`, with a property that says what it
leaves behind; pipes in `ProcessReaper`; a refinement of `MembershipStore` by
one thread to a plain set of memberships, proved from its `IInv`; the start-up
of the tables.

## 7. Not modelled

- Secondary attributes: nothing else depends on them, and their cache is filled
  under the user's name (1294), where no attribute is looked up, so a model
  could only say that it is never used.
- Table creation: it runs alone, before the server listens, and compares what
  DynamoDB says with constants. A crash between the creation of a table and of
  its ID record is a known way to get stuck (`PROJECT.json`, hazards).
- `deleteUser`'s removal of memberships, which ignores failures; the clean-up
  scans of `removeUser` and `removeGroup` (attributes only).
- SSH keys, group name syntax, JSON bodies, serialization: functions of strings.
- Pipes of `Process.cpp`, plug-ins, e-mail, HTTP, logging: input and output.
- The lists (`listUsers`, `listGroups`, ...) beyond what they put into the
  caches.
- crow, rapidjson, libcuckoo, cppcodec: third party.
