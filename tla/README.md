# A model of vdb-oasis-transformers

This directory holds TLA+ specifications of the Oasis transformers, the TLC
runs that check them on small instances, and TLAPS proofs of the safety
properties for every instance. Source paths are relative to the repository.

## 1. The system

The repository is a plugin for the `execute` process of vulcanizedb (the core).
`execute` finds the logs of the Oasis contracts that are not transformed yet,
hands them to the plugin, and stores what the plugin makes of them.

```
 Ethereum --> header sync ----> public.headers ----------.  ON DELETE CASCADE
         |                           |                    |
         `--> log extraction --> public.transactions      |
                                 public.event_logs <------'--> oasis.<event>
                                     |          ^                   ^
        GetUntransformedEventLogs    |          | PersistModels:    |
                                     v          | rows and flags    |
                                  execute ------'-------------------'
                                     |
                                     v
                    Transformer.Execute -> ToModels -> GetOrCreateAddress
                                                            |
                                                            v
                                                     public.addresses
```

| Component | State | Operations | What makes it correct |
| --- | --- | --- | --- |
| Event transformers (`transformers/events/*`) | none; a batch in memory while `ToModels` runs | `toEntities`, `ToModels` (fourteen of them) | every column holds what the log says; an error yields no model at all |
| Shared constants (`transformers/shared/constants`) | none | names of tables and columns, signatures, ABIs | names agree with the schema |
| Exporter (`plugins/execute/transformerExporter.go`) | none | `Export` | exports all fourteen, under the name of their table |
| oasis schema (`db/migrations`, `db/schema.sql`) | one table per event | insert, upsert, delete by cascade | a row only for a log that exists, one per log |
| Configuration (`environments/oasisTransformers.toml`) | none | contracts, ABIs and transformers of each section | a log of a watched contract has one transformer, under the ABI that decodes it |
| Core pipeline (vulcanizedb; seen in `transformers/test_data/test_helpers.go` and `test_data/vulcanize_schema.sql`) | `headers`, `transactions`, `event_logs`, `addresses`, the `transformed` flag | create logs, read untransformed logs, get or create an address, persist models | a log is flagged when it is stored and only then; ids of addresses are stable |
| `get_or_create_header` (`test_data/vulcanize_schema.sql`) | `headers` | return, replace or insert a header | one header per height; old heights are final |
| `create_back_filled_diff`, `checked_headers` (same file) | `storage_diff`, `checked_headers` | insert a diff that changes a value; count checks | the diffs give each slot its value at each height that was filled |
| Start-up (`dockerfiles/`) | migration tables, a health file | wait for the database, migrate, start `execute`, restart | nothing runs on half a schema; everything runs in the end |
| Delivery (`.github`, `.travis*`, `Makefile`) | images, the running service | build, test, deploy | old and new tasks overlap without harm |
| `scripts/gomoderator.py`, `scripts/check_config.sh` | `go.mod`; none | align dependencies; compare configuration and exporter | says "resolved" only if it is |

How they interact. Workers share nothing but the database. `ToModels` runs
outside any transaction: its `GetOrCreateAddress` calls commit one by one, while
the models go into one transaction at the end. Header sync and extraction run
in other processes and take no notice of the workers; what they delete
disappears by `ON DELETE CASCADE` through `transactions` and `event_logs` into
the oasis tables. During a deployment two `execute` tasks run side by side and
transform the same logs.

What is hard, then: models that are stale by the time they are stored
(reorganisations), double work, batches of which one log cannot be stored,
crashes between address calls, the cascade through a transaction that was mined
in two blocks, and fourteen hand-written pairings of columns and values. Around
it: containers that migrate one database at the same time without a lock,
sessions that back-fill diffs by what they read before, and a script whose every
fix may undo another. `PROJECT.json` lists these hazards with their lines and
the properties that cover them.

## 2. Modules

| Module | What it is |
| --- | --- |
| `Tables` | tables with a unique key as partial functions |
| `OasisEvents` | the catalogue: for each transformer its verification mode, address calls and value columns; for each table its columns |
| `OasisTransform` | the pipeline, from a header to an oasis row |
| `OasisMirror` | what readers are promised: the oasis schema mirrors the live logs |
| `Headers` | `get_or_create_header` statement by statement, called from several sessions |
| `HeaderChain` | what it promises: one block per height, replaceable until it is final; and what is left of that when calls overlap |
| `Routing` | how a log finds its transformer and its arguments their columns: contracts, ABIs, signatures, exporter, entities; extends `OasisEvents` |
| `Startup` | from `docker-compose up` or `check_execute` to a running `execute` |
| `BackFill` | `create_back_filled_diff`, called by sessions at the same time |
| `GoModerator` | `scripts/gomoderator.py` and what it needs of go |
| `MCOasisTransform`, `MCHeaders`, `MCRouting`, `MCStartup`, `MCBackFill`, `MCGoModerator` | instances for TLC |
| `BasicTheorems`, `OasisTransform_proofs`, `OasisTransformSafety`, `Headers_proofs`, `BackFill_proofs`, `Startup_proofs`, `GoModerator_proofs`, `Routing_proofs` | theorems and proofs |

`OasisTransform` implements `OasisMirror`, its promise to readers of the oasis
schema. `Headers` implements `HeaderChain` as long as calls do not overlap, which
is why the pipeline, with its one header sync, may take the whole function as one
step (`HeaderSync`); overlapping calls implement the weaker
`HeaderChain!OverlappedSpec`. `Routing` and `OasisTransform` share the catalogue: the first says that a log gets to the right
transformer and each argument to its column, the second what becomes of it when
others work at the same time. `Startup` is why the second has several workers.

### State and code: the pipeline

| Variable | In the system |
| --- | --- |
| `headers`, `nextHeader` | `public.headers`, id to block; the serial |
| `transactions` | `public.transactions`, hash (UNIQUE) to header id |
| `eventLogs`, `nextLog` | `public.event_logs`: header, address, what the log says (`raw`), `transformed` |
| `addresses`, `nextAddress` | `public.addresses`: text (UNIQUE) to id |
| `rows`, `nextRow` | the rows of all oasis tables; their serials, as one |
| `work` | per worker, the batch between `GetUntransformedEventLogs` and `PersistModels` |
| `faults` | how many faults happened, a bound |

| Action | Code |
| --- | --- |
| `HeaderSync` | `get_or_create_header`, with the cascade of the header it replaces |
| `Extract` | `CreateEventLogs`: transaction row, contract address, log |
| `Fetch` | `GetUntransformedEventLogs` and the delegation to one transformer |
| `Decode` | `toEntities`, where a transformer has it |
| `ResolveAddress` | one `GetOrCreateAddress` call of `ToModels`; with the last call of a log the model is appended |
| `Reject` | `ToModels` returns an error because of a log |
| `Commit`, `Rollback` | `PersistModels`, all statements accepted or one refused |
| `Fault` | a crash, a failed address call (`ErrCouldNotCreateFK`) or a failed transaction |

A step of `ToModels` ends where the database is called, since that is where
other processes can come in between; everything between two calls is local.

`RawLog` is what a log says as far as the properties can tell: its event, block
and transaction, the account in each address argument, and its shape - storable,
undecodable, or with a timestamp that an INTEGER refuses. A stored row keeps the
`raw` it was made from, standing for the columns that are copied over.

Simplifications, each harmless for the properties:

- The serials of the fourteen tables are one counter. Only whether a row keeps
  its id is looked at.
- `Fetch` takes any non-empty set of untransformed logs of one transformer,
  which includes every page the query may return. Within a batch logs are taken
  by id; the order only decides which addresses get which id.
- The statements of `PersistModels` are one step. They run in one transaction
  with foreign keys and unique constraints checked by PostgreSQL, so another
  transaction sees all of them or none, and a header deleted concurrently makes
  the INSERT fail as if it had been deleted before.
- A crash and a database error have the same effect, so they are one action. A
  worker that lost its batch is idle again, as the restarted process is.
- `get_or_create_header` is one step, with one Ethereum node; `Headers` has the
  statements, several sessions and several nodes.

### State and code: `get_or_create_header`

The function runs in the transaction of its caller's statement, READ COMMITTED,
so every statement in it has a snapshot of its own. `call[p]` is the call
session `p` is in: what comes next (`pc`), the three local variables of the
function (`matching`, `other`, `highest`), and the rows it has deleted but not
committed (`removed`). `headers` is the table as others see it.

| Action | In the function |
| --- | --- |
| `Ask`, `Retry` | the call begins, for a new block or for one that failed |
| `ReadMatching`, `ReadOther`, `ReadHighest` | the three `SELECT`s; a scalar subquery that finds two rows is an error |
| `Return` | the matching header, or the other one when it is final |
| `Remove` | `DELETE` of the other header, which locks its row; it waits while another call holds the row, and deletes nothing if the row went in between |
| `Skip` | neither of these: the `IF`s fall through, also when `MAX` is NULL |
| `Insert` | `INSERT` and commit |
| `Refuse` | the `INSERT` meets UNIQUE (block_number, eth_node_id) |
| `Fault` | a crash, a lost connection or a deadlock that PostgreSQL ends; everything the call did is rolled back |

The field `final` is no part of the function: it records which headers were
final when the call came in, for `FinalStays`.

### State and code: routing

A log has positions and no names, so a value is the name of the argument that the
contract put at a position, and a hash is what it is a hash of. Everything that
is agreed upon by name is a definition of its own: the ABIs of the configuration
(`OldAbi`, `Abi1_1`), the signatures, the fields of each entity in their order,
the initializers, `Export`. `ToEntity` is go-ethereum's `UnpackLog`, with its two
peculiarities: fields are found by the camel case of the argument, but the only
argument of an event goes to the first field. `ModelOfTopics` is the one
transformer that reads topics itself.

`emitted` is what the contracts did (`Emit`), `extracted` what of it is in
`public.event_logs` (`Extract`: any watched address, any watched topic, from the
first block of any transformer), `stored` the rows (`Store`: address and topic
of one transformer). `LogSetOwner` stands for the events and `stop` for the noted
calls that nobody asks for.

### State and code: start-up

| Variable | In the system |
| --- | --- |
| `db` | does the database container accept connections |
| `core`, `oasis` | migrations recorded in `public.goose_db_version` and `oasis.goose_db_version` |
| `schema` | `CREATE SCHEMA oasis` has happened |
| `container` | where its script is, the version its goose has read, `/tmp/execute_health_check`, the health docker shows |
| `check` | what `.github/workflows/check_execute` has found out |

| Action | Code |
| --- | --- |
| `Start` | `docker run`, or `restart: unless-stopped`, which keeps the files of the container |
| `Available`, `GiveUp` | `wait-for-it.sh`, answered or timed out with `--strict` |
| `ReadVersion`, `ApplyCore`, `ApplyOasis`, `CoreDone`, `OasisDone` | goose: reads the version, applies one migration after the other, each in a transaction |
| `CoreFails`, `OasisFails` | goose exits with an error: `run_migrations.sh` looks at the second only; header sync stops at the first |
| `CreateSchema` | `psql -c "CREATE SCHEMA IF NOT EXISTS"`, whose failure is not looked at |
| `WatcherStarts`, `Probe` | the line `execute` writes, and the `HEALTHCHECK` that greps for it |
| `Communicate`, `Poll`, `NeverHealthy` | `check_execute` waits 5 seconds for an exit, whose status it hands on, then polls `docker ps` |
| `DbUp`, `DbDown`, `Crash` | the environment; a crash includes `execute` ending with an error |
| `Returns` | `execute` ends with status 0, which is that of the container |

Taken from outside the repository: goose takes no lock; a migration that another
goose has applied in between fails, since both create the same table; header
sync's script ends when its migrations fail. Nothing here says whether `execute`
ever ends with status 0, so it may whenever it runs. `GiveUp` needs the database to be
down when the time is up: a database that answers at that moment is `Available`.
Initially the database is empty or as an earlier release left it, and either all
containers are created at once or one image is tried by `check_execute`.

### State and code: `create_back_filled_diff`

`next[s]` is the position of session `s` in its pass, a sequence of slots and
heights; `last[s]` is the function's `last_storage_value`. `Read` is the
`SELECT` of the last diff at or below the height, `Write` the two early returns
or the `INSERT ... ON CONFLICT DO NOTHING`; other sessions come in between, since
READ COMMITTED lets them. `Abandon` is a failed call. Who calls the function and in
which order is external (the storage transformers of other plugins), so the
order is a constant `Pass` that the properties look at. `still` is no part of
the function: it records whether a diff was stored since the pass began.
There is one chain, so `block_hash` and `header_id` follow from the height.

### State and code: the go.mod script

`world` is what the script finds and does not change: which module version requires
which others, both go.mod files, both lists of replace directives. `plugin` is
the requirements in the plugin's go.mod, `todo` the conflicts that `go get` has
yet to fix, in the order of the core's list (`Place`, `Following`). `Compare`, `CompareAgain` and `Conclude` are the three listings and
comparisons, `Edit` the `go mod edit` calls, all of them or those before an
interrupt, `GoGet` one `go get`, which may fail; `Run` starts the script once more.

go itself is external: `Selected` is minimal version selection, `Got` is what
`go get` does to the other requirements (raised by what is asked for, lowered or
dropped when they would need more). A fork shares the requirements of what it
replaces; `go list` and `go get` fail when a fork is required under its own name; a directory as
a replacement has no version and ends the script (gomoderator.py:49).

## 3. What the runs show

| Run | Instance | Properties | States |
| --- | --- | --- | --- |
| `reorg` | two workers, interchangeable; blocks a and b are rivals, so are c and d above them; final at one below the highest; three logs, two of one transformer, one transaction mined in a and in c; one fault | `TypeOK`, `LogsFaithful`, `RowsFaithful`, `OneRowPerLog`, `TransformedIffStored`, `OneIdPerAccount`, `AddressesStable`, `RowsStable`, `ImplementsMirror`, `FinalRowsStay` | 337 000 |
| `poison` | two workers; one block; storable logs beside undecodable ones and one with a large timestamp, for upfront and inline verification | `AddressesHaveSource`, `AllOrNothing` | 275 000 |
| `progress` | two workers; a transaction mined at two heights; one fault; weak fairness | `EventuallyStored` | 100 000 |
| `headers` | two sessions, one node; two rivals and two heights above; final at two below the highest; four calls, one fault; weak fairness | `TypeOK`, `OneHeaderPerHeight`, `OverlapsKeepChain`, `EventuallyAnswered` | 69 000 |
| `headers_final` | two sessions, two nodes; a header is final when it is one below the highest | `HeightsKept`, `FinalStays` | 1 051 000 |
| `headers_serial` | one session, two nodes; final at two below the highest; five calls | `ImplementsChain`, `EventuallyAnswered` | 43 000 |
| `routing` | three contracts of two generations, deployed one block after the other; any event or noted call of any of them; weak fairness | `OneTransformerEach`, `RowsSayWhatHappened`, `EverythingStored` | 254 |
| `startup` | an old and a new `execute` and a header sync (2, 3 and 3 core migrations, 1 and 2 oasis migrations), or one of the images tried alone; empty or older databases; one fault; weak fairness | `TypeOK`, `ExecuteMigrated`, `HealthyMeansMigrated`, `PassedMeansMigrated`, `EveryoneRuns`, `CoreCompletes` | 99 000 |
| `startup_core` | one `execute` and a header sync, no fault | `CoreMigratedBeforeExecute`, violated | |
| `backfill` | an ascending session over two slots and one that goes back and skips a height; heights 1 to 3, two values; every chain and every set of true diffs to begin with; two passes each | `TypeOK`, `AscendingFaithful`, `StillMeansFaithful` | 2 140 000 |
| `gomoderator` | three dependencies in two versions, all small requirement graphs, all pairs of go.mod files; forks and directories as replacements on both sides; two runs of the script | `TypeOK`, `ResolvedMeansEqual`, `InSyncStays`, `OnlyForward` | 68 000 |
| `gomoderator_fork` | a dependency replaced by a fork in the plugin only | `ResolvedMeansEqual`, violated | |

Bounds. `MaxHeaders`, `MaxLogs` and `MaxFaults` limit the ids given out and the
faults; three headers are enough for block a, its rival b, and a again, or for
a with two rivals on top one after the other, four logs for each log of a header and its second life under the
next. Two workers are enough for one to be overtaken at any point of a batch,
by the other or by a reorganisation. `reorg` and the runs of `Headers` have a
smaller `Window` than the 15 of the code instead of a longer chain: with heights 1
and 2 and a window of 1 a header is replaced until there is one above it, with
heights 1 to 3 a window of 1 or 2 has headers on, above and below its
boundary. In `poison` and `progress` nothing becomes final. One log is enough for
`routing`: no log has an effect on another there. In `startup` the newer image
brings one oasis migration more than the older, and core migrations 1 and 2
create what the oasis tables refer to while 3 does not, so that every failure can
be one the rest notices and one it does not. In `gomoderator` two versions and a
chain of three dependencies are enough for each fix to raise or lower the others;
graphs have no cycles, and a later version requires no less than an earlier one.
When the bounds are used up and everything is stored the models stop, so the runs do
not check for deadlock.

Fairness. `EventuallyStored` assumes weak fairness of `Progress(w)`: `execute`
runs in a loop and is restarted by `restart: unless-stopped` or the container
service. Nothing is assumed of the chain, the extraction and the faults. The
property is about logs that can be stored: a log that cannot be unpacked, or
with a timestamp beyond INTEGER, keeps failing, and with it every batch that
contains it; that the others are not half stored is `AllOrNothing`. `progress`,
which leaves out such logs, checks it.

`EverythingStored` assumes that extraction goes on and the delegator is run again
and again, by the same loop. `EveryoneRuns` and `CoreCompletes` assume that the
database comes up and that every container takes its next step: docker restarts
what exits (`restart: unless-stopped`), a script waits for nothing but the
database, and faults are bounded. What `check_execute` launches is not restarted
and nothing is claimed of it.

`EventuallyAnswered` assumes weak fairness of `Step(p)`: a call that was begun
is carried on by the database, and header sync asks again for a header it did
not get. Nobody is assumed to ask in the first place.

Several sessions and several nodes at once. One session implements the chain,
whichever nodes its calls are for (`ImplementsChain`). Two sessions with one node
keep one header per height and exchange blocks one for one (`OverlapsKeepChain`),
but not within the window: a call decides by the maximum it has read, and until
it deletes the other may have inserted a header so high that the one to be
exchanged is final by then. What was final when the call came in is safe
(`FinalStays`). With two of both, the two calls both find no other header, the unique
constraint admits a row for each node, and from then on a call for that height
whose scalar subquery meets both rows fails, each time it is repeated. TLC shows
this when `headers` is given two nodes. Nothing in the repository promises
otherwise (its README.md starts one `headerSync`), so no run is kept for it.
What holds in this case as well is `HeightsKept` and `FinalStays`.

Races at start-up. No interleaving makes `execute` run without the oasis
migrations of its image (`ExecuteMigrated`): a container that loses a race ends
and is restarted on the schema the winner has made. That a restarted container
still has the health file of its former life does no harm for the same reason
(`HealthyMeansMigrated`). What the file does not show is a container that was
healthy once and cannot start any more. What may be missing are core migrations, for a while
(`CoreCompletes`); see the findings.

What a passed check shows. `check_execute` ends with the exit status of a container
that is over within five seconds, right after it has said that the image failed to
start (:32-33). Failed migrations end the script with status 1, so they never
pass that way, and what passes later is healthy: either way `execute` ran on the
migrated database (`PassedMeansMigrated`). That its watcher has started follows only
for what was polled: an `execute` that returned 0 early has passed without.

Final blocks. Once a header is final its own cascade is out of the question, and what
other workers store again leaves its rows alone. One way to lose them is left:
the transactions row of a log belongs to the header that brought it first, and
if that is a later one which is replaced, the log of the final block and its
row go too. `FinalRowsStay` says that there is no other, and TLC meets this one
in `reorg`. Whether such a log is extracted again is for the core to decide.

Back-filling. `AscendingFaithful` is about order: a session that reaches every
height after all the lower ones leaves the right values behind, and nothing that
others store by stale reads takes them away. In another order it need not:
the value of a new diff shows through at later heights that were filled by
storing nothing. A pass that stores nothing has found everything right
(`StillMeansFaithful`), so repeating a pass until then mends it.

Mutants. Every property has at least one mutated definition that breaks it,
named `<Definition>_<What>` and placed before the definition it mutates; none is
used by the specification.

### Findings

- `dockerfiles/execute/run_migrations.sh:30` (run `startup_core`). The script
  says it "Runs the migrations and executes transformers" (:2) and has an error
  message for migrations that fail (:35), but `$?` in line 34 is that of the last goose. If
  the core's migrations fail - header sync is applying the same ones, or the
  database is gone for a moment - `execute` is started on a core schema older
  than its image needs, provided the oasis migrations find their tables.
- `scripts/gomoderator.py:49` (run `gomoderator_fork`). The script "Resolves
  dependency conflicts" between two go.mod files (:8), and README.md:106-112
  advises it together with replace directives. A replaced module is listed under
  the name of its replacement; if it is replaced on one side only the names are never
  compared, and the script exits with 0.

## 4. What is proved

For every value of the constants that satisfies `NumberAssumption` (blocks have
numbers), `ContentAssumption` (raw logs have the declared shape) and
`BoundsAssumption` (the bounds are numbers), hence for any number of workers,
blocks, transactions and logs:

- `OasisTransform_proofs`: `CallsOK` and `FitIsExact` - the calls of the fourteen
  transformers fill exactly the columns of their tables - and `TypeCorrect`. The inductive invariant `TypeInv`
  adds to `TypeOK` that batches are finite and that a worker with a log to do
  has a call to make.
- `OasisTransformSafety`: `LogsAreFaithful`, `RowsAreFaithful`, `RowsAreUnique`,
  `TransformedMeansStored`, `AddressesAreUnique`, `AddressesAreStable`,
  `RowsAreStable`, `FinalRowsAreKept`, `BatchesAreAtomic`,
  `AddressesHaveTheirSource`. The pipeline implements the mirror
  (`PipelineIsAMirror`), which then shows live logs and what they say
  (`MirrorIsFaithful`).
- `Headers_proofs`: `TypeCorrect`, `HeightsAreKept`, `FinalHeadersStay` for any
  number of sessions and nodes and any window; `OneHeader` under the hypothesis
  that there is one node. For one session and any nodes a call is a step of the
  chain (`SerialCallsFormChain`), for one node and any sessions one of the weaker
  chain (`OverlapsFormChain`); the hypotheses are those under which the
  properties hold, see section 3. The assumptions are `ChainAssumption` (blocks have
  numbers, the window is one) and the `BoundsAssumption` of that module.
- `BackFill_proofs`: `TypeCorrect`, `AscendingPassesAreFaithful`,
  `StillPassesAreFaithful` for any chain, any number of sessions and any passes. The
  assumptions are that heights are numbers, zero is a value and the two markers
  are none (`ChainAssumption`), and that passes are sequences of calls
  (`PassAssumption`).
- `Startup_proofs`: `TypeCorrect`, `ExecutesAreMigrated`, `HealthyIsMigrated`,
  `PassedIsMigrated` for any number of containers, images and faults. The assumption
  is `ImagesAssumption`: an image brings at least one oasis migration, and the
  core migrations they refer to.
- `Routing_proofs`: `DelegatedOnce` and `RowsAreTrue` for any number of logs,
  any blocks in which the contracts were deployed, and all events of all contracts.
  The assumptions are `DeployedAssumption` (deployment blocks are numbers) and the
  `BoundsAssumption` of that module. The catalogue itself - ABIs, signatures, entities,
  models - is the one of the code and part of what is proved, so a change to
  any of its entries has to get past these proofs.
- `GoModerator_proofs`: `TypeCorrect` for any modules, requirements, go.mod files and
  replace directives; `ResolvedIsInSync` and `InSyncIsNotEdited` under the
  hypothesis that the same modules are replaced on both sides, without which the
  first is false (run `gomoderator_fork`); `ConflictsAreExact` and
  `SelectionIsEnough` about the comparison and the build list. `InSyncIsKept` (with
  the same hypothesis) and `OnlyMovedForward` are about whole runs, and need
  that a later version of a module requires no less than an earlier one
  (`Growing`): a version that drops a requirement can take a module out of a
  build however the script goes about it. The worlds of the run `gomoderator` all
  satisfy both. The assumptions are
  `DepsAssumption` (finitely many modules, each with a place of its own in go's
  lists, and names that differ) and `WorldsAssumption` (worlds are worlds).

The argument for the pipeline. `RowsFaithful` is not inductive: a row is made of
what a worker has held for a while. `SafetyInv` says what cannot be wrong about
that, however stale it is. Ids of logs, headers and addresses are given out once
(`AddressInv`, `LogInv`), so a log a worker has read is either gone or still the
same log of the same header (`SnapshotTrue`). Address rows are only added, so
the ids collected so far remain those of the accounts the current log names
(`FksTrue`), and so do those in finished models (`ModelsTrue`). The foreign keys
checked at the end of the batch exclude the logs that are gone
(`AcceptedIsTrue`): what is left is true now. `RowInv` ties rows, flags and logs
together and gives the remaining theorems; the action properties follow from one
step under `SafetyInv`. For `FinalRowsStay` that step is `HeaderSync`: what it
replaces is not final, so a row of a final header that goes must go through its
transaction (`HeaderSyncLeavesFinal`). That every address has a source needs to know that a
worker makes calls for logs it has decoded, the whole batch or the log at hand
(`DecodedInv`).

The argument for the refinement. Read back through its foreign keys a row says
what its log says (`RowReadsBack`), so under `SafetyInv` the mapping is simple: the
mirror shows the logs that have a row, as they are (`ShownIsLive`). With that a
commit copies live entries, a reorganisation takes a log from both sides at
once, an extraction adds one under a new id, and everything else is invisible.

The argument for `Headers`. A call acts on what it has read, so the invariant
says how wrong that can be. The header it has found as the other one is either
gone or still has the number asked for (`OtherTrue`), since ids are given out
once; what it deletes is that header and locked by no other call (`LockInv`), so
an `INSERT` exchanges rows of one number, and no height is lost (`TableKept`). A
header that was final when the call came in is, if it is still there, final by
the table until the call reads the maximum, and by that maximum afterwards
(`FinalTrue`). The maximum it has read may be out of date when it deletes, so a
header that has become final since can still be exchanged, but none that was
final when the call came in. That the highest number is not lost, which
`ReadHighest` needs, is `TableInv`: the highest header is never exchanged but
for one as high. With one session nothing it has read gets out of date
(`SerialInv`): when it inserts, the rows of its number are those it has deleted,
and the window is open still.

The argument for `BackFill`. The properties speak of `CHOOSE`, so the invariant
is about sets: a slot is *covered* at a height if the newest diffs up to there say
what the chain says, or there are none and the chain says zero (`Covered`,
`FaithfulIsCovered`). No diff is ever false (`AllTrue`), so a newly stored one
covers its own height. It can uncover only a later height whose value shows
through from before, and in an ascending pass the new diff's height has been gone
by too: it is covered, so a true diff there adds nothing new (`AddKeeps`). What
makes this inductive is the call under way: if it is going to store nothing,
because of a value it has read a while ago, its height must be covered still
(`Kept`).

The argument for `Startup`. Migrations are never taken back (`Forward`). What goose
has read in a container may be out of date, but only by being too low
(`MigratedInv`), so a goose that believes it is done is right. Migrations of the
oasis schema are recorded only on the tables they refer to (`SchemaInv`). Whatever
is said of a container after its migrations - it runs or has returned, its health
file is there, docker shows it as healthy, `check_execute` has passed - is then true
of the schema of its image however long ago it was found out. Nothing of the kind
holds of the core's migrations, which is the first finding.

The argument for `GoModerator`. What is reached from a go.mod is defined by
recursion, so it is shown first that the recursion has a solution
(`SolutionExists`, `LevelsExist`, `LevelsAgree`) and that any stays within the
modules (`SolutionTyping`). The induction is over sets: of the numbers that are
not in a set one would be the least (`LeastNumber`, `Induction`). A list that can
be read has one replaced module at most, under the name of its fork
(`MappingOfList`), so equal names mean equal code, if the same modules are replaced
(`ConflictsAreExact`). `RunInv` says that the core's list could be read before
anything is edited or got, and that an exit with 0 comes straight after a
comparison, whichever of the three it was.

For whole runs it takes more. The recursion that `Reached` cuts off has settled
by then (`LevelsSettle`, by counting), so what is reached is closed under
requirements. If requirements grow, a list that asks for as much selects
as much (`SelectsAsMuch`), `go get` of a list raises what it must and nothing that was
right already (`GotRaises`, `GotKeepsShared`, `SelectedAgain`), and both are
monotone. `MoveInv` adds to `RunInv` what is true of the fixes still to be made, though
they were found some edits ago: each is of a module both sides still share
(`LeftIsShared`), and a core that is ahead of the plugin stays ahead
(`StillAhead`), so each fix left moves its module up or not at all (`MovesUp`).

The argument for `Routing`. First comes what four places in the code agree upon. The
hash a log starts with tells its table (`TablesAreTold`); the generations of a
contract have the same arguments under the same names (`Generations`); what is asked
for by topic and by address apart is therefore always of a transformer that takes
both (`AskedByTopic`). An argument is found by counting those of its kind before
it, in the topics or in the data: that every name comes back at its own place
is an induction over the list of arguments (`Counting`, `NamesInOrder`,
`ArgumentsFound`). Then each name is followed by itself through camel case, which
keeps names apart (`Names`), into the fields of the entity - the first one if the event has
a single argument (`SingleArguments`) - and from there to a column
(`EntitiesAreTrue`, `ModelsAreTrue`). `LogNote`s are read by position instead
(`NotesAreTrue`). The invariant `RouteInv` is then simple: what is extracted was
asked for, and what is stored was made of it by the transformer that handles it.

Model-checked only: `EventuallyStored`, `EventuallyAnswered`, `EverythingStored`,
`EveryoneRuns` and `CoreCompletes`, since liveness under fairness is out of the
prover's reach. Every safety invariant, action property and refinement the
passing runs check is a theorem.

## 5. Not modelled

- The amounts, pairs and offer ids themselves: a value is the name of its
  argument. Down migrations, indexes and comments of the schema.
- `checked_headers`: the code that reads the counter is not in the repository.
  `Extract` may happen at any time, which includes every recheck.
- `scripts/check_config.sh` compares texts and has no state; `Routing` compares
  what is exported with what is configured by its effect.
- `.travis/deploy.sh` and `.travis/announce.sh` are straight lines of docker and aws
  commands; that old and new tasks overlap is in `Startup` and `OasisTransform`.
- The checks of environment variables and arguments before anything happens,
  postgraphile (which only reads), the build, the test harness.

`PROJECT.json` gives the reason for each. Assumptions about code outside the
repository are named where it is modelled; two are worth repeating: inserting a
transaction that exists does nothing, and logs may be extracted again for any
header at any time or never.

## 6. Plan

The modules planned are written, and no safety property of the passing runs is left
without a proof.
