# Verification of the SimpleVM client

TLA+ modules, TLC configurations and TLAPS proofs about `simplevm-client`, the
service that stands between the de.NBI cloud portal and an OpenStack project.
The source is under `src/`; paths below that start with a directory of
`simple_vm_client` are relative to `src/simple_vm_client/`.

Contents: [the system](#the-system), [the modules](#the-modules),
[the runs](#the-runs), [fairness](#fairness), [the proofs](#the-proofs),
[disagreements found](#disagreements-between-code-and-documentation),
[what is not modelled](#what-is-not-modelled), [plan](#plan).

## The system

### Parts

| part | source | state it keeps | operations |
|---|---|---|---|
| RPC server | `VirtualMachineServer.py`, `VirtualMachineHandler.py` | worker threads of `TThreadPoolServer`, the queue of accepted connections | serves one connection per thread, forwards each call to a connector in that thread; SIGTERM handler |
| generated code | `VirtualMachineService.py`, `ttypes.py` | the client's and the server's end of a connection | `send_`, `recv_`, `process_` of each method; `read`, `write`, `validate` of each structure |
| ForcConnector | `forc_connector/forc_connector.py` | `active_playbooks` (class attribute, no lock); a hash per VM in Redis; the scheduler thread | prepare, deploy, status and logs of a playbook; template update job; FORC backends (HTTP) |
| Playbook | `forc_connector/playbook/playbook.py` | temporary directory, `ansible-playbook` process, `returncode`, output | construct, `run_it`, `check_status`, `get_logs`, `cleanup`, `stop` |
| Template | `forc_connector/template/template.py` | directory `plays/resenvs`; tables `_all_templates`, `_allowed_forc_templates`, `_loaded_resenv_metadata`, `_forc_allowed`; `is_locked` | `update_playbooks`, lookups |
| OpenStackConnector | `openstack_connector/openstack_connector.py` | `lock_access`, `lock_dict`; everything else is in OpenStack | servers, keypairs, security groups, volumes, images, ports |
| BibigridConnector | `bibigrid_connector/bibigrid_connector.py` | an HTTP session with retries | start, describe and terminate clusters |
| MetadataConnector | `metadata_connector/metadata_connector.py` | none | puts and removes metadata by HTTP |
| FlavorResourceExporterConnector | `flavor_resource_exporter_connector/...` | an HTTP session with retries | fetches and parses a list |
| converters | `util/thrift_converter.py`, `util/state_enums.py` | none | OpenStack objects to Thrift structs |

### How they interact

* **Threads.** Each connection of the portal is served by one of `threads` workers,
  from its first call to its end; further connections wait in a queue.
  A second kind of thread, the scheduler of `ForcConnector`, runs the template
  update. All of them share the connectors, which (security groups of projects
  apart) take no lock.
* **A playbook's life.** `start_server_with_custom_key` creates a server with a
  generated key and writes the hash `{key, name, status: prepare}`.
  `create_and_deploy_playbook` reads the key, constructs a `Playbook` (which
  copies the templates), waits for a template update, writes `building`, starts
  `ansible-playbook` and registers the object. Every `get_server` looks at the
  process and writes `successful` or `failed`; `get_playbook_logs` returns the
  output and, once the status is final, deletes directory, hash and entry.
* **Template update.** The scheduler's job looks through `active_playbooks` and
  Redis for running playbooks, waits for them to end a few times, then replaces
  the template directory and the tables under `is_locked`.
* **Security groups.** Starting a server finds or creates the group of its
  project and of its research environment by name; OpenStack permits two groups
  with one name, and then every lookup by that name raises.
* **Answers.** `process_<method>` turns what the handler returns or raises into a
  message: a declared exception, a result, or "Internal error". `write` validates it
  after the handler has done its work; a value it refuses ends the connection. The
  client's `recv_<method>` takes the next message, whatever its sequence number.
* **Images.** `get_image` asks OpenStack once or several times: for the name, for a
  list when the name is ambiguous, for another list when the image has to be
  replaced. The catalogue may change in between.
* **Shutdown.** SIGTERM runs a loop over `active_playbooks` in the main thread, which
  is inside `serve()`; the workers go on meanwhile. `serve()` swallows every
  exception but `SystemExit`.
* **Process boundary.** Redis, OpenStack, the template directory and the
  temporary directories survive a crash; `active_playbooks`, the tables and the
  locks do not. `ansible-playbook` processes go on by themselves.

### What is hard

* *Interleaving.* Requests about one VM overlap: the portal polls `get_server`
  and `get_playbook_logs` while a deploy runs. Membership in Redis and in the
  dictionary is tested, and the entry read again later.
* *Order of writes.* `check_status` writes the status to Redis before the exit
  code to the object; `get_playbook_logs` reads them in the opposite order.
* *Stale views.* The update looks for active playbooks and later takes the lock;
  a deploy looks at the lock and later registers.
* *Partial failure.* Each call of OpenStack, Redis, GitHub and FORC may raise
  between two changes that belong together; only some places undo the first.
* *Crash and restart* at any of these points.
* *Lost answers.* A request without an answer may have been carried out. The session of
  OpenStack repeats GET, PUT and DELETE (`HTTPAdapter(max_retries=3)`), those of BiBiGrid
  and of the flavor exporter also POST and after server errors; the others repeat nothing.
* *Bounded waiting.* A deploy gives up after five minutes, the update job after
  six looks; both compare counters with limits.

The full list, with the line where each hazard bites and the properties that
would catch it, is `hazards` in `PROJECT.json`.

### What makes each part correct

* Playbook runs: no outcome is invented; a running playbook stays reachable and
  keeps its directory; final states are final; the exit code is there when the
  outcome is; each request is answered.
* Template update: readers see consistent tables; an update that was not
  abandoned has installed one archive; nothing changes without the lock; the
  lock is released and the job ends.
* Both together: the job starts no update over a run it can see; a deploy waits for
  an update (it does not, see [below](#disagreements-between-code-and-documentation)).
* Security groups: one group per project; no server gets an unfinished group or
  two of one name; no lock stays held.
* Server start: the recorded private key opens the server; a server has the key
  of its request; key pairs stay in OpenStack only while a start needs them.
* Shutdown: what was running is stopped, and its server deleted, before the client
  ends; no server goes before its run was told to end.
* Images: the image booted was active and fits; an image that is there is found; a
  snapshot in progress is not destroyed.
* Calls: each answer reaches the call it belongs to; success means done, a reason of
  refusal means undone; nothing is done twice; no call is forgotten (each with
  exceptions that the properties name).

## The modules

| module | models | composes |
|---|---|---|
| `Playbooks` | the life of a playbook: four kinds of requests over Redis and `active_playbooks` | |
| `TemplateUpdate` | the scheduler's job and `Template.update_playbooks` | |
| `Forc` | `ForcConnector` as a whole | `Playbooks`, `TemplateUpdate` |
| `SecurityGroups` | groups of projects and research environments | |
| `ServerStart` | the key pair of a start, the server made with it, the key in Redis | |
| `Interface` | the Thrift interface: all structures, exceptions and methods | |
| `Handlers` | for each method, what its handler answers to each outcome of its request | |
| `Rpc` | connections, the threads of the server, the generated client and processor | `Interface`, `Handlers` |
| `Shutdown` | the handler of SIGTERM, among the threads it does not stop | EXTENDS `Playbooks` |
| `Images` | which image a server is booted from; snapshots and deletions meanwhile | |
| `PlaybookLife` | what the portal may rely on about one VM's playbook; implemented by `Playbooks` | |
| `Calls` | what it may rely on about one connection; implemented by `Rpc` | |
| `ProjectGroups` | what it may rely on about the group of a project; implemented by `SecurityGroups` | |
| `MC*` | values of the constants and symmetry sets for TLC | each EXTENDS its specification |
| `*_proofs` | theorems and proofs | each EXTENDS its specification |

All share one form. `pc[t]` is the next step of thread `t`, and its locals are
functions of `t`. An action is one access to state that another actor can see
(a Redis command, a read or write of `active_playbooks`, an OpenStack call, a
lock operation, a look at the process) with the local code around it; between
two actions a thread may be preempted. `Return(t)` ends a request, by a result
or by an exception: the Thrift processor answers with either and keeps the
thread.

A call of Redis, OpenStack or the file system may raise. It then has had no effect
(`CallRaises` in `Playbooks`, a disjunct of the action elsewhere), or it has had its effect
and only the answer was lost: a second disjunct of every write to Redis, every creation
and deletion in OpenStack, and every step of the update that writes files. Where a later
step could not tell the difference, the disjunct is left to the one without effect (a
read that raises, the addition of a group to a server, after which the request ends
either way). Effects that come after their call has raised are left out. (In `Rpc` a whole
handler is one action per request it sends, since there only its answer matters.) Mutants
(actions with a plausible bug) stand in a section of their own and are used by no
specification.

### Playbooks

| state | code |
|---|---|
| `servers` | servers created so far; OpenStack ids are new each time |
| `redis[v]` | the Redis hash of VM `v`: its status, and whether it has `key` and `name` (`full`) |
| `active[v]` | `ForcConnector.active_playbooks` |
| `owner`, `proc`, `returncode`, `dir` | a `Playbook` object: VM, process, exit code, temporary directory |
| `unanswered` | history: VMs of which a write to the hash got no answer, while their playbook is registered |
| `pc`, `vm`, `pb`, `rc`, `waited` | a worker thread and its locals |

The steps `set_wait`, `st_*`, `lg_*` and `dp_*` follow
`set_vm_wait_for_playbook`, `get_playbook_status` (with `check_status`),
`get_playbook_logs` (with `get_logs` and `cleanup`) and
`create_and_deploy_playbook` line by line. `HSET` creates a hash that is gone
(`SetStatus`), `hget(...).decode` of a missing field raises. A `Playbook` object
that nothing refers to any more takes its `TemporaryDirectory` with it, while a
crash leaves directories behind (`"left"`). `DeployCopyTemplate` and `DeployConstruct` are
the two copies a deploy makes of template directories, between which an update can
remove one. `ProcessExit` is `ansible-playbook`; `Restart` is a crash and a new start.
`DeployCheckLock(t, locked)` is one look at `Template.is_locked`: here it may find
anything, in `Forc` it finds the lock of the update. What a request answers is the
subject of `Rpc`, and not kept here.
Abstracted: the content of playbooks, the output, all exit codes but 0 (one
value `1`), and that a removed directory makes ansible fail (a process may exit
with either code at any time).

### TemplateUpdate

| state | code |
|---|---|
| `resenvs` | `plays/resenvs`: per template absent, unparsable, without FORC, or an edition that needs FORC |
| `allTemplates`, `offered`, `loaded`, `forcAllowed` | `_all_templates`, `_allowed_forc_templates`, `_loaded_resenv_metadata`, `_forc_allowed` |
| `isLocked` | `Template.is_locked` |
| `upc`, `archive`, `todo`, `parsed`, `tries` | the thread of the job and its locals |
| `size`, `left`, `seen`, `id` | its iterator over `active_playbooks`: the size the dictionary must keep, keys still expected, keys given, the key in hand |
| `changed` | history: the keys have changed since the loop began |
| `serving` | the constructor is over and the server accepts requests |
| `registered`, `recorded` | keys of `active_playbooks`, VMs with a hash: the environment |

The job looks at the dictionary entry by entry (`NextKey`, `LookUp`), with the iterator
of CPython: it raises `RuntimeError` when the size has changed or when it meets more keys
than there were, and it may give a key twice or miss one when a key went, another came
and the table was rebuilt. An exception leaves the job (`JobRaises`), which the scheduler
runs again at the next interval. The update removes, moves and copies one template at a
time, then lists, loads and asks FORC; each step up to the list may raise, wherever it
has come to. Loading and asking catch what they raise. A crash (`URestart`) leaves the
directory as it is.

### Forc

`FNext` interleaves the steps of `Playbooks` and `TemplateUpdate` over the dictionary,
Redis and the lock; `TemplateUpdate` is instantiated with `registered` and `recorded` as
functions of `active` and `redis`. Requests are served only after the first update
(`serving`), a deploy sees the lock of the update (`Proceed`), and its first copy fails for
want of a template only when one is missing (`CopyStep`). `gone` records the templates the
update in progress has removed and not yet brought back, `changed` is kept as in
`TemplateUpdate` (`NoteChange`). The two parts keep their actions, so nothing is gained by
showing that each part is implemented; the properties of this module are the ones that
need both.

### SecurityGroups

| state | code |
|---|---|
| `name`, `ruled`, `spoiled` | groups in OpenStack: name; those of projects that have their rule; those of projects whose making was cut short by a call that raised or by a crash (history) |
| `live`, `started`, `attached` | servers and their groups |
| `lockAccess`, `lockDict`, `holder` | `lock_access`, `lock_dict` and the locks in it |
| `pc`, `op`, `srv`, `env`, `prj`, `todo`, `lock`, `grp`, `found` | a worker thread and its locals |

`AcquireAccess` to `Release` are `get_or_create_project_security_group`; the
`Env*` steps create the group of a research environment, which takes no lock.
A `create_security_group` may raise with the group made (`ProjectNew`, `EnvCreate`), and a
crash (`Restart`) may come between the group and its rule; either leaves a group without its
rule, which the next request takes for complete. `ProjectGroups` promises no more: a group
that is `"broken"` is given like one that is `"complete"`, but none that is still being made.
`lock_dict` is a dictionary filled under `lock_access`, so a lock is
named by the thread that made it: two threads that both made one would hold two
different locks. `VisitGroup` is one turn of the loops of `delete_server` and
`remove_security_groups_from_server`. `is_security_group_in_use` is modelled by
what it returns, which is always true (see below); groups therefore are never
deleted, and the proofs use that. Left out: groups of single VMs, default
groups and ids passed by the portal.

### ServerStart

| state | code |
|---|---|
| `pair`, `made` | key pairs in OpenStack by name; pairs that OpenStack has generated |
| `keyName`, `serverKey` | servers in OpenStack: `key_name`, and the key it stood for at creation |
| `record` | the field `key` of the server's Redis hash |
| `lost`, `left` | history: names for which the answer to a deletion was lost; names whose pair no request will delete any more |
| `pc`, `name`, `key`, `srv`, `cleanup` | a worker thread and its locals; `cleanup` is the place `delete_keypair` was called from |
| `repeats` | how often the session has sent the deletion again |
| `shared` | history: another request used the same name at the same time |

`Prepare` to `Boot` are `start_server` and `start_server_with_playbook` up to
`create_server`; `DeleteGet` and `DeleteKeypair` are `delete_keypair` at each of
its four call sites; `RecordKey` is `set_vm_wait_for_playbook`. `DeleteAgain` is the
session (`HTTPAdapter(max_retries=3)`): the deletion was done, its answer is lost, and it
is sent again, to meet whatever pair has the name by then. (POSTs, which make pairs and
servers, are not repeated.) A call may raise, with its effect or without. `OpenStackCloudException` leads to the handler, which
deletes the pair and raises again; anything else passes through to the caller
(`Abandon`). A crash forgets the threads and keeps OpenStack and Redis.
Abstracted: what `Prepare` looks up (one step that may raise), the randomness of
names (`RandomNames` are drawn from freely: three hex digits do repeat), and a
`create_server` that raises after OpenStack has made the server (the model makes
no server then, so nothing is said of servers nobody was told about).

### Interface and Handlers

Two tables. `Interface` has a definition for each structure and exception of `ttypes.py`
(types of the fields, required fields) and for each pair `X_args`, `X_result` of
`VirtualMachineService.py` (arguments, type of `success`, declared exceptions), and two
operators: which structures `write` visits for a value (`Written`), and whether it can
write it (`Writable`). Names, numbers and encoding of fields are abstracted.

`Handlers` has a definition for each of the 84 methods: a record from the outcome of its
request at the other side (looked up in vain, done, absent, missed, conflict, refused,
slow, broken) to the set of answers the handler can end with. `missed` is an absence that
shows after something was changed: `start_server` and `start_server_with_custom_key` make
the security groups before they look for image and flavor. `Passes`, `AfterServer`,
`Always` and `Local` are the shapes most handlers have; what `except` clauses rename,
swallow or let pass, and which required fields a converter may leave empty, is in the
table. `Changing` are the methods that change something, `FailsLate` those with a
further step after the change (`open_port_range_for_vm_in_project` makes and attaches its
groups before it meets a conflict over the rules).

`Repeats` is how often a session repeats a request: three times for whatever only reads
from OpenStack (`Reading`) or ends with a DELETE (`DeletingById`, `DeletingByName`), and for
all requests of BiBiGrid and the flavor exporter (`Retrying`). `delete_server` is not among
them, since a forced deletion is a POST, and the PUTs of `create_snapshot` set tags, which
set again change nothing. What is deleted by its id is deleted once; a key pair is deleted
by its name, a volume detached from a server by the pair of them, and another call may
have made either again meanwhile.

### Rpc

| state | code |
|---|---|
| `client[c]` | the portal's end of a connection: waiting for an answer or not, and what it heard last |
| `history[c]` | the calls made on it: method, changes made, outcome (history) |
| `request[c]`, `reply[c]` | messages on their way |
| `queue`, `worker[w]` | connections without a thread; a thread: its connection, step, repetitions and answer |
| `shut` | connections the server has closed |

`Ask`, `Hear` are `send_`, `recv_`; `Read` is `Processor.process`, `Attempt` one request
of the connector, `Write` the rest of `process_<method>`: it sends an answer or, when
`write` raises, closes the connection. `HangUp` is the portal that goes away at any
time; as the generated client cannot be used again after a timeout, it does not go on
with the connection, which is what `ImplementsCalls` needs. A call of a method the
processor does not know (`renamed_method` in the run: a portal of another version) gets
`UNKNOWN_METHOD`. `Changes` is what an attempt may have changed by its outcome: a missed,
late or unreadable answer leaves it open, as does any failure of a method in `FailsLate`.
Repetitions count separately, so that a call may change something more than once. Abstracted: time, the content of arguments and results, TLS, and the
effects of the calls on each other, which the other modules are about.

### Shutdown

| state | code |
|---|---|
| `handler` | `keyboard_interrupt_handler_playbooks`: step, key, value, keys given, keys still to give, size at the start |
| `found`, `changed` | history: keys at the signal; have they changed since |
| `terminated`, `deleted` | processes sent a SIGTERM; servers deleted in OpenStack |

`LoopNext` to `LoopDeleteServer` are the loop, `StopTerminate` to `StopDelete` are
`Playbook.stop`, each of whose calls may raise, the last write with its effect or without.
The iterator of a dictionary raises when the size has changed or when
it meets more keys than it expected, and may miss a key when the table was rebuilt. A
second signal interrupts the first handler and its end ends both. `Abort` is the
`except` clause of `serve()`. The threads of `Playbooks` run between any two steps
(`Serve`). A signal before `serve()` is left out: there is no playbook yet.

### Images

| state | code |
|---|---|
| `status`, `tags`, `alive`, `task` | images, servers and the snapshot being taken of each, in OpenStack |
| `pc`, `kind`, `ask`, `slurm`, `want`, `image`, `todo`, `srv`, `busy` | a worker thread and its locals; `kind` is the method that calls `get_image`, hence its flags |
| `sawActive`, `stillActive`, `sawInactive` | history: what the catalogue held while the call ran |
| `read`, `silent` | history: the task state as OpenStack gave it; the SSH port did not answer |

`Lookup`, `List`, `Replace` are the three requests of `get_image`, `Missing` and `Found`
its branches, `Fitting` and `FittingWorkers` the two searches for a replacement.
`create_snapshot` adds tags one by one, `delete_image` looks and then deletes,
`delete_server` reads the server, perhaps overwrites its task state (`Netcat`), compares
and deletes. `Change` and `SnapshotEnds` are other users and OpenStack. Static data of
an image (name, version, distribution, slurm version, date) is the constant `Info`; an
id is a name that one image has. Images with equal dates and the order of a list are
left to choice.

## The runs

| run | question | bounds | result |
|---|---|---|---|
| `playbooks` | overlapping and repeated requests, calls that raise, a lock held at any time, a crash | 2 threads, 1 VM, 2 playbooks (a repeated deploy), 1 wait for the lock, 1 crash | 1.0 million states, holds |
| `playbooks_exit_code` | does the last result of a run carry its exit code? | 2 threads, 1 VM, 1 playbook | violated |
| `template_update` | updates that succeed, fail or are cut off by a crash | 2 templates, 2 VMs, 2 updates, 1 retry | 270 000 states, holds |
| `template_update_atomic` | is the directory replaced atomically? | same with 2 FORC editions, 2 retries | violated |
| `forc` | does the job start an update over a run it could see? | 1 thread, 2 VMs, 2 playbooks, 2 updates, 1 retry, 1 crash, no template | 920 000 states, holds |
| `forc_wait` | does a deploy that meets an update wait for it? | 2 threads, 1 VM, 1 playbook, 1 template, 2 updates, 1 crash | violated |
| `security_groups` | starts, additions and deletions race; any call of OpenStack raises, with or without effect; a crash | 2 threads, 1 server, 3 groups, 1 project, 1 environment, 1 crash | 620 000 states, holds |
| `security_groups_unused` | is a group found out of use deleted? | same with 2 groups | violated |
| `rpc` | every method with every answer and repetition, hang-ups, calls in a row, a queue | 2 connections, 1 thread, all methods and an unknown one on the first connection, two calls on the second | 1.3 million states, holds |
| `shutdown` | signals among requests, exceptions in the loop, a signal within a signal, a restart | 1 thread, 2 VMs, 2 playbooks, 2 signals, 1 restart | 5.2 million states, holds |
| `images` | choices of images, snapshots and deletions race, others change the catalogue | 2 threads, 3 images (2 of one name, 1 snapshot), 1 server, 1 change by others | 3.2 million states, holds |
| `server_start` | starts of one name overlap, calls raise with and without effect, deletions are sent again, crashes | 2 threads, 1 server, 1 random name, 1 server name, 2 public keys, 2 generated pairs, 1 repetition of a deletion | 950 000 states, holds |

Why the bounds are enough to be interesting:

* Everything shared in `Playbooks` is per VM, so two threads on *one* VM are the
  case that matters; two `Playbook` objects give a repeated deploy and the
  overwritten entry; one crash reaches every "left behind" state. `MaxWait = 1`
  has both outcomes of the wait. The safety properties of this run are proved
  for all values.
* Two templates make partial removal and partial copy different from none and
  all; two updates make old and new content differ; two VMs let the dictionary
  change without changing its size.
* In `SecurityGroups`, two threads can both find a group missing; three groups
  are two twins of the environment plus the project's.
* In `forc` two VMs give a loop of the job that has passed one key and comes to another,
  a dictionary that grows, shrinks, or changes a key for another under it, and hashes that
  come and go meanwhile. One thread is enough to do all of that between two steps of the
  loop; the proof is for any number. The property does not mention templates, so the run
  has none and its update only takes and releases the lock; with one there are more than
  20 million states. `forc_wait` has a template to remove, and a second thread that keeps
  the VM's hash while the first deploys.
* In `SecurityGroups` one crash at any step is enough for a group without its rule.
* In `ServerStart` everything is per name, so one name of each kind and two
  threads are the case that matters. Two keys of users tell a pair found from
  the pair wanted; two generated pairs let a refused request follow a served one.
  With one server a second start fails at its creation, which is one of the
  failures wanted, and the first leaves behind what a second server would meet.
  The session may repeat a deletion three times; one repetition can already hit the
  pair of another start, and the proof is for any number. Crashes are not bounded.

* In `Rpc` two connections and one thread give a queue and a thread that changes hands;
  a second call on a connection is what a wrong answer needs. Threads share nothing
  but the queue. All methods are run, since each has its own row in the tables.
* In `Shutdown` two keys give an interrupted loop, a size that changes and a key that is
  replaced by another; two signals a second loop over what the first left. Workers are
  represented by one thread; the proof is for any number.
* In `Images` two images of one name are an ambiguous name, a third is a snapshot that
  may have become a worker image. Every initial state of them is tried.

Deadlock is checked in every run but two: there is always something a caller may ask for
or an actor that may move. In `rpc` the portal may close its connections, in `shutdown`
the client ends.

### Properties

*Playbooks.* `TypeOK`. `OutcomesAreReal`: "successful" only if a playbook of that
VM exited with 0, and an exit code held by a log request is that of the process.
`RunningIsTracked`: directory and entry of a running playbook. `RegisteredHasRecord`:
a registered playbook can be found through Redis, until a log request has cleaned up after
its end; that request is about to drop the entry, or it died of a `DEL` that took effect and
was not answered, and then the entry stays without a hash. `ExitCodeFollowsStatus`: the
exit code is at most one step behind a final status, unless a status request died of an
`HSET` in the same way, after which the exit code may be missing for as long as nobody asks
again. `ImplementsPlaybookLife`: the
status in the hash of a VM and the process of its playbook, seen together, are one
life of one playbook (`PlaybookLife`): prepared, built, run and ended once, and the
verdict shown is that of the process. `FinalStatusSticks` (no late "building", no second
verdict) is a consequence and is proved. `EveryRequestReturns`. All but the first
two and the last are stated for VMs that are deployed once: a repeated deploy overwrites the entry of
the first playbook, and nothing in the client prevents it (hazard
`forc_connector.py:622`).

*TemplateUpdate.* `UTypeOK` (with the bounds on retries and offers),
`MetadataHasVersions`, `DoneMeansInstalled`, `ChangesUnderLock`,
`UpdateJobEnds`: each job ends, and with the lock released.

*Forc.* `UpdateSparesRuns`: when the job comes from its last look to the lock, every
playbook registered for a VM deployed once has ended and its directory is gone, unless a
key was registered or dropped while that loop ran. Within the loop hashes may come and go,
and the look into Redis and the look into the dictionary are two. The exception is real:
an iterator over a table that was rebuilt may miss a key. The property says nothing of a
deploy that has passed its look at the lock and is not registered yet; such a deploy
does overlap an update, but it has already copied its templates.

*SecurityGroups.* `TypeOK`, `OneGroupPerProject`, `NoTwinsAttached`, `LocksAreFreed`.
`ImplementsProjectGroups`: with its two kinds of locks, a lookup and two calls that
may be refused, `get_or_create_project_security_group` is for its callers one step
that gives the only group of the project, at a time when nobody is making it, or
gives nothing (`ProjectGroups`); and a server gets the group its request was given. The
group may lack its rule only if the request that made it was cut short.
`ProjectGroupsAreComplete` (no server has a group without its rule, unless that was so)
is proved only. Two groups of one research environment are
possible (no lock) and stay possible in the model; checked is that no server gets
both.

*ServerStart.* `TypeOK`. `RecordedKeyOpens`: the private key in Redis opens the
server, although the server was created by the *name* of the pair and two
requests may use that name. It fails only if OpenStack deletes a pair and the
answer is lost: the session or the exception handler deletes again, by then perhaps the
pair of a later request (hazards `openstack_connector.py:130` and `:2685`). `OwnKeyUnlessShared`: the
same of imported keys, for requests that did not overlap with another one of the
same random name; for those that did, the server may carry the other's key.
`PairsAreTemporary` and `NamesAreFreed`: a pair in OpenStack has a request that
will delete it, and it is deleted, unless an exception that nothing catches or a
crash came first. A server is not taken back when the deletion of its pair or
the Redis record fails: the caller gets an exception and no id. The code does
this on every such path, so it is a hazard without a property.

*Rpc.* `TypeOK` (with the bound on repetitions). `ImplementsCalls`: threads, queue and
messages put aside, a connection is one call after the other, and the answer heard is
that of the last call, though nobody compares numbers (`Calls`). `NoCallIsLost`: a client that
waits has its request, its answer or a thread, or the server has closed the connection.
`ReturnedMeansDone`: a call that returns has made its change or there was nothing to
change, but for five methods that are silent about failures (`Silent`).
`RefusalsAreTrue`: an exception that names a reason means that nothing was changed, but
for the reasons in `Excused`, which a method can meet after a change of its own (tags of a
snapshot, groups of a server that is deleted, started or opened), at the repetition of its
DELETE (a volume or snapshot that the first attempt has deleted is not found), or which
`delete_backend` takes a server error for; and
a result is missing only where the handler has none. `ChangedOncePerCall`: only starting
and terminating clusters, deleting a key pair and detaching a volume may happen more than
once per call, and at most four times. `CallsEnd`: all calls end but those in `Untimed`,
whose requests have no timeout. The exceptions are named in the properties because the code
has them: each is a place where the portal hears something that is not so, or nothing.

*Shutdown.* `ShutdownTypeOK`. If the client exits and the keys of `active_playbooks` did
not change under the loop: `ExitStopsRuns`, each running playbook that was registered has
been told to end; `ExitDeletesServers`, each server found is deleted.
`DeletedAreStopped`: whatever becomes of the loop, it has deleted no server whose playbook,
the only one of its VM, runs on without having been told to end.

*Images.* `TypeOK`. `ReplacementFits`: the image booted was active during the call, and
has the name asked for or is a replacement of the right version and distribution, and no
snapshot unless workers were asked for. `FoundIfActive`: an image of the name that was
active all the time is found, unless a younger one of the name that was not active hides
it. `DeletionSparesSnapshots`: a deletion destroys a snapshot in progress only if the SSH
port was silent, or the snapshot began after the look at the task state.

## Fairness

`FairSpec` assumes weak fairness of each thread's next step: the operating system
runs what can run, and calls of Redis and OpenStack end, by an answer or by raising.
For OpenStack the session has a timeout of 30 s; for Redis this is an assumption, since
the pool has no socket timeout (`forc_connector.py:118`). Nothing is assumed of
callers, of `ansible-playbook`, of the update or of the order in
which a contended lock is handed on. In `Playbooks` a waiting deploy may find the lock held
at every look (`WF(Step(t) \/ DeployCheckLock(t, TRUE))`), so `EveryRequestReturns` holds even
if an update never ends. `UFairSpec` assumes that the scheduler's thread is run and that
its HTTP requests end. FORC's have a timeout; for the request to GitHub this is an
assumption, since `requests.get` there has none. In `Rpc`, `Fairness` says that a thread
which can go on does, and that each request ends by its answer or its timeout. Methods whose
requests have none are left out (`Untimed`): `get_cluster_log`, those that use Redis, and
those that wait in the SDK for a volume or a snapshot. Nothing is assumed of the
portal, so that a thread may read from an idle connection for ever: the server sets no
timeout, and idle connections can hold all threads. `Forc`, `Shutdown` and `Images` are
about safety and assume no fairness.

## The proofs

Checked by TLAPS, for every value of the constants that satisfies the named
assumptions (`ConstantsAssumption`, `TemplateAssumption`, `ForcAssumption`, `GroupsAssumption`,
`StartAssumption`, `SignalsAssumption`, `ImagesAssumption`, and those of `Rpc` below): the
"no such thing" values are distinct from the things, bounds are natural numbers, the set of
VMs is finite where its size is taken.

* **`Playbooks_proofs`.** `IInv == Consistent /\ Single` is inductive
  (`Invariance`). `Consistent` is what each program step of a thread knows
  (`Locals`: the playbook in hand belongs to the VM in hand, a polled exit code is
  that of the process), that a deploy's object is known to nobody else
  (`Exclusive`), and what registered objects and statuses say of processes.
  `Single` speaks of the only playbook built for a VM: its directory, its place in
  the dictionary, the verdict in the hash, and that the hash says "building" from
  the write until the registration (`Recorded`), which is why a final status is
  never younger than the registration. `OnlyKept` is the link: an object that is
  the only one after a step was so before. Theorems: `TypeCorrect`, `Outcomes`,
  `Tracking`, `Findable`, `CodeFollowsStatus`, `Finality`. For `RefinesPlaybookLife`,
  `LifeInv` adds what the hash says before the playbook starts and after it has ended,
  and each action is
  matched with an action of `PlaybookLife` or a stutter. `RequestsEnd`: see below.
* **`TemplateUpdate_proofs`.** `UInv` follows the update: what is removed, copied,
  listed and offered at each step (`Files`, `Tables`), the template between the
  two halves of `_process_template_metadata` (`InHand`), how often each can have
  been offered (`Counts`), and that the lock is held exactly between `Lock` and
  `Unlock` (`Locked`). Theorems: `UTypeCorrect`, `Versioned`, `Installed`,
  `LockProtects`, `JobAdvances`.
* **`Forc_proofs`.** Each step of `FNext` is a step of `Playbooks` or leaves its variables
  alone, because `isLocked` is a Boolean (`PlaybooksInForc`), so that its invariants can be
  used here (`ForcIsSafe`). `SparesRuns` (`UpdateSparesRuns`) needs more: `LoopInv` says
  that, as long as no key has changed, each VM the loop has passed has no registered run
  (`Over`). When the loop comes to a VM without a hash, `NoHashIsOver` takes from the
  invariant of `Playbooks` that a log request has cleaned up after the run's end; and what
  is over stays over (`OverStays`), for a VM that is deployed once.
* **`SecurityGroups_proofs`.** `IInv` says who holds which lock (`Locking`), that a
  project has no group while one thread inside its lock is about to create it
  (`Making`, `OneGroupPerProject`), that ids handed on are of finished groups
  or abandoned groups (`Finished`, `Gathered`), and that a thread about to add a group has
  seen that the server lacks its name (`Adding`). A crash frees all locks and threads at
  once and spoils the group in hand (`Restarted`). Theorems: `TypeCorrect`,
  `ProjectHasOneGroup`, `AttachedAreComplete`, `NoTwins`, `RefinesProjectGroups`,
  `HoldersNeverWait`, `RequestsEnd`. For the refinement, `Handed` says that a thread
  past the function hands on the group of its own project, and `Vacant` that a server
  that is gone is in no group.
  `HoldersNeverWait` is the absence of circular waits: a thread that waits for a lock
  holds none. Twins cannot be attached
  because a lookup that meets two groups of a name raises and names never change.
* **`ServerStart_proofs`.** A generated pair belongs to one request (`OneMaker`)
  and stands under its name from the generation to the deletion (`Owned`): OpenStack
  refuses a second pair of the name, and a refused request deletes nothing. Hence
  the server created by name gets it (`CustomKeyFits`), also when the key is
  recorded. The exception is a name in `lost`, where a repeated deletion may have taken
  the pair away. Imported pairs have no such owner:
  two requests of one random name both go on, so `Imported` promises the request's
  own key only while `shared` is false, and `Sharing` says that two requests of one
  name both know it. `PairsAreTemporary` is part of the invariant. Theorems:
  `TypeCorrect`, `RecordedKeys`, `ImportedKeys`, `Temporary`, `StartsEnd`.

* **`Rpc_proofs`.** A connection is new, queued, with one thread, or shut (`Places`), and
  its last call is in one place: request, thread, answer or client (`Flow`). Hence an
  answer can only be that of the last call. `Work` says what a thread at work has done,
  `Accords` what may be heard of a call; `AnswersAccord` is the link between the two, by
  way of `Response`, `CanWrite` and `Heard`. A call whose earlier attempt was repeated may
  have changed something, so a reason may be named only by an attempt that is the first
  (`Harmless`). The tables enter through assumptions at
  the end of `Rpc` (`ReturnsAssumption`, `ReasonsAssumption`, `ResultsAssumption`,
  `NamesAssumption`, `AnswersAssumption`), each a finite statement about `Interface` and
  `Handlers` that TLC evaluates on every run: the proof is for any connections, threads
  and calls, the tables are as they are. Theorems: `RpcTypes`, `AnswersMatch`,
  `RefinesCalls`, `CallsAdvance`, `CallsKept`, `ReturnedIsDone`, `RefusalsTrue`, `ChangedOnce`.
* **`Shutdown_proofs`.** `Consistent` of `Playbooks_proofs` survives the signal handler
  (`ConsistentKept`: it touches only directories and deletes hashes); `Single` does not.
  `FoundKeys` says that the keys are those found while they do not change, `Terminated`
  and `Deleted` what was done for the keys given so far, whether the loop goes on or not.
  Theorems: `ShutdownTypes`, `ExitStops`, `ExitDeletes`, `DeletesStopped`.
* **`Images_proofs`.** `Watched` relates what a call has seen with the catalogue as it is:
  an image that was active all the time is active now, so each request of the call
  meets it. `Wanted` keeps why a replacement is looked for, `Reading` that only a silent
  port changes what was read. Theorems: `TypeCorrect`, `WhatFits`, `Finding`, `Sparing`.

Only model-checked: the five liveness properties (`EveryRequestReturns`, `UpdateJobEnds`,
`LocksAreFreed`, `NamesAreFreed`, `CallsEnd`), since fairness and ENABLED are out of the
prover's reach. What is proved is their safety half: a measure that each step of the
request or job brings down, and that no step of anyone else takes back (`RequestsEnd` in
`Playbooks_proofs` and in `SecurityGroups_proofs`, `StartsEnd`, `JobAdvances`,
`CallsAdvance`). What these
theorems leave to TLC is that a request which has not ended can take its next step,
and, for locks, that a waiting request gets its turn. The violated properties are of
course not theorems.

## Disagreements between code and documentation

Each is a run that TLC refutes; `findings` in `PROJECT.json` quotes the line.

1. *Exit code of the last result* (`playbooks_exit_code`). `get_playbook_logs` reads
   the exit code, then the status. If a status request stores both in between, the
   run is dropped with exit code -1, and nothing can ask for it again.
2. *"Atomically replace"* (`template_update_atomic`). The directory passes through
   partial states; a failed move leaves it empty until the next update.
3. *Waiting for an update* (`forc_wait`). The templates are copied before the lock
   is looked at. In the run's trace the first update has installed the template, the
   second has removed it and will copy it back, and a deploy that comes between the two
   fails at its copy; it never gets to the loop that would wait for the update.
4. *Unused groups* (`security_groups_unused`). `if instances:` tests a generator,
   which is always true.

Others were met while modelling and have no run of their own. They are visible in the
models, mostly as exceptions that a property names:

* Two log requests at the end of a run: the slower one ends with `KeyError` or
  `AttributeError`, though the interface declares `PlaybookNotFoundException` only
  (`LogsGetPlaybook`, `LogsHget` in `Playbooks`).
* Five methods are silent about failures (`Silent` in `Rpc`). Nine can name a reason
  though something was changed (`Excused`), among them
  `open_port_range_for_vm_in_project` with its groups attached and
  `start_server_with_custom_key` with groups made for an image that is missing. Four methods of the interface have no handler or
  return `None` where a result is declared (`Undefined`).
* `import_keypair` returns a key pair where the interface has a string, and several
  handlers of FORC put an integer or an exception where it has one: the answer cannot be
  written and the connection is closed (`Value("Keypair", "")`, `RaisesOdd`, `Odd` in
  `Handlers`). The same happens for servers without a key name.
* `catch_shutdown` announces exit code -1; the process ends with `SystemExit(0)` of the
  loop, and not at all when the loop raises (`Abort`, `Exit` in `Shutdown`).
* "task_state in image creating": a silent SSH port hides the task state
  (`DeletionSparesSnapshots`).
* `start_server` ignores a missing image until it takes its id, with the key pair already
  imported (`Choose(t, NoImage)` in `Images`, `start_server` in `Handlers`): the caller gets
  an exception that the interface does not declare.

## What is not modelled

* The groups of single VMs (SSH, UDP and port ranges), default groups and ids the portal
  passes, beyond the answers of their methods in `Handlers`.
* Key pairs that the portal names itself (`import_keypair` and `delete_keypair` as
  requests, workers of clusters) meeting those of starts.
* The formula of the ports, which is a string of the configuration.
* The configuration of a cluster that `start_cluster` builds, the parser of the flavor
  metrics, scripts for cloud-init: translations of data without state.
* The encoding on the wire, TLS, configuration and logging; the generated
  `-remote` script, tests and stubs.
* Ansible's effect on the VM; the contents of templates beyond what the update
  tells apart.
* Time. A call that takes too long raises, before or after its effect; an effect that
  comes after its call has raised is left out.
* File descriptors and temporary directories of the template update.

## Plan

What would come next, in this order.

1. `SecurityGroups` extended by the groups of single VMs.
2. Composition of `ServerStart` with `Playbooks` at `StartServer`, and with
   `SecurityGroups` and `Images` at the creation of the server: each accepted start
   yields a server the caller knows, or nothing.
3. `Rpc` as the caller of `Playbooks`: the handlers of the playbook methods refined from
   one step to the steps of `Playbooks`.
4. Abstract specifications for `ServerStart` (a start yields a server with its key, or
   nothing but what an exception left) and for `Images` (one choice from the catalogue
   at some time during the call).
5. A property for a start that fails after its server was created (hazard
   `VirtualMachineHandler.py:509`), stated for what remains of it.
