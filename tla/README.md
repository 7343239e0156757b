# A TLA+ model of bunsen

bunsen runs coding agents in sandboxes and carries their commits into a host
git repository. This directory models how it does so: the on-disk Session that
several processes change at once; the Branch Pool with the Runs and closes that
meet in it; the two supervisors that have to end a Run whatever its agent does,
one over pipes and one over the vsocks of a VM, with the guest's PID 1 at the
other end; the host resources and caches of a Sandbox Run; what an agent may
reach, and who hears of it; the handle through which a User Script follows a
Run; and the algorithms without concurrency on which these rest. TLC checks the
models on small instances; TLAPS proves the safety properties, of the concurrent
ones and of most of the algorithms, for every value of their constants.

Paths are relative to `bunsen-core/src/` unless they start with `python/`,
`bunsen-init/` or `docs/`.

## 1. The system

| Component | State it keeps | Operations | Interacts with |
|---|---|---|---|
| Session (`session.rs`, `session_cli.rs`, `run_dir.rs`) | `sessions/<id>/`: `meta.json` (state, labels, failure), `pool/`, `runs/<run>/` | open, attach, label, run, close, discard, purge, list | one process per verb; they share only the files. Owns a Branch Pool |
| Branch Pool (`branch_pool.rs`) | a bare git repo: `host/*`, `runs/*` and user branches, temporary `refs/bunsen-validate/<i>` | init, mirror_from_host, validate_run_output_targets, accept_run_output, push_manifest, wipe | Runs clone from it and fetch into it, close pushes from it |
| Materializer (`workspace_materializer.rs`) | a Run's Workspace, a clone | materialize | Branch Pool |
| Sandbox fetch (`sandbox_fetch.rs`) | none | the hardened fetch, extraction from ext4 | Branch Pool |
| Supervisor (`supervisor.rs`, `encoder.rs`) | two channels, the agent's process group, `done_count`, `initiated_reason`, transcript | spawn, relay lines, take commands, time out, wait, emit | client through stdin and stdout, agent through pipes and signals |
| Sandbox supervisor (`sandbox_supervisor.rs`) | the same with vsocks, and a channel of egress denials | the same | guest init, VM, proxy, DNS |
| Sandbox Run (`sandbox_run.rs`, `firecracker.rs`, `sandbox.rs`) | TAP, firewall rule, nftables table, proxy, DNS socket, VM | acquire, run, extract, release | privileged net, sandbox supervisor |
| Privileged net (`privileged_net.rs`, `sandbox_net.rs`, `sandbox_nft.rs`) | a queue of 64 commands, one thread | create and delete TAP, load and delete rules, bind DNS | Sandbox Run |
| Host firewall (`firewall_check.rs`) | none | judge what `iptables -S` prints | Sandbox Run |
| Egress (`egress.rs`, `egress_proxy.rs`, `dns.rs`) | allowlist, denial channel | evaluate, proxy, resolve | Sandbox supervisor |
| Caches (`kernel.rs`, `oci_cache.rs`) | files shared by all processes of a user | download, verify, rename | Sandbox Run |
| Guest init (`bunsen-init/src/`) | the agent inside the VM | boot, relay, obey commands | Sandbox supervisor |
| Adapters (`*_adapter.rs`) | per-line parser state | parse_line, flush | Supervisor |
| Target user and paths (`target_user.rs`, `bunsen_paths.rs`) | the process's uid, groups and environment | resolve, drop, fix up | every component that touches the home |
| Run specification (`run_spec.rs`) | none | effective egress policy, image, validation | Session, Sandbox Run |
| Redactor (`redactor.rs`, `encoder.rs`) | the tail held back of a stream | push, flush | both supervisors |
| Python Run handle (`python/bunsen/_run.py`) | a queue of 1024 events, a drain task, a subprocess | iterate, stop, kill, leave the context | Supervisor |
| Harness (`python/bunsen/harness/`) | pending, running and finished tasks | run_dag | Run handle, Branch Pool |

What makes each of them correct, and hard to get right:

* **Session.** One state machine, followed by files that any process may rewrite
  from a stale copy. A state on disk must be true (closed means pushed); the
  host repo is written in `closing` alone; a killed process must leave something
  the next one can use.
* **Branch Pool.** Checks and effects are separate git processes. A Run's audit
  ref is its own commit; nobody's branch is overwritten; the host's user loses
  nothing that they did not ask to force; a failed close publishes nothing.
* **Supervisor.** Lines, ends of file, commands and timers race on bounded
  channels. No line may be lost, the reason must be what happened, a kill must
  reach the whole group, and the Run must end.
* **Sandbox supervisor and guest.** The same, across a VM that may die at any
  point; no agent runs before the host can stop it.
* **Sandbox Run.** Every resource acquired is released on each early return, or
  what stays is known; the VM is filtered for as long as it runs; nobody reads a
  disk that a guest still writes.
* **Caches.** What a VM boots from is whole, however many processes download,
  drop and rebuild it at once.
* **Egress.** Only listed names get through, and a refusal is reported before
  the Run's events end.
* **Adapters, layers, redaction, DNS, addresses, users.** Each is a small
  algorithm with a reference definition: what the events mean, what a stack of
  layers is, that no secret comes out.
* **Run handle.** A failed Run is never an empty success, and leaving the
  context ends.
* **Harness.** A task starts when its dependencies have succeeded, and each
  task gets one result.

## 2. The modules

| Module | Models | Checked by | Proved in |
|---|---|---|---|
| `SessionLifecycle` | the promise: `SessionState`'s transitions and when the host repo is written | as the property `ImplementsLifecycle` of `Session` | |
| `Session` | the processes and the files of one Session | `session_exclusive`, `session_any` | `SessionProofs` |
| `BranchPool` | the Pool, Runs' clones and fetches, closes, the host repo and its user | `pool`, `pool_race` | `BranchPoolProofs` |
| `Supervisor` | the tasks of one host-subprocess Run | `supervisor` | `SupervisorProofs` |
| `RunHandle` | the drain task and the body of a Run in a User Script | `handle`, `handle_exit` | `RunHandleProofs` |
| `Caches` | kernel and rootfs cache, shared by processes | through `HostRuns` | `HostRunsProofs` |
| `SandboxRun` | what one Sandbox Run acquires and releases on the host | through `HostRuns` | `HostRunsProofs` |
| `HostRuns` | `Caches` and `SandboxRun` composed | `sandbox`, `sandbox_pi` | `HostRunsProofs` |
| `GuestInit` | PID 1 of the guest, its threads, the agent's processes | through `SandboxSupervisor` | `SandboxSupervisorProofs` |
| `Egress` | policy, proxy, DNS listener, drop log, the channel of denials | through `SandboxSupervisor` | `SandboxSupervisorProofs` |
| `SandboxSupervisor` | the host side of a Sandbox Run, composed with the two above | `guest`, `guest_net` | `SandboxSupervisorProofs` |
| `Adapters` | the four parsers, line by line | `inputs` | `InputsProofs` |
| `HostNet` | addresses of a Run, netmask, verdict on the firewall | `inputs` | `InputsProofs` |
| `GuestSpec` | the agent's environment, endpoints and image | `inputs` | `InputsProofs` |
| `Layers` | an image's layers applied in order | `inputs` | `InputsProofs` |
| `TargetUser` | which user root becomes, and the drop | `inputs` | `InputsProofs` |
| `Redactor` | secrets in a stream that comes in pieces | `inputs` | `BytesProofs`, `InputsProofs` |
| `DnsWire` | the questions of a query, and the refusal | `inputs` | `BytesProofs`, `InputsProofs` |
| `Inputs` | the inputs of all of these, and the two that take steps | `inputs` | `InputsProofs` |
| `MC...` | values for the constants | | |

The composition follows the program's processes. `HostRuns` puts several bunsen
processes on one host (`Runs` is a subset of `Procs`: some only get as far as
the caches). `SandboxSupervisor` follows one of them into its VM: the guest and
the egress tasks share its Next, and meet it in the vsocks, the control port and
the channel of denials. `Session` and `BranchPool` are two views of one Session:
the first has the files and treats the Pool as one thing that exists or not, the
second has the refs and treats the Session as open.

A definition whose comment starts with "Mutant" is a plausible bug in a
definition that follows it; no specification uses it, and it shows that the
properties can tell the difference.

### Session

A process is one bunsen command; `pc` is the point it has reached, `mem` its
copy of `meta.json`, which it read when it attached and never reads again. The
files are `dir`, `meta`, `tmp` (`meta.json.tmp`), `pool`, `runs`, and `work`
(the transient Workspaces beside the Session). `write_meta_atomic` is three
steps (truncate, fill, rename), and since every process uses the same temporary
name, `fd` says whether a writer's descriptor still is the temporary file or,
after another's rename, `meta.json` itself. `remove_dir_all` in purge lists
first and then unlinks entry by entry; in discard, the Pool and `runs/` are one
step each. Any of these removals fails half-way, with part of the tree gone,
when a Run or a close creates something in what is being removed (`Disturbed`):
the `?` returns and nothing is put back, which is the end `half` of a process.
A kill is possible between any two steps (`Crash`); any other I/O error returned
with `?` ends the process at the same points and is the same step.
`attach` reads `meta.json` and looks for the Pool in one step: the Pool only
ever disappears, so the two reads could as well happen at the time of the
second. `ghost` variables (`touched`, `settled`, `audit`) record which closes
wrote the host repo, whose push succeeded, and which Runs' refs are in the Pool.

`ExclusiveWriters` states a discipline of the caller: open, label, close,
discard and purge never overlap, which is how a User Script that awaits each
command uses them, while Runs overlap with everything, as they do under
`run_dag`. `Stragglers` says whether an agent may leave a process behind that
keeps writing to the Workspace while it is removed; the code ignores the error.

### BranchPool

A commit is a number and `past[c]` what is reachable from it. A Run is a record
with its step, what it cloned, and the HEAD it works on; a close is a record
with its manifest and what it resolved. Each git command is a step: the check of
the targets, the start of the fetch (which reads the refs), its update (which
compares and writes them), the fetch of each host ref under a temporary name,
the judgement, the removal of temporary refs, and the push. git is external, and
modelled by what these commands were observed to do: an update of an existing
branch must be a fast-forward, a fetch may write one ref and reject another,
`push --atomic` moves all refs or none and refuses two sources for one
destination. The deletion of a temporary ref may be refused, which the code does
not look at (`stuck`). Both ways out of a Run are there (`Sandboxed`): the
sandbox path validates twice, and reports what it has fetched; the host path
reads HEAD (`told`), compares it, validates, and has `git fetch` read HEAD again
(`tip`), while a process the agent left behind may still commit (`late`).

### Supervisor

`Relay`, `RelayEnd` and `RelayInvalid` are the two reader tasks; `StdinRead`,
`TimerFire`/`TimerSend` and `GraceSend` the tasks that share the command
channel; `TakeLine`, `TakeDone` and `TakeCmd` the branches of `select!`; `Wait`
is `child.wait()`; `EmitShow` and `EmitLog` are `Encoder::emit`, which blocks the
loop while its stdout is full. A process of the agent holds both pipes or
neither. A descendant is spawned by a
living member of the group. SIGKILL to the group empties it; SIGTERM has no modelled effect,
because an agent may ignore it and may also exit at any time. A reader that
waits for room with a line in hand is not told from one that has not read it.
One line is one event (the black-box adapter). The model ends when the
supervisor returns.

### RunHandle

Three parties: `bunsen-core`, reduced to what `Supervisor` and `main.rs` promise
(events, `run_ended`, a summary, an exit that waits for the end of stdin; or
exit 1 at any time before the summary); the drain task, whose `drain` says at
which `await` it is; and the body of `async with`, which may take an event,
leave early, or wait for the summary, and then runs `__aexit__`. `stdout` is the
pipe and the reader's buffer together. A line may be an ordinary event, one of a
newer schema version, or one too long for `StreamReader.readline`, which raises
an exception the drain does not catch. The waits of 5 and 120 seconds are
choices: they may end before what they wait for. The exception is the wait for
the exit status after end of file: since the core's exit is what closes its
stdout, the status is there in time. Reading a line and putting it are two
steps; `got` and `wrote` count what was received and printed. A Run's remaining
commands (`stop`, `pause`, `resume`) take the same path as `kill`.

### Caches and SandboxRun, composed in HostRuns

In `Caches` a file is an inode, because that is what the kernel cache turns on:
every process downloads to the one name `vmlinux-<version>.tmp`, so
`fs::write`'s `O_TRUNC` empties a file another process is still writing, and
`rename` takes whatever has the name by then. `stage` follows one process
through `ensure_kernel_with` (look up, hash through the descriptor, unlink the
corrupt file by name, fetch, fill, check the hash of *what was downloaded*,
rename) and then through `resolve_rootfs`, whose temporary file carries the pid
and so belongs to one process. A process may fail at each fetch and be killed at
each step, after which the same or another one starts over. `raced` is history:
two downloads overlapped.

`SandboxRun` has one action per step of `sandbox_run::run` and
`start_firecracker`, in their order: probe the firewall, create the TAP, add the
allow rule, bind proxy and DNS, load the table, follow the drop log, prepare the
directory, make the Workspace image, spawn, configure, boot, supervise, extract,
clean up, and drop what is held in the reverse of the order it was acquired.
Each privileged command is an operator (`exec_create_tap`, ...) that gives its
outcomes as pairs of success and what is on the host; a command that creates
first removes what has the name. A removal may fail, and its exit code is
dropped; so may the handing over of journalctl's stdout, and its child is then
nobody's. `stays` is history: what a Run was to remove and could not. `held` is
the guards of the process, the other variables the host, and the two differ
exactly where the code returns with `?` before a guard exists, where a removal
failed, or after the process was killed. Two Runs' ids may hash
to one /30 (`taken`), and then only one of them binds port 53; the TAP's name is
the Run's own, so nothing else collides. Firecracker is external: its API
answers with a status, and it opens kernel and rootfs when it is configured,
which is where `HostRuns` makes the two meet.

### GuestInit, Egress and SandboxSupervisor

`GuestInit` follows `init_linux.rs` phase by phase (`pid1`): mount and connect
for the spec, read it to the end of the stream, bring the network up, connect
stdout and stderr, listen for the host's control connection and accept it, fork,
reap the agent, join both relays, and leave, which ends the VM. Its threads are
the two relays, the control loop and one thread per grace period. The agent's
processes are the leader, a descendant in its session and one that made its own;
`forked` and `on` are two states of the leader because `setsid` is called by the
child, and a kill in between finds no group. What PID 1 `expect`s and does not
get panics it; that, and the death of the VM process, is `VmDies`.

In `Egress` every attempt is served by a task of its own, which lives on when
the listener is aborted. The order of answer and report is the code's: the proxy
writes its 403 and then sends the denial, the DNS listener sends the denial and
then answers REFUSED, and a dropped packet is reported by way of the kernel's
log. A destination is a name and whether it was spelled otherwise than it is
compared, with capitals or blanks; a DNS query has several.

`SandboxSupervisor` is the second half of `start_firecracker` (write the spec,
accept the streams in order, connect to the control port until it listens) and
`run`. The connection to the control port is firecracker's: CONNECT is written
(`connect_host_to_guest`), the guest's kernel takes it (`ControlMade`) or does
not yet (`ControlRejected`), and the OK is read (`ControlTaken`); the guest may
accept, fork and have its agent at work before that, and the host may fail at
any of the awaits (`Abandon`). `run` is two readers, stdin, timer and grace tasks on two bounded channels, a loop
that also takes denials, the wait for the VM, the drain of the denials, the
abort of the listeners, `run_ended`. Everything of the guest and of the network
happens between any two of these. The reason in `run_ended` repeats the code of
`supervisor.rs` and is checked there. What PID 1 relayed before it left is
delivered (vsock has a send buffer); a mount or a network configuration that
fails without stopping PID 1 has no effect here. After the host has ended, the
guest is not followed; a host that failed has its sockets closed, and the VM
goes on without it until the handle that kills it is dropped, which is in
`SandboxRun`.

### The algorithms

`Adapters` is a state machine over lines: a line is what its parser tells apart
(its kind, the ids it names, whether the parts an event needs are there), and
`parser` is what the adapter carries from one line to the next. `Layers` is one
over the entries of a layer's archive, which `apply_layer` applies one by one
to the tree that the layers below left: files, directories, symbolic and hard
links, and both kinds of marker. Where an entry leads through a symbolic link,
or a removal whose error the code drops has failed, the tree is not followed
further (`astray`); a marker `.wh.` without a name is left out. The other five
are operators. The properties compare each with a reference definition written
from the meaning and not from the code: an address by its network and broadcast
address, a firewall by what the kernel does with a Run's packet as it walks the
chains, an environment by who has the last word on a variable, an image by the
union of layers under its whiteouts, the drop from root by the three ids and the
groups that are left, a redacted stream by the text redacted whole, a query by
its names. `Inputs` puts them together: its constants are sets of inputs of each
kind (`InputsAssumption` and `ImagesAssumption` say what they may be), the
variable `x` is one of them, and each initial state has one; with `Parser` or
`Layer` in `x` the state machine takes its steps. Recursion over a query or a
stream is a recursive function or a fold.

Where the code is blind by its own account or by oversight, the reference does
not look away, and the property names the case. The firewall check reads target
and source of a rule and nothing else: a rule that accepts the whole range but
is narrowed by a port, a protocol, an interface or a state, has `!` before its
source, is in a chain that the packet does not come to, or comes behind a rule
that returns, lets a Run start whose packets the kernel then drops
(`Overlooked`); so does a DROP rule before it. The models' chains are two deep,
and `FirewallJudged` says that there is no other case. A marker that comes after
what its own layer brings deletes that, where the image specification keeps it:
`AsLayered` says what is left then. SUDO_GID is taken as it is, root's included,
as is a user's group from the database and what `/etc/group` adds to it:
`DropIsSafe` says that these are the groups of the process and that no other of
root's is left.

## 3. The runs

| Run | Question | Instance | Result |
|---|---|---|---|
| `session_exclusive` | Do the files implement the state machine if writers do not overlap, is a Session at rest usable, and does `closing` end? | 3 processes with any verb, 1 kill | holds, 194,918 states |
| `session_any` | What survives arbitrary overlap? | 3 processes, 1 kill, symmetry | holds, 199,015 states |
| `pool` | Do Runs and closes keep each other's refs and the host's history, and is what is pushed what was judged? | a host-path and a sandbox Run, 2 closes, 3 commits, 4 manifests, symmetry in closes | holds, 2,493,274 states |
| `pool_race` | Does a race on one output branch have a loser? | 2 Runs, 1 close | violated |
| `supervisor` | Does a Run lose nothing, tell the truth and end? | 1 child inside and 1 outside the group, 1 line, 2 control lines, channels of capacity 1, invalid UTF-8 possible | holds, 1,029,432 states |
| `handle` | Does a User Script see every event, the summary and each failure, and get to the end? | 4 events of 3 kinds, pipe and queue of 2 | holds, 11,398 states |
| `handle_exit` | Is the context of a Run always left? | the same | violated |
| `sandbox` | Are the caches whole, the VM filtered, and the leftovers accounted for? | 2 processes that resolve, one of which runs a VM; 1 kill while resolving, 1 while running; 2 modes | holds, 4,725,358 states |
| `sandbox_pi` | Is an agent's history preserved? | 1 pi Run, no kills | violated |
| `guest` | Does output get through whole, is the agent under control, and does the wall clock end the Run? | 1 line, 1 control line, channels of 1, no network | holds, 767,538 states |
| `guest_net` | Do only listed names get through, and is a DNS refusal reported in time? | 1 attempt of any form, all listeners, no lines | holds, 446,430 states |
| `inputs` | Do the algorithms compute what they stand for? | see below | holds, 735,702 states |

Why the bounds are enough. Three processes are the smallest number in which a
stale writer can undo the work of two others (the interesting schedules are
open, A attaches, B finishes, C finishes, A writes). One kill reaches each
single point of failure. Two Runs and two closes are each pair of actors that
can meet; three commits give a fork (two commits on one parent) or a chain,
which is all that fast-forward rules distinguish; the manifests are a plain pair
of entries, a forced one, two sources for one branch, and audit refs alone.
Channels of capacity one are full after one message, which 256 and 16 only reach
later; one line on either pipe is enough for it to arrive behind the other
pipe's end of file; two control lines are the first that can fill the channel
and still lose a kill. A queue of two is full while the drain holds one more
item and the pipe another two, with four events and `run_ended` to pass through:
enough for each party to wait for the other, which 1024 needs longer for. Two
resolving processes are a race on the temporary name, with a retry after a kill
a third download; Runs do not share anything on the host but port 53, which
`taken` stands for. `guest` and `guest_net` split one specification: the network
does not act on lines and signals, nor they on it, except through the end of the
VM and of the loop, which both runs have. All safety properties of these runs
are proved without the bounds (section 4).

The inputs of `inputs` are: 13 hashes at both ends of the range and of the
14 bits that count, in pairs; up to two lines of iptables with every policy
and sources inside, outside and around 169.254.0.0/16, and up to three rules
behind a policy that are narrow, negated, in chains two deep or behind one that
drops or returns; environments with up to two variables given by anybody;
commands with up to two options of three names in both spellings, their values
with a slash or without; trees of five paths, links among them, under layers of
any two entries, or of three that bring, delete and bring again; every way to
be started as root with every environment of the home, a user whose group is
root's and one with a second group; one or two secrets of up to three characters
in two chunks, with a quote, a backslash and a newline; names around
255 bytes and labels around 63, two of them in a query, cut by up to 66 bytes;
and up to four lines for each adapter. Nothing in `Inputs` bounds them, and in
the proofs they are of any size. They are the smallest in which the boundary
cases meet: a secret that straddles a cut and begins inside another, a marker
after its sibling, an item completed without a start.

Deadlock checking is off throughout: processes end, and a supervisor can in fact
stop for good (a paused agent that has closed its pipes), as can a context that
is being left.

**Fairness.** `Session`: a process that opens, labels, closes, discards or
purges runs to its end unless it is killed; nothing is assumed of Runs, whose
agents may go on for ever. `Supervisor`: tokio runs its tasks, time passes, and
the client keeps reading bunsen-core's stdout; nothing is assumed of the agent.
`TakeCmd` is strongly fair because `select!` picks at random among the branches
that are ready, so an agent that writes without end cannot starve a command.
`RunHandle`: asyncio runs both coroutines, a body that iterates takes what is in
the queue, and the core obeys a kill, publishes and exits; nothing makes a body
leave its loop or an agent end. `SandboxSupervisor`: the guest's kernel schedules
PID 1, the forked child up to its `setsid`, and the threads; the host's start,
readers and loop go on; the timer's `send` is strongly fair because tokio's
channel serves those who wait for room in turn, so others cannot take each free
slot before it. Nothing is assumed of the agent, the client, the network, or
that anything fails. `SandboxRunEnds` then says that the Run ends, or that what
would have to end is out of reach: a descendant in a session of its own holds a
stream, something lives on after both streams were closed, or the kill came
between fork and `setsid`. `BranchPool` and `HostRuns` state no liveness: each
of their actors is a straight line of steps.

### What the violated runs say

* `pool_race`: validation and fetch are two processes; the loser of a race on
  one `output_branch` need not be told, against `session.rs:570`.
* `handle_exit`: a body that leaves while the queue is full waits for the drain,
  and the drain's `finally` waits for room in the queue.
* `sandbox_pi`: `debugfs rdump` puts what it copies under the base name of its
  path, and the narrow copy looks for the whole path. pi's has three components,
  so none of its sessions is kept, against `firecracker.rs:521`.

### Other divergences the models show

Between the code and its own words, or its evident intent; the models have the
code's side, and no run is spent on them.

Session and Pool:
* a stale copy makes a tombstone an open Session without a Pool: a label that
  attached before a discard finished (`session.rs:1117`) against "Terminal"
  (`session.rs:80`);
* a Run that attached before a purge recreates `sessions/<id>/runs/<run>/`
  (`session.rs:660`) against "no orphan Run dirs" (`run_dir.rs:7`);
* whether a Run produced commits is decided by comparing HEAD with the *local*
  base branch (`session.rs:970`): an agent that commits on the checked-out base
  moves both and gets no audit ref, against `docs/adr/0010:30`;
* a close killed in `closing` leaves a Session no verb can leave, which is why
  `ClosingResolves` and `RestingSessionUsable` name that exception;
* a discard or a purge that meets a Run of its Session at work gives up half-way
  and leaves it open or closed without a Pool (`session.rs:1074`-`1078`), which
  `RestingSessionUsable` names as its exception;
* the commit a host-path Run reports and the one its audit ref is on are two
  readings of HEAD (`session.rs:966`, `1002`), between which a process of the
  agent may commit; `AuditRefIsRunHead` names that process;
* a temporary ref that git does not delete stays in the Pool
  (`branch_pool.rs:277`), until a later close fetches over it and deletes it;
* a Run that returns early with `?` keeps its transient Workspace although
  `session.rs:1136` calls the removal unconditional;
* the names `host` and `runs` themselves pass `validate_output_branch`
  (`run_spec.rs:163`), although git then cannot have `host/<ref>` beside them;
  the harness's default `runs/<task id>` (`python/bunsen/harness/scheduler.py:60`)
  is a reserved name.

Supervision:
* after both ends of file the supervisor waits for the agent and looks at no
  command (`supervisor.rs:266`): neither `kill` nor the wall clock ends an agent
  that closed its pipes, against "regardless of state" (`supervisor.rs:237`);
* invalid UTF-8 ends a pipe for good although `adapter.rs:32` tests that it is
  decoded; a timeout taken after a kill replaces the kill's reason;
* a line over 64 KiB ends the iteration as if the Run had ended, and the error
  is raised when the context is left (`RunHandle` names it as `broken`); an
  extraction that fails after `run_ended` reaches the script as an empty summary.

Sandbox:
* two downloads share `vmlinux-<version>.tmp`, so the file that is renamed need
  not be the one whose hash was checked, against "a verified vmlinux"
  (`kernel.rs:3`); `KernelWholeUnlessRaced` names the exception, and the next
  process finds and drops the bad file;
* the guest reads `stop_grace_seconds` (`bunsen-init/src/init_linux.rs:71`) and
  the host writes `stop-grace-seconds` (`sandbox.rs:165`): the guest's grace is
  always its default;
* two Runs on one /30 are said to fail at `ip addr add` (`sandbox_net.rs:25`);
  the devices are two and nothing fails but the bind of port 53;
* the proxy's 403 precedes the denial (`egress_proxy.rs:251`), so an agent that
  was refused may be over before its denial is drained; `DnsDenialsShown` is
  about DNS for that reason, against `docs/adapter-contract.md:119`;
* a `/workspace` that cannot be mounted is only printed, and the agent runs on
  the root file system;
* the removal of a firewall rule, a table or a TAP may fail without a word
  (`privileged_net.rs:236`, `274`, `306`) and journalctl may be left running
  (`sandbox_run.rs:257`); `LeftoversExplained` counts them apart;
* the firewall check takes a rule as reaching a Run whatever its chain, port,
  interface or `!` (`firewall_check.rs:88`).

Algorithms:
* `--model=x` is not read from a pi command, though it is from an aider one, and
  `--provider vendor/x` declares nothing;
* a marker after its siblings in a layer deletes them (`oci_cache.rs:442`);
* SUDO_GID=0 keeps root's group (`target_user.rs:283`);
* codex's parser repeats the result of an item that is reported complete twice,
  against "exactly one" (`docs/adapter-contract.md:72`); that the turns of codex
  and pi pair up is left to the agents;
* an aider `Cost:` line that does not parse loses the pending tokens
  (`aider_adapter.rs:153`);
* a secret inside another secret is redacted differently as the stream is cut,
  and one that JSON escapes is not found in an event;
* the cap on a DNS name allows a name one byte longer on the wire than DNS does.

## 4. What is proved

All proofs are for arbitrary constants that satisfy the modules' assumptions:
any number of processes, Runs, closes, commits, lines, attempts and kills, any
capacities, any inputs. Every safety property of the runs is a theorem.

**`SessionProofs`, writers may overlap.** `Typing` is the type invariant.
`CommandsTellTheTruth` puts together `ClosedWasPushed`, `FailureRecorded` and
what a successful Run leaves. None is inductive, since any process may write
back any copy: the invariant says of *every* copy that could still reach the
disk (each `mem`, `tmp` and `meta`) that it is sound, of the steps between a
push and its record that they carry the right state, and of a Run which still
will report success that it is at a step before the removal, or has removed.

**The same module, writers do not overlap.** The inductive invariant
`ExclusiveInv` has seven parts: there is at most one writer (`OneWriter`), no
process precedes open (`OpenFirst`), a step belongs to its verb (`VerbOfStep`),
a temporary file is its writer's and complete when renamed (`TmpOwned`), a
writer's copy is what is on disk up to its own change (`CopyFresh`), the host
was written only in closing, closed or after a purge (`Published`), and
`meta.json` is whole (`MetaWhole`). From it follow `MetaStaysIntact`,
`HostUntouchedBeforeClose` and, step by step, `LifecycleImplemented`: each
action maps to a transition of `SessionLifecycle` or changes nothing there.
`TombstonesAreEmpty`, `LabelsAreDurable` and `RestingSessionsAreUsable` each add
an invariant of their own; the last (`RestInv`) says who is answerable for a
state that cannot be used: a close between its two writes for `closing`, a
discard or a purge for a missing Pool, and if none is at work, one was killed or
gave up half-way, which takes a Run of the Session (`Disturbed`).

**`BranchPoolProofs`.** All six properties of `pool`. The lemmas first say what
each kind of step changes (`RunMoves`, `CloseMoves`, `HostCommits`, `Fetches`),
and `Made` that nothing refers to a commit that was not made. `AuditInv` is that
a Run past validation writes no reserved name but its own audit ref, and that
what it fetched is what it reports or a commit that came after the report.
`LitterOwned` gives each temporary ref to a close that will try to delete it, or
to a deletion that git refused, and
`HostUntouched` leaves the host to its user until a close succeeds.
`IsolationInv` carries `PoolIsolated` to all a Run builds on; `EarlierInv` says
that what a Run saw exists and what it may write did not. `HistoryInv` shows
reachability transitive along the way, which is what makes a fast-forward keep
the commits of everybody. `JudgedInv` shows that a close pushes the commits it
judged: a name outside the reserved ones is there only after the Run that asked
for it has ended, so unless two Runs asked for one name it does not move
between the judgement and the push. `KeptAssumption` states of the given
manifests what filtering a sequence yields, which the provers cannot unfold;
TLC evaluates it in each run.

**`SupervisorProofs`.** All four safety properties of the run and the typing.
The module first says once which step changes which variables (the `...Frame`
lemmas), and how often an element is in a channel after a send and a receive
(`Count...`). `SupervisorTyping` needs that each reader that stopped sent
exactly one Done, which is in the channel or counted (`DoneInLine`), or
`done_count` could pass 2. `AllEventsThere` rests on `LineInv`: every line of a
pipe is in exactly one place (pipe, channel, the loop's hand, stdout), a reader
that ended left its pipe empty with nobody to write to it, and the last message
of the channel is a Done once both readers stopped, so that the second Done
leaves it empty. `ReasonIsTrue` follows each command back to what sent it
(`CmdsJustified`, `GraceAsked`); `KillOnItsWay`, `GroupShot` and
`TranscriptAgrees` are nearly inductive as they stand. One assumption carries
over from the model: only a living member of the process group adds to it, or
writes to the pipes it inherited.

**`RunHandleProofs`.** Typing and `LoopsAreComplete`. `OrderInv` is the order of
the pipe (events, `run_ended`, the summary), `HandInv` that of the queue
(nothing but the end marker follows `run_ended`), and `StreamInv` counts: while
the body iterates, what was printed is what was received, queued, in hand or in
the pipe, and a drain that ended left the queue in one of three shapes (it
raised, it put an error, or the core had exited and all was read). `OutcomeInv`
carries what held when the body left its loop.

**`HostRunsProofs`.** All six properties of `sandbox`. A Run's invariant
(`RunInv`: every resource on the host is held by a guard, or was to be removed
and could not, or is explained by how the Run ended) mentions that Run alone, so one lemma says that a step of another Run
keeps it (`UntouchedKeeps`) and the rest is about one Run. `ImageInv` is that an
image is placed when it is whole and that a process which is ready has a whole
or no image to find. `KernelInv` is about those who download: of two, both know
that they raced, and one that does not owns the file behind the temporary name.
That `O_CREAT` always finds a free inode is a count (`SpareInode`): two names
and one descriptor per process pin fewer inodes than there are.

**`SandboxSupervisorProofs`.** All four safety properties of `guest` and
`guest_net`, and the typing. `PolicyStands` needs that a spelling does not
matter (`AllowsListed`) and that an attempt's fate agrees with its judgement
(`TryInv`); `DnsDenialsArrive` adds that nobody hears of a refusal after the VM
has ended and that the channel is empty when the drain is over (`DrainInv`).
`AgentIsUnderControl` follows the order of the connections on both sides, with
the answer to CONNECT on its way (`ControlInv`). `AllLinesArrive` is the longest: each line is in one of pipe,
vsock, channel and what was shown (`LinesInv`), and each reader that stopped
accounts for one Done (`DoneInv`).

**`BytesProofs`, redaction.** That a stream cut in any pieces is redacted as if it came
whole, and that no secret comes out, for any finite set of secrets and texts of
any length; `InputsProofs` states it of the run's `SecretsRedacted`
(`SecretsStayIn`). `Whole(t, S, i)` is what the text `t` becomes from position
`i` on, and it exists because each turn of the loop goes further than the last.
First, what the loop puts out of a part of a text is the beginning of what it
puts out of the whole (`LoopFollows`, from `SameMatch`: a match in the part is
the whole's match there, if no secret lies within another). Then the number of
characters held back is enough: no match of the rest begins before them
(`RedactSplits`), so the pieces so far have put out `Whole` up to some place and
hold what arrived after it (`InStep`, kept by each piece: `RedactKeeps`). The
induction is by the least piece for which that fails, as the provers cannot
instantiate a rule of induction. That no secret comes out (`WholeClean`) goes
backwards from the end of the text by the greatest position for which it fails:
what `Whole` adds there is a character at which no secret begins, or a mark,
which is in no secret (`NotAcross`).

**The same module, questions.** What is read of a query, for any number of
questions, labels of any bytes but the dot that joins them to a name, and any
bytes after the questions (`QuestionsRoundTrip`; `QuestionsAreKept` states it of
the run's `QuestionsKept`). `PartsAt` says where each part is in a sequence put
together. From it, the labels of a name are read from any of them on
(`NameOnWire`, by the greatest place for which that fails), the length that is
checked is the length on the wire (`TotalLen`), and the questions are read one
after the other (`QueryOnWire`), all of them or none. What is read of the
beginning of some bytes is what is read of them all, and ends within it
(`ReadExtends`, `ParsedExtends`): a query cut short would end where the whole
one does, past its own end. Nothing of this needs what follows the questions,
so the refusal, which leaves that out, is read as the query was.

**`InputsProofs`.** The eight properties of `inputs`, for inputs of any size. Of the
parsers, `ParserInv` says in `Stands` what the counters, the open turn, the
pending usage and the calls made so far have to do with the events that are
out; one lemma per parser shows that a line keeps it, and `ContractFollows` that
it is enough. Of the layers, `LayerInv` is `ImagesFlattened` with what an
archive is: the proof is about what one more entry does to the overlay of those
before it, for what is brought (`OverlayAdd`) and for both markers
(`OverlayMarker`), by whether the marker comes after what its own layer brings,
and that a clash with the tree so far is one with the layer or the tree below. A
tree may have any names and any depth. `HostNet` is arithmetic on blocks, octets
and halves: no octet overflows, and a prefix covers all addresses of the Runs
exactly when the check finds it short enough and its network theirs
(`PrefixesCover`). A packet's walk through the chains is followed by its first
deciding rule (`Walked`, `VerdictGiven`): when it comes to no ACCEPT, each rule
that covers the Runs was not hit, not reached, or came after one that returned
(`FirewallSound`). `GuestSpec` takes the layers of the
environment apart, and finds the first option of a name in a command by the
place where it begins. `TargetUser` is by cases over who asks for whom. What
the theorems assume of their constants are the kinds of the inputs, that a
layer's tree is a tree, that a command is made of options (`LaidOut`), that
root has an account, and that a mark is part of no secret (`Apart`). A mark,
`<redacted:NAME>`, is one character of the model: a secret that holds one, or
that a piece of one and the text beside it would spell, is outside it.

**Only model-checked.** Liveness (`ClosingResolves`, `RunEnds`,
`LeavesUnlessFull`, `RunReturns`, `SandboxRunEnds`): TLAPS has no rules for
fairness and ENABLED here. No module declares a RECURSIVE operator: what the
recursive functions of `Redactor` and `DnsWire` compute is proved by the least
or greatest argument for which it fails.

## 5. What is not modelled

* **Python Session.** A wrapper that starts one process per verb. What it may do
  (overlap or not) is the constant `ExclusiveWriters` of `Session`.
* **Harness.** `run_dag` is a client: a topological walk with a semaphore in one
  coroutine each, on top of what `Session`, `BranchPool` and `RunHandle`
  promise; its rendering and bootstrap are I/O.
* **Privileged net's queue.** The actor is modelled by the effect of each
  command. One Run has one command outstanding, and each process has an actor of
  its own, so its queue of 64 does not fill; the ruleset's text is modelled by
  the ports it opens.
* **Firewall and packets.** That a loaded ruleset drops what it does not accept
  is the kernel's; `Egress` takes it as given.
* **Git.** Objects, transfer, the configuration that hardens it, and the legality
  of a branch name are git's; the change of uid before a fetch is not followed.
* **Run metadata.** `spec.json`, the Run's own `meta.json` and the host path's
  best-effort copy of the agent's history, which nothing reads back.
* **Start-up.** Argument dispatch, the smoke test and the checks before a Run
  change nothing; `resolv.conf` is read once.
* **HTTP and registries.** A download is an answer that is good, bad or an
  error; the layers that come of it are in `Layers`.
* **Wording and layout** of events, errors and listings.
* **A reboot of the host** between two commands, in which files written without
  `fsync` may come back shorter: a kill is modelled, a loss of power is not.
