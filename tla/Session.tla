------------------------------ MODULE Session ------------------------------
(***************************************************************************)
(* One Session directory, sessions/<id>, and the bunsen processes that act *)
(* on it (bunsen-core/src/session.rs, run_dir.rs, session_cli.rs).         *)
(*                                                                         *)
(* Every verb is a process of its own.  It attaches, which copies          *)
(* meta.json into memory, then checks and changes its COPY, and writes the *)
(* whole copy back through meta.json.tmp and rename(2).  No lock is taken, *)
(* so between the copy and the write other processes, or a crash, may      *)
(* intervene.  A step of this module is one file system effect.            *)
(***************************************************************************)
EXTENDS Naturals, FiniteSets

CONSTANTS Procs,            \* the processes that attach: one verb each
          Opener,           \* the process that runs `session open`
          ExclusiveWriters, \* TRUE: the caller never overlaps two of open,
                            \* label, close, discard, purge; Runs overlap freely
          Stragglers,       \* TRUE: an agent may leave a process behind that
                            \* still writes in the Workspace
          MaxCrashes        \* bound: how many processes may be killed

ASSUME SessionAssumption == /\ Opener \notin Procs
                            /\ ExclusiveWriters \in BOOLEAN
                            /\ Stragglers \in BOOLEAN
                            /\ MaxCrashes \in Nat

Actors == Procs \cup {Opener}

States == {"open", "closing", "closed", "failed_to_close", "discarded"}
Verbs  == {"run", "label", "close", "discard", "purge"}
Ended  == {"ok", "err", "half", "crashed"}  \* half: a removal failed on its way
Steps  == {"idle", "init_pool", "attached", "truncate", "fill", "rename",
           "push", "wipe_runs", "unlink", "materialize", "start", "agent",
           "teardown_ok", "teardown_err"} \cup Ended
Entries == {"meta", "tmp", "pool", "runs"}

\* The parts of SessionMeta that change after open: its state, the set of
\* labels (a label is named by the process that added it), and whether
\* last_close_failure holds a message.  A file that is missing, truncated or
\* not valid JSON is a value of its own.
Meta     == [state : States \cup {"absent", "empty", "torn"},
             labels : SUBSET Actors, failure : BOOLEAN]
Blank(s) == [state |-> s, labels |-> {}, failure |-> FALSE]

VARIABLES
  dir,      \* does sessions/<id> exist?
  pool,     \* does pool/HEAD exist?
  meta,     \* what meta.json holds
  tmp,      \* what meta.json.tmp holds
  runs,     \* the Run directories runs/<run-id>
  work,     \* the transient workspaces sessions/.workspace/<id>-<run-id>
  audit,    \* the Runs whose audit ref runs/<run-id> is in the Pool
  touched,  \* the closes whose push changed the host repo
  settled,  \* the closes whose push_manifest returned Ok
  pc,       \* where each process is
  verb,     \* the verb each process was started for
  mem,      \* each process's in-memory SessionMeta
  fd,       \* the path that names the file a process is about to fill
  todo,     \* what a purge has still to unlink
  crashes   \* how many processes were killed

disk  == <<dir, pool, meta, tmp, runs>>
ghost == <<touched, settled>>
proc  == <<pc, verb, mem, fd, todo>>
vars  == <<disk, work, audit, ghost, proc, crashes>>

Live(p)     == pc[p] \notin Ended \cup {"idle"}
Writer(p)   == verb[p] # "run"
MayStart(v) == \/ v = "run" \/ ~ExclusiveWriters
               \/ \A q \in Actors : Writer(q) => ~Live(q)

\* Descriptors follow their file: renamed onto meta.json, or unlinked.
FdAfterRename  == [p \in Actors |-> IF fd[p] = "tmp" THEN "meta" ELSE "none"]
FdAfterUnlink(e) == [p \in Actors |-> IF fd[p] = e THEN "none" ELSE fd[p]]

Goto(p, step) == pc' = [pc EXCEPT ![p] = step]
Return(p, outcome) == /\ pc'  = [pc EXCEPT ![p] = outcome]
                      /\ mem' = [mem EXCEPT ![p] = Blank("absent")]

Init == /\ dir = FALSE /\ pool = FALSE
        /\ meta = Blank("absent") /\ tmp = Blank("absent")
        /\ runs = {} /\ work = {} /\ audit = {} /\ touched = {} /\ settled = {}
        /\ pc   = [p \in Actors |-> "idle"]
        /\ verb = [p \in Actors |-> IF p = Opener THEN "open" ELSE "none"]
        /\ mem  = [p \in Actors |-> Blank("absent")]
        /\ fd   = [p \in Actors |-> "none"]
        /\ todo = [p \in Actors |-> {}]
        /\ crashes = 0

-----------------------------------------------------------------------------
(* open *)

\* Session::open_in: create_dir_all of the Session directory.
OpenDir == /\ pc[Opener] = "idle" /\ MayStart("open")
           /\ dir' = TRUE /\ Goto(Opener, "init_pool")
           /\ UNCHANGED <<pool, meta, tmp, runs, work, audit, ghost, verb, mem,
                          fd, todo, crashes>>

\* BranchPool::init and mirror_from_host; a git failure returns early and
\* leaves whatever was created.
OpenPool ==
  /\ pc[Opener] = "init_pool"
  /\ \/ /\ pool' = TRUE
        /\ mem' = [mem EXCEPT ![Opener] = Blank("open")]
        /\ Goto(Opener, "truncate")
     \/ pool' \in BOOLEAN /\ Return(Opener, "err")
  /\ UNCHANGED <<dir, meta, tmp, runs, work, audit, ghost, verb, fd, todo,
                 crashes>>

-----------------------------------------------------------------------------
(* attach: every other verb starts here *)

Attachable == meta.state \in States \ {"discarded"} /\ pool

\* Session::attach_in: read meta.json, refuse a tombstone, require pool/HEAD.
\* The id is known once open printed it.
Attach(p, v) ==
  /\ pc[p] = "idle" /\ p # Opener /\ pc[Opener] = "ok" /\ MayStart(v)
  /\ verb' = [verb EXCEPT ![p] = v]
  /\ IF Attachable
       THEN Goto(p, "attached") /\ mem' = [mem EXCEPT ![p] = meta]
       ELSE Return(p, "err")
  /\ UNCHANGED <<disk, work, audit, ghost, fd, todo, crashes>>

-----------------------------------------------------------------------------
(* write_meta_atomic: truncate or create the temporary file, fill it,      *)
(* rename it.  Two writers share the one temporary name.                   *)

\* Mutant: the bytes go straight to meta.json, without a temporary file.
TruncateInPlace(p) ==
  /\ pc[p] = "truncate" /\ meta' = Blank("empty")
  /\ fd' = [fd EXCEPT ![p] = "meta"] /\ Goto(p, "fill")
  /\ UNCHANGED <<dir, pool, tmp, runs, work, audit, ghost, verb, mem, todo, crashes>>

TruncateTmp(p) ==
  /\ pc[p] = "truncate"
  /\ IF dir THEN /\ tmp' = Blank("empty")
                 /\ fd' = [fd EXCEPT ![p] = "tmp"]
                 /\ Goto(p, "fill") /\ UNCHANGED mem
            ELSE Return(p, "err") /\ UNCHANGED <<tmp, fd>>
  /\ UNCHANGED <<dir, pool, meta, runs, work, audit, ghost, verb, todo, crashes>>

\* Both writers write from offset 0: over another writer's longer text the
\* end of that text remains.
Filled(p, old) == IF old.state = "empty" THEN {mem[p]} ELSE {mem[p], Blank("torn")}

FillTmp(p) ==
  /\ pc[p] = "fill" /\ Goto(p, "rename")
  /\ IF fd[p] = "tmp"  THEN tmp'  \in Filled(p, tmp)  ELSE UNCHANGED tmp
  /\ IF fd[p] = "meta" THEN meta' \in Filled(p, meta) ELSE UNCHANGED meta
  /\ fd' = [fd EXCEPT ![p] = "none"]
  /\ UNCHANGED <<dir, pool, runs, work, audit, ghost, verb, mem, todo, crashes>>

\* Mutant: close returns once "closing" is on disk.
AfterWriteNoPush(p) == Return(p, "ok")

\* What the caller of write_meta_atomic does next.
AfterWrite(p) ==
  IF verb[p] = "close" /\ mem[p].state = "closing"
    THEN Goto(p, "push") /\ UNCHANGED mem
    ELSE Return(p, IF verb[p] = "close" /\ mem[p].state = "failed_to_close"
                     THEN "err" ELSE "ok")

RenameTmp(p) ==
  /\ pc[p] = "rename"
  /\ IF tmp.state = "absent"
       THEN Return(p, "err") /\ UNCHANGED <<meta, tmp, fd>>
       ELSE /\ meta' = tmp /\ tmp' = Blank("absent") /\ fd' = FdAfterRename
            /\ AfterWrite(p)
  /\ UNCHANGED <<dir, pool, runs, work, audit, ghost, verb, todo, crashes>>

-----------------------------------------------------------------------------
(* label, close, discard, purge *)

LabelAdd(p) ==
  /\ pc[p] = "attached" /\ verb[p] = "label"
  /\ mem' = [mem EXCEPT ![p].labels = @ \cup {p}] /\ Goto(p, "truncate")
  /\ UNCHANGED <<disk, work, audit, ghost, verb, fd, todo, crashes>>

\* Mutants: close rebuilds the metadata instead of changing it; keeps the old
\* failure message; writes the outcome before the push.
CloseStartAs(p, m) ==
  /\ pc[p] = "attached" /\ verb[p] = "close"
  /\ IF mem[p].state \in {"open", "failed_to_close"}
       THEN mem' = [mem EXCEPT ![p] = m] /\ Goto(p, "truncate")
       ELSE Return(p, "err")
  /\ UNCHANGED <<disk, work, audit, ghost, verb, fd, todo, crashes>>
CloseStartDropsLabels(p) == CloseStartAs(p, Blank("closing"))
CloseStartClosed(p) ==
  CloseStartAs(p, [mem[p] EXCEPT !.state = "closed", !.failure = FALSE])

\* Session::close up to its first write: close_start refuses every state but
\* open and failed_to_close; the old failure message is cleared.
CloseStart(p) ==
  /\ pc[p] = "attached" /\ verb[p] = "close"
  /\ IF mem[p].state \in {"open", "failed_to_close"}
       THEN /\ mem' = [mem EXCEPT ![p].state = "closing", ![p].failure = FALSE]
            /\ Goto(p, "truncate")
       ELSE Return(p, "err")
  /\ UNCHANGED <<disk, work, audit, ghost, verb, fd, todo, crashes>>

\* Mutants: a push that is not atomic fails half way; a failed push returns
\* with `?` before the failure is written.
PushHalf(p) ==
  /\ pc[p] = "push" /\ Goto(p, "truncate") /\ pool
  /\ touched' = touched \cup {p} /\ UNCHANGED settled
  /\ mem' = [mem EXCEPT ![p].state = "failed_to_close", ![p].failure = TRUE]
  /\ UNCHANGED <<disk, work, audit, verb, fd, todo, crashes>>
PushReturnsEarly(p) ==
  /\ pc[p] = "push" /\ Return(p, "err")
  /\ UNCHANGED <<disk, work, audit, ghost, verb, fd, todo, crashes>>

\* push_manifest as one step (BranchPool.tla takes it apart).  A manifest of
\* audit refs alone is filtered down to nothing and succeeds without a push.
Push(p) ==
  /\ pc[p] = "push" /\ Goto(p, "truncate")
  /\ \/ /\ pool /\ touched' = touched \cup {p} /\ settled' = settled \cup {p}
        /\ mem' = [mem EXCEPT ![p].state = "closed"]
     \/ /\ settled' = settled \cup {p} /\ UNCHANGED touched
        /\ mem' = [mem EXCEPT ![p].state = "closed"]
     \/ /\ mem' = [mem EXCEPT ![p].state = "failed_to_close", ![p].failure = TRUE]
        /\ UNCHANGED ghost
  /\ UNCHANGED <<disk, work, audit, verb, fd, todo, crashes>>

\* Mutant: discard leaves the Pool.
DiscardKeepsPool(p) ==
  /\ pc[p] = "attached" /\ verb[p] = "discard"
  /\ mem[p].state \in {"open", "failed_to_close"} /\ Goto(p, "wipe_runs")
  /\ UNCHANGED <<disk, work, audit, ghost, verb, mem, fd, todo, crashes>>

\* remove_dir_all fails, with part of the tree gone, when something is created
\* in a directory it has already listed: by a Run (or a close) that fetches
\* into the Pool, by a Run that makes files below runs/.
Disturbed(e) ==
  \E q \in Procs : \/ e = "pool" /\ pc[q] \in {"agent", "push"}
                   \/ e = "runs" /\ verb[q] = "run" /\ Live(q)
PartOfPool == pool' \in {pool, FALSE} /\ audit' \in SUBSET audit

\* Session::discard: SessionState::discard, then BranchPool::wipe ...
DiscardPool(p) ==
  /\ pc[p] = "attached" /\ verb[p] = "discard"
  /\ IF mem[p].state \in {"open", "failed_to_close"}
       THEN \/ /\ pool' = FALSE /\ audit' = {}
               /\ Goto(p, "wipe_runs") /\ UNCHANGED mem
            \/ Disturbed("pool") /\ PartOfPool /\ Return(p, "half")
       ELSE Return(p, "err") /\ UNCHANGED <<pool, audit>>
  /\ UNCHANGED <<dir, meta, tmp, runs, work, ghost, verb, fd, todo, crashes>>

\* ... then the runs directory, then the tombstone is written; either removal
\* returns its error with `?`, and nothing is put back.
DiscardRuns(p) ==
  /\ pc[p] = "wipe_runs"
  /\ \/ /\ runs' = {} /\ Goto(p, "truncate")
        /\ mem' = [mem EXCEPT ![p].state = "discarded"]
     \/ Disturbed("runs") /\ runs' \in SUBSET runs /\ Return(p, "half")
  /\ UNCHANGED <<dir, pool, meta, tmp, work, audit, ghost, verb, fd, todo, crashes>>

Present == {e \in Entries : \/ e = "meta" /\ meta.state # "absent"
                            \/ e = "tmp"  /\ tmp.state # "absent"
                            \/ e = "pool" /\ pool
                            \/ e = "runs" /\ runs # {}}

\* Session::purge: only from closed, then remove_dir_all, which lists the
\* directory and unlinks what it listed, in an order of its own ...
PurgeStart(p) ==
  /\ pc[p] = "attached" /\ verb[p] = "purge"
  /\ IF mem[p].state = "closed"
       THEN /\ todo' = [todo EXCEPT ![p] = Present]
            /\ Goto(p, "unlink") /\ UNCHANGED mem
       ELSE Return(p, "err") /\ UNCHANGED todo
  /\ UNCHANGED <<disk, work, audit, ghost, verb, fd, crashes>>

PurgeUnlink(p, e) ==
  /\ pc[p] = "unlink" /\ e \in todo[p]
  /\ todo' = [todo EXCEPT ![p] = @ \ {e}]
  /\ meta' = IF e = "meta" THEN Blank("absent") ELSE meta
  /\ tmp'  = IF e = "tmp"  THEN Blank("absent") ELSE tmp
  /\ pool' = IF e = "pool" THEN FALSE ELSE pool
  /\ audit' = IF e = "pool" THEN {} ELSE audit
  /\ runs' = IF e = "runs" THEN {} ELSE runs
  /\ fd'   = FdAfterUnlink(e)
  /\ UNCHANGED <<dir, work, ghost, pc, verb, mem, crashes>>

\* ... where a directory that something is created in stops it half-way ...
PurgeStops(p, e) ==
  /\ pc[p] = "unlink" /\ e \in todo[p] /\ Disturbed(e)
  /\ IF e = "pool" THEN PartOfPool /\ UNCHANGED runs
                   ELSE runs' \in SUBSET runs /\ UNCHANGED <<pool, audit>>
  /\ todo' = [todo EXCEPT ![p] = {}] /\ Return(p, "half")
  /\ UNCHANGED <<dir, meta, tmp, work, ghost, verb, fd, crashes>>

\* ... and last the directory itself, which fails if something was added.
PurgeDir(p) ==
  /\ pc[p] = "unlink" /\ todo[p] = {}
  /\ IF Present = {} THEN dir' = FALSE /\ Return(p, "ok")
                     ELSE Return(p, "err") /\ UNCHANGED dir
  /\ UNCHANGED <<pool, meta, tmp, runs, work, audit, ghost, verb, fd, todo, crashes>>

-----------------------------------------------------------------------------
(* run: Session::run_with_backend on the host-subprocess path *)

\* accept_new_run looks at the copy made at attach; RunDir::create makes
\* sessions/<id>/runs/<run-id> and every directory above it.
RunAccept(p) ==
  /\ pc[p] = "attached" /\ verb[p] = "run"
  /\ IF mem[p].state \in {"open", "failed_to_close"}
       THEN /\ runs' = runs \cup {p} /\ dir' = TRUE
            /\ Goto(p, "materialize") /\ UNCHANGED mem
       ELSE Return(p, "err") /\ UNCHANGED <<runs, dir>>
  /\ UNCHANGED <<pool, meta, tmp, work, audit, ghost, verb, fd, todo, crashes>>

\* workspace_materializer::materialize: no Workspace for BranchingStrategy
\* None; a clone; a clone whose import or checkout fails and is left behind;
\* or a missing ref or Pool, before anything is made.
RunMaterialize(p) ==
  /\ pc[p] = "materialize"
  /\ \/ Goto(p, "start") /\ UNCHANGED <<work, mem>>
     \/ pool /\ work' = work \cup {p} /\ Goto(p, "start") /\ UNCHANGED mem
     \/ pool /\ work' = work \cup {p} /\ Return(p, "err")
     \/ Return(p, "err") /\ UNCHANGED work
  /\ UNCHANGED <<disk, audit, ghost, verb, fd, todo, crashes>>

\* Redactor::new, Encoder::new and the run_started event.  The transcript
\* cannot be created once the Run directory is gone; the early returns leave
\* the Workspace.
RunStart(p) ==
  /\ pc[p] = "start"
  /\ \/ p \in runs /\ Goto(p, "agent") /\ UNCHANGED mem
     \/ Return(p, "err")
  /\ UNCHANGED <<disk, work, audit, ghost, verb, fd, todo, crashes>>

\* The agent ends and extract_run_output runs, also when the supervisor
\* failed: no commits, an audit ref fetched into the Pool, or an error.
RunExtract(p) ==
  /\ pc[p] = "agent"
  /\ \/ audit' = audit /\ Goto(p, "teardown_ok")
     \/ pool /\ p \in work /\ audit' = audit \cup {p} /\ Goto(p, "teardown_ok")
     \/ pool /\ p \in work /\ audit' = audit \cup {p} /\ Goto(p, "teardown_err")
     \/ audit' = audit /\ Goto(p, "teardown_err")
  /\ UNCHANGED <<disk, work, ghost, verb, mem, fd, todo, crashes>>

\* The Workspace is removed whatever the outcome was, and the removal's own
\* error is ignored.  It fails when something is created in a directory that
\* was just emptied: nobody waits for, or kills, what the agent left running.
RunTeardown(p) ==
  /\ pc[p] \in {"teardown_ok", "teardown_err"}
  /\ work' = work \ {p} \/ (Stragglers /\ work' = work)
  /\ Return(p, IF pc[p] = "teardown_ok" THEN "ok" ELSE "err")
  /\ UNCHANGED <<disk, audit, ghost, verb, fd, todo, crashes>>

-----------------------------------------------------------------------------
\* The process is killed, or a file system call of its own fails and `?`
\* returns: its memory and descriptors are gone, the disk stays.
Crash(p) ==
  /\ Live(p) /\ crashes < MaxCrashes
  /\ crashes' = crashes + 1
  /\ Return(p, "crashed")
  /\ fd'   = [fd EXCEPT ![p] = "none"]
  /\ todo' = [todo EXCEPT ![p] = {}]
  /\ UNCHANGED <<disk, work, audit, ghost, verb>>

WriteStep(p) == TruncateTmp(p) \/ FillTmp(p) \/ RenameTmp(p)
PurgeStep(p) == \/ PurgeStart(p) \/ PurgeDir(p)
                \/ \E e \in Entries : PurgeUnlink(p, e) \/ PurgeStops(p, e)
RunStep(p)   == RunAccept(p) \/ RunMaterialize(p) \/ RunStart(p)
                \/ RunExtract(p) \/ RunTeardown(p)
VerbStep(p)  == \/ WriteStep(p) \/ LabelAdd(p) \/ CloseStart(p) \/ Push(p)
                \/ DiscardPool(p) \/ DiscardRuns(p) \/ PurgeStep(p) \/ RunStep(p)

Next == \/ OpenDir \/ OpenPool \/ WriteStep(Opener)
        \/ \E p \in Procs : VerbStep(p) \/ \E v \in Verbs : Attach(p, v)
        \/ \E p \in Actors : Crash(p)

Spec == Init /\ [][Next]_vars

\* A process that opens, labels, closes, discards or purges runs to its end
\* unless it is killed.  Nothing is assumed of Runs: an agent may never end.
Fairness == /\ WF_vars(OpenPool \/ WriteStep(Opener))
            /\ \A p \in Procs : WF_vars(Writer(p) /\ VerbStep(p))

FairSpec == Spec /\ Fairness

-----------------------------------------------------------------------------
(* Properties *)

TypeOK ==
  /\ dir \in BOOLEAN /\ pool \in BOOLEAN
  /\ meta \in Meta /\ tmp \in Meta
  /\ runs \subseteq Procs /\ work \subseteq Procs /\ audit \subseteq Procs
  /\ touched \subseteq Procs /\ settled \subseteq Procs
  /\ pc \in [Actors -> Steps]
  /\ verb \in [Actors -> Verbs \cup {"open", "none"}]
  /\ mem \in [Actors -> Meta]
  /\ fd \in [Actors -> {"none", "tmp", "meta"}]
  /\ todo \in [Actors -> SUBSET Entries]
  /\ crashes \in 0 .. MaxCrashes

\* A closed Session was closed by a push_manifest that returned Ok: no order
\* of verbs, stale copies or kills writes "closed" for a push that did not
\* happen (Session::close writes the outcome only after the push).
ClosedWasPushed == meta.state = "closed" => settled # {}

\* last_close_failure is set exactly in failed_to_close, as its accessor
\* documents (session.rs: "None otherwise"), for every Session that attach
\* serves: a retried close clears it, whoever wrote the file in between.
FailureRecorded ==
  meta.state \in States \ {"discarded"} =>
    (meta.failure <=> meta.state = "failed_to_close")

\* A Run that reports success has removed its transient Workspace, unless its
\* agent left a process behind that still wrote there.
SuccessLeavesNoWorkspace == ~Stragglers => \A p \in work : pc[p] # "ok"

\* What a command said, or wrote of its outcome, is so, whatever overlaps.
OutcomesTrue == ClosedWasPushed /\ FailureRecorded /\ SuccessLeavesNoWorkspace

-----------------------------------------------------------------------------
(* Properties of a caller that never overlaps two writers *)

\* write_meta_atomic: whatever is killed, a later attach finds no half-written
\* meta.json.
MetaIntact == meta.state \notin {"empty", "torn"}

Phase == IF meta.state # "absent" THEN meta.state
         ELSE IF pc[Opener] = "ok" THEN "gone" ELSE "unborn"

Lifecycle == INSTANCE SessionLifecycle
               WITH phase <- Phase, published <- touched # {}

\* The processes and files implement the promised state machine: Runs that
\* overlap everything, and kills between any two steps, add no transition to
\* it, and the host repo is written in "closing" alone.
ImplementsLifecycle == Lifecycle!LSpec

\* A label whose command succeeded is in every later meta.json.
LabelDurable ==
  \A p \in Procs : (verb[p] = "label" /\ pc[p] = "ok" /\ meta.state \in States)
                     => p \in meta.labels

\* Once the tombstone can be read, the Pool and its refs are gone, and no Run
\* that was still at work brings them back.
TombstoneHasNoPool == meta.state = "discarded" => ~pool /\ audit = {}

\* When no writer is at work, and none was killed at its work, the Session is
\* at rest in a state that can be used: not closing, and with its Pool unless
\* it is a tombstone, or a discard or a purge gave up half-way because a Run
\* of this Session was at work: only then does a Session that reads as open,
\* failed or closed have no Pool (session.rs:1074-1078 return with `?`).
AtRest == \A p \in Actors : Writer(p) => ~Live(p) /\ pc[p] # "crashed"
LostToARun == \E p, q \in Procs : pc[p] = "half" /\ verb[q] = "run"
RestingSessionUsable ==
  AtRest => /\ meta.state # "closing"
            /\ meta.state \in States \ {"discarded"} => pool \/ LostToARun

\* Closing is transient: it is left again unless the closing process is
\* killed (a Session then stays in "closing", which no verb leaves).
CloserKilled    == \E p \in Procs : verb[p] = "close" /\ pc[p] = "crashed"
ClosingResolves == (meta.state = "closing") ~> (meta.state # "closing" \/ CloserKilled)
=============================================================================
