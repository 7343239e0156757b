----------------------------- MODULE BranchPool -----------------------------
(***************************************************************************)
(* The Branch Pool of one Session, the Runs that clone from it and fetch   *)
(* their commits back, the closes that push from it, and the host repo     *)
(* (bunsen-core/src/branch_pool.rs, workspace_materializer.rs,             *)
(* sandbox_fetch.rs, and extract_run_output of session.rs).                *)
(*                                                                         *)
(* A commit is a number, and past[c] is the set of commits reachable from  *)
(* c.  Git itself is external: what fetch and push do to refs is modelled  *)
(* from the commands the source runs.                                      *)
(***************************************************************************)
EXTENDS Naturals, FiniteSets, Sequences

CONSTANTS
  Mirrored,       \* host branches mirrored at open, which the host has
  Fresh,          \* host branches that do not exist yet
  Users,          \* short names free for output_branch
  Runs, Closers,  \* the Runs, and the close attempts, of the Session
  Sandboxed,      \* the Runs in a sandbox; the others are host subprocesses
  NoOutput,       \* the output_branch of a Run that asks for none
  Outputs,        \* what output_branch may be: pool names or NoOutput
  Bases, Imports, \* what a Run may clone: a base name, a set of other names
  Manifests,      \* the manifests a close may be given
  MaxCommit       \* bound on the number of commits

HostRefs == Mirrored \cup Fresh

\* A pool branch is host/<ref>, runs/<run-id> or a user name.
Name == ({"host"} \X Mirrored) \cup ({"runs"} \X Runs) \cup ({"user"} \X Users)
Audit(r) == <<"runs", r>>
Reserved(n) == n[1] \in {"host", "runs"}

Commit == 1 .. MaxCommit
NoCommit == 0
Entry == [from : Name, to : HostRefs, force : BOOLEAN]

ASSUME BranchPoolAssumption ==
  /\ MaxCommit \in Nat \ {0} /\ Sandboxed \subseteq Runs
  /\ Bases \subseteq Name /\ Imports \subseteq SUBSET Name
  /\ Outputs \subseteq Name \cup {NoOutput} /\ NoOutput \notin Name
  /\ Manifests \subseteq Seq(Entry)
  /\ Mirrored \cap Fresh = {}

RunSteps   == {"idle", "agent", "compare", "validate", "fetch", "update", "ok", "err"}
CloseSteps == {"idle", "resolve", "check", "cleanup_ok", "cleanup_err", "push",
               "ok", "err"}

VARIABLES
  count,  \* how many commits exist
  past,   \* past[c]: the commits reachable from c
  pool,   \* the Pool's branches
  temp,   \* the Pool's refs/bunsen-validate/<i>
  stuck,   \* the i of those whose deletion failed
  host,   \* the host repo's branches
  mine,   \* the commits the host's own user put on each branch
  run,    \* per Run: step, choices, and its Workspace repository
  close   \* per close: step, manifest, and what it has resolved

vars == <<count, past, pool, temp, stuck, host, mine, run, close>>

IsAncestor(a, c) == a \in past[c]
Exists(n) == pool[n] # NoCommit

\* The manifest without audit refs, which are never pushed.
IsKept(e) == e.from[1] # "runs"
Kept(m)   == SelectSeq(m, IsKept)
Indices   == 1 .. 2

\* What filtering a sequence leaves, of the manifests there are.
ASSUME KeptAssumption == \A m \in Manifests : Kept(m) \in Seq({e \in Entry : IsKept(e)})

IdleRun == [pc |-> "idle", out |-> NoOutput, base |-> NoCommit,
            head |-> NoCommit, told |-> NoCommit, tip |-> NoCommit,
            made |-> {}, late |-> {}, have |-> {}, saw |-> {},
            old |-> NoCommit, sha |-> NoCommit]
IdleClose == [pc |-> "idle", manifest |-> << >>, seen |-> << >>, temps |-> {}]

\* The Pool right after Session::open: commit 1 mirrored under host/<ref>.
Init ==
  /\ count = 1 /\ past = [c \in Commit |-> IF c = 1 THEN {1} ELSE {}]
  /\ pool  = [n \in Name |-> IF n[1] = "host" THEN 1 ELSE NoCommit]
  /\ temp  = [i \in Indices |-> NoCommit] /\ stuck = {}
  /\ host  = [b \in HostRefs |-> IF b \in Mirrored THEN 1 ELSE NoCommit]
  /\ mine  = [b \in HostRefs |-> IF b \in Mirrored THEN {1} ELSE {}]
  /\ run   = [r \in Runs |-> IdleRun]
  /\ close = [k \in Closers |-> IdleClose]

\* A new commit on top of the given parents.
NewCommit(parents) ==
  /\ count < MaxCommit /\ count' = count + 1
  /\ past' = [past EXCEPT ![count + 1] =
                {count + 1} \cup UNION {past[q] : q \in parents}]

\* The host's user commits on a branch of their own repo, at any time.
HostCommit(b) ==
  /\ host[b] # NoCommit /\ NewCommit({host[b]})
  /\ host' = [host EXCEPT ![b] = count']
  /\ mine' = [mine EXCEPT ![b] = @ \cup {count'}]
  /\ UNCHANGED <<pool, temp, stuck, run, close>>

-----------------------------------------------------------------------------
(* Runs *)

StepRun(r, step) == run' = [run EXCEPT ![r].pc = step]

\* The Run returns, with the commit it reports; its Workspace is removed.
EndRun(r, outcome, sha) ==
  run' = [run EXCEPT ![r] = [IdleRun EXCEPT !.pc = outcome, !.sha = sha,
                                            !.out = run[r].out, !.made = run[r].made,
                                            !.late = run[r].late]]

\* workspace_materializer::pool_clone: every named ref must exist; the clone has
\* the base and the imports as local branches.  An import may not be the base,
\* which is checked out, and `checkout -b` needs a new name.  (saw is history:
\* the branches the Pool had when the Run began.)
Materialize(r, base, import, out) ==
  /\ run[r].pc = "idle"
  /\ run' = [run EXCEPT ![r] =
       IF (\A n \in {base} \cup import : Exists(n) /\ n # out) /\ base \notin import
         THEN [IdleRun EXCEPT !.pc = "agent", !.out = out,
                              !.base = pool[base], !.head = pool[base],
                              !.have = {pool[n] : n \in import},
                              !.saw  = {n \in Name : Exists(n)}]
         ELSE [IdleRun EXCEPT !.pc = "err", !.out = out]]
  /\ UNCHANGED <<count, past, pool, temp, stuck, host, mine, close>>

\* The agent commits.  A process it left behind on the host goes on committing
\* until the Workspace is removed, also after HEAD was read (the commits in
\* late); a sandbox's processes are gone by then.
MayCommit(r) == \/ run[r].pc = "agent"
                \/ run[r].pc \in {"compare", "validate", "fetch", "update"} /\ r \notin Sandboxed
Late(r) == IF run[r].pc = "agent" THEN {} ELSE {count'}

\* A commit on the working branch, perhaps merging an import.
AgentCommit(r, with) ==
  /\ MayCommit(r) /\ NewCommit({run[r].head} \cup with)
  /\ run' = [run EXCEPT ![r].head = count', ![r].made = @ \cup {count'},
                        ![r].late = @ \cup Late(r)]
  /\ UNCHANGED <<pool, temp, stuck, host, mine, close>>

\* A commit on the base branch, which the clone also has.
AgentCommitOnBase(r) ==
  /\ MayCommit(r) /\ NewCommit({run[r].base})
  /\ run' = [run EXCEPT ![r].head = count', ![r].base = count',
                        ![r].made = @ \cup {count'}, ![r].late = @ \cup Late(r)]
  /\ UNCHANGED <<pool, temp, stuck, host, mine, close>>

\* extract_run_output reads HEAD, which is what the Run will report.  The sandbox
\* path (sandbox_run.rs) does not: it validates once more before it unpacks the
\* image, which the second validation repeats, and reports what it fetched.
Extract(r) ==
  /\ run[r].pc = "agent"
  /\ IF r \in Sandboxed THEN StepRun(r, "validate")
     ELSE run' = [run EXCEPT ![r].pc = "compare", ![r].told = run[r].head]
  /\ UNCHANGED <<count, past, pool, temp, stuck, host, mine, close>>

\* It then reads the Workspace's base branch.  HEAD equal to it, or a base that
\* cannot be resolved any more, counts as "no commits": no ref is written.
Compare(r) ==
  /\ run[r].pc = "compare"
  /\ \/ run[r].told # run[r].base /\ StepRun(r, "validate")
     \/ EndRun(r, "ok", NoCommit)
  /\ UNCHANGED <<count, past, pool, temp, stuck, host, mine, close>>

\* Mutants: a name in host/* or runs/* is allowed; an existing one is allowed.
TargetsUnreserved(r) == /\ run[r].out # NoOutput => ~Exists(run[r].out)
                        /\ ~Exists(Audit(r))
TargetsMayExist(r) == (run[r].out # NoOutput => ~Reserved(run[r].out))
                      /\ ~Exists(Audit(r))

\* validate_run_output_targets: the name is not reserved, neither branch exists.
ValidTargets(r) ==
  /\ run[r].out # NoOutput => ~Reserved(run[r].out) /\ ~Exists(run[r].out)
  /\ ~Exists(Audit(r))

ValidateTargets(r) ==
  /\ run[r].pc = "validate"
  /\ IF ValidTargets(r) THEN StepRun(r, "fetch") ELSE EndRun(r, "err", NoCommit)
  /\ UNCHANGED <<count, past, pool, temp, stuck, host, mine, close>>

\* git fetch HEAD:refs/heads/runs/<id> [HEAD:refs/heads/<output_branch>]: it asks
\* the Workspace for its HEAD of now, reads the refs it will update, transfers the
\* objects, then updates.
FetchStart(r) ==
  /\ run[r].pc = "fetch"
  /\ run' = [run EXCEPT ![r].pc = "update", ![r].tip = run[r].head,
               ![r].old = IF run[r].out = NoOutput THEN NoCommit ELSE pool[run[r].out]]
  /\ UNCHANGED <<count, past, pool, temp, stuck, host, mine, close>>

\* A ref that was absent at the start is written whatever it is now; one that
\* existed is only fast-forwarded, and only from the value that was read.  A
\* refused output branch makes git exit non-zero, and the audit ref stays.  The
\* fetch may also fail before it writes.
OutputAccepted(r) ==
  run[r].out # NoOutput /\ run[r].old # NoCommit
    => pool[run[r].out] = run[r].old /\ IsAncestor(run[r].old, run[r].tip)

\* The commit a Run reports: the HEAD it read, or the Pool's audit ref.
Reported(r) == IF r \in Sandboxed THEN run[r].tip ELSE run[r].told

FetchUpdate(r) ==
  /\ run[r].pc = "update"
  /\ LET tip     == run[r].tip
         audited == [pool EXCEPT ![Audit(r)] = tip]
         written == IF run[r].out = NoOutput THEN audited
                    ELSE [audited EXCEPT ![run[r].out] = tip]
     IN \/ OutputAccepted(r) /\ pool' = written /\ EndRun(r, "ok", Reported(r))
        \/ ~OutputAccepted(r) /\ pool' = audited /\ EndRun(r, "err", NoCommit)
        \/ UNCHANGED pool /\ EndRun(r, "err", NoCommit)
  /\ UNCHANGED <<count, past, temp, stuck, host, mine, close>>

-----------------------------------------------------------------------------
(* Closes: BranchPool::push_manifest *)

StepClose(k, step) == close' = [close EXCEPT ![k].pc = step]
EndClose(k, outcome) == close' = [close EXCEPT ![k].pc = outcome, ![k].seen = << >>,
                                             ![k].temps = {}]

CloseBegin(k, m) ==
  /\ close[k].pc = "idle"
  /\ close' = [close EXCEPT ![k].pc = "resolve", ![k].manifest = Kept(m)]
  /\ UNCHANGED <<count, past, pool, temp, stuck, host, mine, run>>

\* Mutant: the host's tip is fetched over the mirrored branch.
ResolveIntoMirror(k) ==
  LET e == close[k].manifest[Len(close[k].seen) + 1] IN
  /\ close[k].pc = "resolve" /\ Len(close[k].seen) < Len(close[k].manifest)
  /\ Exists(e.from) /\ e.to \in Mirrored
  /\ pool' = [pool EXCEPT ![<<"host", e.to>>] = host[e.to]]
  /\ close' = [close EXCEPT ![k].seen =
                  Append(@, [pool |-> pool[e.from], host |-> host[e.to]])]
  /\ UNCHANGED <<count, past, temp, stuck, host, mine, run>>

\* Mutant: the mirror of the destination is resolved, not the source of the pair.
ResolveDestination(k) ==
  LET e == close[k].manifest[Len(close[k].seen) + 1]
      n == <<"host", e.to>>
  IN
  /\ close[k].pc = "resolve" /\ Len(close[k].seen) < Len(close[k].manifest)
  /\ e.to \in Mirrored /\ Exists(e.from)
  /\ close' = [close EXCEPT ![k].seen =
                  Append(@, [pool |-> pool[n], host |-> host[e.to]])]
  /\ UNCHANGED <<count, past, pool, temp, stuck, host, mine, run>>

\* One turn of validate_manifest's first loop: resolve the pool ref, ask the
\* host for its tip, and fetch a tip that exists into refs/bunsen-validate/<i>
\* (no `+`: an existing temporary ref is only fast-forwarded).  Any of the git
\* commands may fail.  A commit of the host's user between the two questions
\* only puts a descendant of the tip that is judged in the temporary ref.
Resolve(k) ==
  LET i    == Len(close[k].seen) + 1
      e    == close[k].manifest[i]
      tip  == host[e.to]
      fits == temp[i] = NoCommit \/ IsAncestor(temp[i], tip)
  IN
  /\ close[k].pc = "resolve" /\ i <= Len(close[k].manifest)
  /\ \/ StepClose(k, "cleanup_err") /\ UNCHANGED temp
     \/ /\ Exists(e.from) /\ (tip # NoCommit => fits)
        /\ temp' = IF tip = NoCommit THEN temp ELSE [temp EXCEPT ![i] = tip]
        /\ close' = [close EXCEPT
             ![k].seen  = Append(@, [pool |-> pool[e.from], host |-> tip]),
             ![k].temps = IF tip = NoCommit THEN @ ELSE @ \cup {i}]
  /\ UNCHANGED <<count, past, pool, stuck, host, mine, run>>

\* Would pushing the i-th pair, as it was resolved, lose history on the host?
LosesHistory(k, i) ==
  /\ ~close[k].manifest[i].force
  /\ close[k].seen[i].host # NoCommit
  /\ ~IsAncestor(close[k].seen[i].host, close[k].seen[i].pool)

\* The second loop: all pairs are judged before any is pushed.
Judge(k) ==
  /\ close[k].pc = "resolve" /\ Len(close[k].seen) = Len(close[k].manifest)
  /\ StepClose(k, IF \E i \in DOMAIN close[k].manifest : LosesHistory(k, i)
                    THEN "cleanup_err" ELSE "cleanup_ok")
  /\ UNCHANGED <<count, past, pool, temp, stuck, host, mine, run>>

\* The temporary refs are deleted whatever the judgement was, and the error of a
\* deletion (a ref that is locked) is dropped; an empty manifest then returns Ok
\* without a push.
Cleanup(k) ==
  /\ close[k].pc \in {"cleanup_ok", "cleanup_err"}
  /\ \E failed \in SUBSET (close[k].temps \cap Indices) :
       /\ temp' = [i \in Indices |-> IF i \in close[k].temps \ failed THEN NoCommit
                                      ELSE temp[i]]
       /\ stuck' = (stuck \ close[k].temps) \cup failed
  /\ IF close[k].pc = "cleanup_err" THEN EndClose(k, "err")
     ELSE IF close[k].manifest = << >> THEN EndClose(k, "ok") ELSE StepClose(k, "push")
  /\ UNCHANGED <<count, past, pool, host, mine, run>>

\* Mutant: every pair is pushed with `+`, since all were judged before.
RefusedNever(e) == ~Exists(e.from)

\* Pushing pair e now would be refused by git: the source is gone, or the
\* host's tip is no ancestor and the pair has no `+`.
Refused(e) == \/ ~Exists(e.from)
              \/ ~e.force /\ host[e.to] # NoCommit
                 /\ ~IsAncestor(host[e.to], pool[e.from])

\* git push --atomic names refs, not the commits that were judged.  It moves
\* every pair or none, and refuses two sources for one destination; it may
\* also fail for a reason of its own (a hook, a checked-out branch).
Pushable(k) ==
  /\ \A i \in DOMAIN close[k].manifest : ~Refused(close[k].manifest[i])
  /\ \A i, j \in DOMAIN close[k].manifest :
       close[k].manifest[i].to = close[k].manifest[j].to => i = j

Pushed(k) ==
  [b \in HostRefs |->
     IF \E i \in DOMAIN close[k].manifest : close[k].manifest[i].to = b
       THEN pool[(CHOOSE e \in {close[k].manifest[i] : i \in DOMAIN close[k].manifest} :
                    e.to = b).from]
       ELSE host[b]]

\* Mutant: without --atomic the first pair is pushed although another fails.
PushPiecewise(k) ==
  /\ close[k].pc = "push" /\ ~Refused(close[k].manifest[1])
  /\ LET e == close[k].manifest[1] IN host' = [host EXCEPT ![e.to] = pool[e.from]]
  /\ EndClose(k, IF Len(close[k].manifest) = 1 THEN "ok" ELSE "err")
  /\ UNCHANGED <<count, past, pool, temp, stuck, mine, run>>

Push(k) ==
  /\ close[k].pc = "push"
  /\ \/ Pushable(k) /\ host' = Pushed(k) /\ EndClose(k, "ok")
     \/ UNCHANGED host /\ EndClose(k, "err")
  /\ UNCHANGED <<count, past, pool, temp, stuck, mine, run>>

-----------------------------------------------------------------------------
AgentStep(r) == \/ AgentCommit(r, {})
                \/ \E c \in run[r].have : AgentCommit(r, {c})
                \/ AgentCommitOnBase(r)
RunStep(r) == \/ \E base \in Bases, import \in Imports, out \in Outputs :
                    Materialize(r, base, import, out)
              \/ AgentStep(r) \/ Extract(r) \/ Compare(r) \/ ValidateTargets(r)
              \/ FetchStart(r) \/ FetchUpdate(r)
CloseStep(k) == \/ \E m \in Manifests : CloseBegin(k, m)
                \/ Resolve(k) \/ Judge(k) \/ Cleanup(k) \/ Push(k)

Next == \/ \E b \in HostRefs : HostCommit(b)
        \/ \E r \in Runs : RunStep(r)
        \/ \E k \in Closers : CloseStep(k)

Spec == Init /\ [][Next]_vars

-----------------------------------------------------------------------------
(* Properties *)

TypeOK ==
  /\ count \in Commit /\ past \in [Commit -> SUBSET Commit]
  /\ pool \in [Name -> Commit \cup {NoCommit}]
  /\ temp \in [Indices -> Commit \cup {NoCommit}] /\ stuck \subseteq Indices
  /\ host \in [HostRefs -> Commit \cup {NoCommit}]
  /\ mine \in [HostRefs -> SUBSET Commit]
  /\ \A r \in Runs : /\ run[r].pc \in RunSteps /\ run[r].sha <= count
                     /\ run[r].sha # NoCommit => run[r].pc = "ok"
  /\ \A k \in Closers : close[k].pc \in CloseSteps

\* The audit ref of a Run that reported a commit is on that commit, whatever names
\* other Runs asked for: runs/* is out of their reach.  Only a process that the
\* Run's own agent left behind parts the two: HEAD is read for the report, and
\* once more by the fetch, and the ref is on what that process committed between.
AuditRefIsRunHead ==
  \A r \in Runs : run[r].pc = "ok" /\ run[r].sha # NoCommit
                    => pool[Audit(r)] \in {run[r].sha} \cup run[r].late

\* A Run never moves a branch that was in the Pool when it began.
EarlierRefsKept ==
  [][\A r \in Runs : run'[r] # run[r] =>
       \A n \in run[r].saw : pool'[n] = pool[n]]_vars

\* What the host's user committed to a branch stays reachable from it, also
\* what was committed while a close was between its check and its push, unless
\* a close that succeeded was told to force that branch.
Forced(b) == \E k \in Closers : close[k].pc = "ok" /\
               \E i \in DOMAIN close[k].manifest :
                 close[k].manifest[i].to = b /\ close[k].manifest[i].force
HostHistoryKept ==
  \A b \in HostRefs : mine[b] # {} /\ ~Forced(b) => mine[b] \subseteq past[host[b]]

\* Until a close succeeds no commit made in a Run is visible in the host repo,
\* and no branch appears there: a close that fails has published nothing.
MadeByRuns == UNION {run[r].made : r \in Runs}
FailedCloseInvisible ==
  (\A k \in Closers : close[k].pc # "ok") =>
     /\ \A b \in Mirrored : past[host[b]] \cap MadeByRuns = {}
     /\ \A b \in Fresh : host[b] = NoCommit

\* A push publishes the very commits that were judged, although it names refs
\* and any step may intervene, if no two Runs asked for one output branch.
Contended(n) == \E q, r \in Runs : q # r /\ run[q].out = n /\ run[r].out = n
PushedAsJudged ==
  [][\A k \in Closers : close[k].pc = "push" /\ close'[k].pc = "ok" =>
       \A i \in DOMAIN close[k].manifest :
         LET e == close[k].manifest[i]
         IN Contended(e.from) \/ host'[e.to] = close[k].seen[i].pool]_vars

\* Once no close is at work, the only temporary refs in the Pool are those that
\* git refused to delete.
NoTempLitter ==
  (\A k \in Closers : close[k].pc \in {"idle", "push", "ok", "err"})
     => \A i \in Indices : temp[i] # NoCommit => i \in stuck

\* A close that fails leaves nothing behind in the host repo, and in the Pool no
\* more than the temporary refs it could not delete.
FailedCloseLeavesNothing == FailedCloseInvisible /\ NoTempLitter

\* What the host's user commits after open reaches no branch of the Pool, not
\* through a close's own fetches nor through a Run's clone.
PoolIsolated ==
  \A n \in Name : Exists(n) => past[pool[n]] \cap (UNION {mine[b] : b \in HostRefs}) \subseteq {1}

-----------------------------------------------------------------------------
(* What the documentation says of Runs *)

\* session.rs: of two Runs racing on one output_branch, the loser gets
\* RefAlreadyExists.
OutputHasOneWinner ==
  \A q, r \in Runs :
    /\ q # r /\ run[q].out = run[r].out /\ run[q].out # NoOutput
    /\ run[q].sha # NoCommit
    => run[r].sha = NoCommit
=============================================================================
