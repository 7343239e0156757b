----------------------------- MODULE TargetUser -----------------------------
(***************************************************************************)
(* target_user.rs: which user the core becomes when it is started as root, *)
(* and the drop itself; and bunsen_paths.rs, the directories that follow   *)
(* from the environment it fixes up.                                       *)
(*                                                                         *)
(* An account stands for its uid and its name; a path is the account whose *)
(* home it is under, "/tmp" or "elsewhere", and the rest.                  *)
(***************************************************************************)
EXTENDS Naturals, Sequences

CONSTANTS
  Accounts,   \* names and uids that may be asked for
  Passwd,     \* those of the user database
  Homes,      \* those whose home is there
  Groups,     \* gids, root's "root" among them
  GroupOf,    \* the group of each account of the user database
  Members     \* and the groups that /etc/group adds to it

None == "none"

\* inputs_from_process, a uid or gid that does not parse being none; and the groups that the
\* process has when it is started.
Inputs ==
  {i \in [as_user : Accounts \cup {None}, euid : Accounts, ruid : Accounts,
          sudo_uid : Accounts \cup {None}, sudo_gid : Groups \cup {None},
          sudo_user : Accounts \cup {None}, gid : Groups, groups : SUBSET Groups] :
     i.euid \in {"root", i.ruid}}

Error(why) == [kind |-> why, user |-> None, gid |-> None]

finalize(entry, override_gid) ==
  IF entry \notin Passwd THEN Error("UserNotFound")
  ELSE IF entry = "root" THEN Error("DropToRoot")
  ELSE IF entry \notin Homes THEN Error("HomeMissing")
  ELSE [kind |-> "Drop", user |-> entry,
        gid |-> IF override_gid = None THEN GroupOf[entry] ELSE override_gid]

\* The explicit choice, then sudo's variables, whose name goes before the uid, then the
\* user who ran a setuid binary.
resolve(i) ==
  IF i.euid # "root" THEN [kind |-> "NoDrop", user |-> None, gid |-> None]
  ELSE IF i.as_user # None THEN finalize(i.as_user, None)
  ELSE IF i.sudo_uid # None
    THEN finalize(IF i.sudo_user # None THEN i.sudo_user ELSE i.sudo_uid, i.sudo_gid)
  ELSE IF i.ruid # "root" THEN finalize(i.ruid, None)
  ELSE Error("RootWithoutContext")

-----------------------------------------------------------------------------
(* The drop *)

Creds(i) == [uids |-> <<i.ruid, i.euid, i.euid>>, gids |-> <<i.gid, i.gid, i.gid>>,
             groups |-> i.groups, failed |-> FALSE]

\* Each of the calls, of a process with these credentials: root may, and others may only
\* take an id they have.
Call(c, allowed, new) == IF allowed /\ ~c.failed THEN new ELSE [c EXCEPT !.failed = TRUE]
Root(c) == c.uids[2] = "root"

initgroups(c, o) == Call(c, Root(c), [c EXCEPT !.groups = {o.gid} \cup Members[o.user]])
setresgid(c, o) ==
  Call(c, Root(c) \/ o.gid \in {c.gids[n] : n \in 1 .. 3}, [c EXCEPT !.gids = <<o.gid, o.gid, o.gid>>])
setresuid(c, o) ==
  Call(c, Root(c) \/ o.user \in {c.uids[n] : n \in 1 .. 3}, [c EXCEPT !.uids = <<o.user, o.user, o.user>>])

\* Mutant: the user first.
UserFirst(c, o) == setresgid(initgroups(setresuid(c, o), o), o)

\* The groups first: nobody but root may change them.
drop_privileges(c, o) == setresuid(setresgid(initgroups(c, o), o), o)

Path(home, rest) == [home |-> home, rest |-> rest]
Unset == Path(None, "")

\* What the directories depend on, set from the account whatever the caller had.
apply_env_fixup(user) ==
  [HOME |-> Path(user, ""), XDG_DATA_HOME |-> Path(user, "data"), XDG_CACHE_HOME |-> Path(user, "cache")]

\* run_main goes on with these credentials and this environment, or exits.
resolve_and_drop(i, env) ==
  LET o == resolve(i)
      dropped == drop_privileges(Creds(i), o)
  IN  CASE o.kind = "NoDrop" -> [ok |-> TRUE, creds |-> Creds(i), env |-> env]
        [] o.kind = "Drop"   -> [ok |-> ~dropped.failed, creds |-> dropped, env |-> apply_env_fixup(o.user)]
        [] OTHER             -> [ok |-> FALSE, creds |-> Creds(i), env |-> env]

home(env) == IF env.HOME = Unset THEN "/tmp" ELSE env.HOME.home
data_home(env)  == IF env.XDG_DATA_HOME = Unset THEN Path(home(env), "data") ELSE env.XDG_DATA_HOME
cache_home(env) == IF env.XDG_CACHE_HOME = Unset THEN Path(home(env), "cache") ELSE env.XDG_CACHE_HOME

\* The Sessions, and the caches of kernels and images.
sessions_root(env) == data_home(env)
kernel_cache(env)  == cache_home(env)
rootfs_cache(env)  == cache_home(env)

Paths == [home : STRING, rest : STRING]
StartEnvironments == [HOME : Paths, XDG_DATA_HOME : Paths, XDG_CACHE_HOME : Paths]

\* Whoever starts it as root ends up as the user they stand for, with no other uid, with the
\* groups of that user and no other that root had, and with Sessions and caches under that
\* user's home whatever the environment said; with no such user, or root or a user without a
\* home for one, the core does not go on.  Started by anyone else it stays who it is.  The
\* user's group is what sudo says, unchecked, where sudo says who the user is: SUDO_GID=0
\* leaves root's group, as do an account that has it and /etc/group (resolve_and_drop).
DropIsSafe(i, env) ==
  LET r == resolve_and_drop(i, env)
      asked == <<i.as_user, IF i.sudo_uid # None /\ i.sudo_user # None THEN i.sudo_user ELSE i.sudo_uid,
                 IF i.ruid = "root" THEN None ELSE i.ruid>>
      stands_for(a) == \E n \in 1 .. 3 : asked[n] = a /\ \A m \in 1 .. n - 1 : asked[m] = None
      by_sudo == i.as_user = None /\ i.sudo_uid # None /\ i.sudo_gid # None
      group(a) == IF by_sudo THEN i.sudo_gid ELSE GroupOf[a]
  IN  IF i.euid # "root" THEN r.ok /\ r.creds = Creds(i) /\ r.env = env
      ELSE /\ r.ok <=> \E a \in Homes \ {"root"} : stands_for(a)
           /\ r.ok => \E a \in Homes \ {"root"} :
                /\ stands_for(a) /\ {r.creds.uids[n] : n \in 1 .. 3} = {a}
                /\ {r.creds.gids[n] : n \in 1 .. 3} = {group(a)}
                /\ r.creds.groups = {group(a)} \cup Members[a]
                /\ {sessions_root(r.env).home, kernel_cache(r.env).home, rootfs_cache(r.env).home} = {a}
=============================================================================
