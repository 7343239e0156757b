------------------------------- MODULE Caches -------------------------------
(***************************************************************************)
(* The kernel cache (kernel.rs) and the rootfs cache (oci_cache.rs), which *)
(* every bunsen process of a user shares through the file system.          *)
(*                                                                         *)
(* A file is an inode: an open descriptor and a name may denote the same   *)
(* one, rename moves a name, and open(O_TRUNC) empties the inode whoever   *)
(* else is writing it.  All processes download a kernel to the one name    *)
(* vmlinux-<version>.tmp; the temporary file of a rootfs build carries the *)
(* pid, so no other process sees its inode before it is renamed.           *)
(***************************************************************************)
EXTENDS Naturals, FiniteSets

CONSTANTS
  Procs,      \* bunsen processes
  None,       \* no inode
  MaxKills    \* bound: processes killed while they resolve

ASSUME CachesAssumption ==
  None \notin Nat /\ IsFiniteSet(Procs) /\ MaxKills \in Nat

\* Two names and one descriptor per process can pin an inode; one more is free.
Inodes == 1..(Cardinality(Procs) + 3)

VARIABLES
  kernel, ktmp,   \* inode behind vmlinux-<version>, and behind its .tmp
  data,           \* inode -> "part", "good" or "bad" (its hash is wrong)
  last,           \* inode -> the process whose truncation is still to be filled
  rootfs,         \* the cached image: "none", "bad" or "whole"
  build,          \* per process: its own temporary image
  stage,          \* per process: where it is
  fd, body,       \* per process: the inode it has open, and what it downloaded
  raced,          \* history, per process: another download overlaps its own
  kills

fsVars   == <<kernel, ktmp, data, last>>
imgVars  == <<rootfs, build>>
procVars == <<stage, fd, body, raced>>
cacheVars == <<fsVars, imgVars, procVars, kills>>

Resolved == {"ready", "failed", "gone"}
Stages == {"kernel", "hash", "unlink", "fetch", "write", "check", "rename",
           "rootfs", "drop", "pull", "mkfs", "place"} \cup Resolved

CacheInit ==
  /\ kernel \in {None, 1} /\ ktmp = None
  /\ data \in [{kernel} \ {None} -> {"good", "bad"}]
  /\ last = [i \in {kernel} \ {None} |-> None]
  /\ rootfs \in {"none", "bad", "whole"} /\ build = [p \in Procs |-> "none"]
  /\ stage = [p \in Procs |-> "kernel"]
  /\ fd = [p \in Procs |-> None] /\ body = [p \in Procs |-> "none"]
  /\ raced = [p \in Procs |-> FALSE] /\ kills = 0

\* An inode lives while a name or a descriptor denotes it.
Live == ({kernel, ktmp} \cup {fd[q] : q \in Procs}) \ {None}
Files(d, l) ==
  /\ data' = [i \in Live' |-> d[i]]
  /\ last' = [i \in Live' |-> l[i]]

Go(p, s) == stage' = [stage EXCEPT ![p] = s]

-----------------------------------------------------------------------------
(* ensure_kernel_with *)

Downloading == {"write", "check", "rename"}

\* BUNSEN_KERNEL is returned unchecked; so is no cached file to look at.
LookupKernel(p) ==
  /\ stage[p] = "kernel"
  /\ \/ Go(p, "rootfs") /\ UNCHANGED fd
     \/ kernel = None /\ Go(p, "fetch") /\ UNCHANGED fd
     \/ kernel # None /\ Go(p, "hash") /\ fd' = [fd EXCEPT ![p] = kernel]
  /\ UNCHANGED <<fsVars, imgVars, body, raced, kills>>

sha256_of_file(i) == data[i]

\* The file is read through the descriptor, whatever its name denotes by then.
HashKernel(p) ==
  /\ stage[p] = "hash"
  /\ Go(p, IF sha256_of_file(fd[p]) = "good" THEN "rootfs" ELSE "unlink")
  /\ fd' = [fd EXCEPT ![p] = None]
  /\ UNCHANGED <<kernel, ktmp, imgVars, body, raced, kills>> /\ Files(data, last)

\* The corrupt file is removed by name; it is an error if the name has gone.
UnlinkKernel(p) ==
  /\ stage[p] = "unlink"
  /\ Go(p, IF kernel = None THEN "failed" ELSE "fetch")
  /\ kernel' = None
  /\ UNCHANGED <<ktmp, imgVars, fd, body, raced, kills>> /\ Files(data, last)

\* open(O_CREAT): the file of that name, or a new one.
TmpInode == IF ktmp # None THEN {ktmp} ELSE {CHOOSE i \in Inodes : i \notin Live}

\* fs::write opens the shared temporary name with O_CREAT | O_TRUNC.
FetchKernel(p) ==
  /\ stage[p] = "fetch"
  /\ UNCHANGED <<kernel, imgVars, kills>>
  /\ \/ Go(p, "failed") /\ UNCHANGED <<ktmp, data, last, fd, body, raced>>
     \/ \E b \in {"good", "bad"}, i \in TmpInode :
          LET others == {q \in Procs \ {p} : stage[q] \in Downloading}
          IN  /\ Go(p, "write")
              /\ body' = [body EXCEPT ![p] = b]
              /\ ktmp' = i /\ fd' = [fd EXCEPT ![p] = i]
              /\ Files([j \in Live \cup {i} |-> IF j = i THEN "part" ELSE data[j]],
                       [j \in Live \cup {i} |-> IF j = i THEN p ELSE last[j]])
              /\ raced' = [q \in Procs |->
                   raced[q] \/ (others # {} /\ q \in others \cup {p})]

\* Every writer of an inode writes the same length from offset 0: the file is
\* whole once the last one to truncate it has written, and wrong once a writer
\* of a wrong body has.
FillKernel(p) ==
  /\ stage[p] = "write" /\ Go(p, "check")
  /\ fd' = [fd EXCEPT ![p] = None]
  /\ UNCHANGED <<kernel, ktmp, imgVars, body, raced, kills>>
  /\ LET i == fd[p] IN
       Files([data EXCEPT ![i] =
                IF body[p] = "bad" THEN "bad" ELSE IF last[i] = p THEN "good" ELSE @],
             [last EXCEPT ![i] = IF @ = p THEN None ELSE @])

\* Mutant: the hash is not looked at.
CheckBodyNever(p) ==
  /\ stage[p] = "check" /\ Go(p, "rename")
  /\ body' = [body EXCEPT ![p] = "none"]
  /\ UNCHANGED <<kernel, ktmp, imgVars, fd, raced, kills>> /\ Files(data, last)

\* The hash is of the bytes downloaded, not of the file they were written to.
CheckBody(p) ==
  /\ stage[p] = "check"
  /\ IF body[p] = "good" THEN Go(p, "rename") /\ UNCHANGED ktmp
                         ELSE Go(p, "failed") /\ ktmp' = None
  /\ body' = [body EXCEPT ![p] = "none"]
  /\ UNCHANGED <<kernel, imgVars, fd, raced, kills>> /\ Files(data, last)

RenameKernel(p) ==
  /\ stage[p] = "rename"
  /\ IF ktmp = None THEN Go(p, "failed") /\ UNCHANGED <<kernel, ktmp>>
                    ELSE Go(p, "rootfs") /\ kernel' = ktmp /\ ktmp' = None
  /\ raced' = [raced EXCEPT ![p] = FALSE]
  /\ UNCHANGED <<imgVars, fd, body, kills>> /\ Files(data, last)

-----------------------------------------------------------------------------
(* resolve_rootfs *)

\* What a registry may answer.
Answers == [manifest : {"open", "challenge", "refused"}, realm : BOOLEAN, token : BOOLEAN,
            pinned : BOOLEAN, kind : {"image", "list", "foreign"},
            blobs : BOOLEAN, tree : BOOLEAN]

\* The challenge names a realm, and the realm gives a token.
fetch_token_from_challenge(a) == a.realm /\ a.token

\* A 401 with a challenge is answered with a bearer token, and asked again once.
pull_manifest(a) ==
  a.manifest = "open" \/ (a.manifest = "challenge" /\ fetch_token_from_challenge(a))

\* A list of manifests must have one for linux/amd64; anything else is an image.
resolve_image_manifest(a) == a.kind \in {"image", "list"}

\* Only the manifest is compared with the digest that was asked for.
pull_and_flatten(a) ==
  pull_manifest(a) /\ a.pinned /\ resolve_image_manifest(a) /\ a.blobs /\ a.tree

\* The superblock magic tells a whole image from an interrupted build.
is_valid_ext4(image) == image = "whole"

\* Mutant: any cached file is taken, as before is_valid_ext4 was added.
LookupRootfsExists(p) ==
  /\ stage[p] = "rootfs"
  /\ Go(p, IF rootfs # "none" THEN "ready" ELSE "pull")
  /\ UNCHANGED <<fsVars, imgVars, fd, body, raced, kills>>

LookupRootfs(p) ==
  /\ stage[p] = "rootfs"
  /\ Go(p, CASE rootfs = "none" -> "pull"
             [] rootfs # "none" /\ is_valid_ext4(rootfs) -> "ready"
             [] OTHER -> "drop")
  /\ UNCHANGED <<fsVars, imgVars, fd, body, raced, kills>>

DropRootfs(p) ==
  /\ stage[p] = "drop" /\ Go(p, "pull")
  /\ rootfs' = "none"
  /\ UNCHANGED <<fsVars, build, fd, body, raced, kills>>

\* Nothing outside the process's TempDir changes before mkfs: the pull is one step.
PullRootfs(p) ==
  /\ stage[p] = "pull"
  /\ \E ok \in {pull_and_flatten(a) : a \in Answers} :
       IF ok THEN Go(p, "mkfs") /\ build' = [build EXCEPT ![p] = "part"]
             ELSE Go(p, "failed") /\ UNCHANGED build
  /\ UNCHANGED <<fsVars, rootfs, fd, body, raced, kills>>

MakeRootfs(p) ==
  /\ stage[p] = "mkfs"
  /\ \/ Go(p, "place") /\ build' = [build EXCEPT ![p] = "whole"]
     \/ Go(p, "failed") /\ build' = [build EXCEPT ![p] = "none"]
  /\ UNCHANGED <<fsVars, rootfs, fd, body, raced, kills>>

PlaceRootfs(p) ==
  /\ stage[p] = "place" /\ Go(p, "ready")
  /\ rootfs' = build[p] /\ build' = [build EXCEPT ![p] = "none"]
  /\ UNCHANGED <<fsVars, fd, body, raced, kills>>

\* SIGKILL: the files stay as they are.  The user starts the command again; in the
\* worst case the new process has the pid of the old one.
KillResolver(p) ==
  /\ kills < MaxKills /\ stage[p] \notin Resolved
  /\ Go(p, "kernel") /\ kills' = kills + 1
  /\ fd' = [fd EXCEPT ![p] = None] /\ raced' = [raced EXCEPT ![p] = FALSE]
  /\ body' = [body EXCEPT ![p] = "none"]
  /\ UNCHANGED <<kernel, ktmp, imgVars>> /\ Files(data, last)

KernelStep(p) ==
  \/ LookupKernel(p) \/ HashKernel(p) \/ UnlinkKernel(p) \/ FetchKernel(p)
  \/ FillKernel(p) \/ CheckBody(p) \/ RenameKernel(p)

RootfsStep(p) ==
  \/ LookupRootfs(p) \/ DropRootfs(p) \/ PullRootfs(p) \/ MakeRootfs(p) \/ PlaceRootfs(p)

CacheNext == \E p \in Procs : KernelStep(p) \/ RootfsStep(p) \/ KillResolver(p)
CacheSpec == CacheInit /\ [][CacheNext]_cacheVars

-----------------------------------------------------------------------------
(* Properties *)

\* Types, and that nothing unchecked is passed on: CacheSpec keeps them.
CachesTypeOK ==
  /\ kernel \in Inodes \cup {None} /\ ktmp \in Inodes \cup {None}
  /\ data \in [Live -> {"part", "good", "bad"}] /\ last \in [Live -> Procs \cup {None}]
  /\ rootfs \in {"none", "bad", "whole"}
  /\ build \in [Procs -> {"none", "part", "whole"}]
  /\ stage \in [Procs -> Stages]
  /\ fd \in [Procs -> Inodes \cup {None}]
  /\ body \in [Procs -> {"none", "good", "bad"}]
  /\ raced \in [Procs -> BOOLEAN] /\ kills \in 0..MaxKills

\* A process that downloaded a kernel and met no other download returns a file that
\* is there and whole, whatever was killed half-way before it (ensure_kernel_with:
\* one temporary name, hash, rename).
KernelWholeUnlessRaced ==
  [][\A p \in Procs :
       stage[p] = "rename" /\ stage'[p] = "rootfs" /\ ~raced[p] =>
         kernel' # None /\ data'[kernel'] = "good"]_cacheVars

\* Once a process has its rootfs, the cache never holds a partial image for it to
\* boot, though others still build, drop and replace it: at worst there is none
\* (resolve_rootfs, create_ext4_from_dir).
ReadyRootfsWhole ==
  \A p \in Procs : stage[p] = "ready" => rootfs # "bad"

=============================================================================
