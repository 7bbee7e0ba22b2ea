--------------------------------- MODULE Vfs ---------------------------------
(***************************************************************************)
(* The virtual file system of common/vfs.c with the filesystems that plug  *)
(* into it (fs/fatfs.c, fs/sgpart.c, fs/sysfs.c): the node tree, mounts,   *)
(* on-demand lookup, open files and descriptors.                           *)
(*                                                                         *)
(* One call is in progress at a time (the VFS has no locks and one         *)
(* caller); `call' says where it is.  A path is the sequence of its        *)
(* segments.  Every walk takes one segment per step, every node a          *)
(* filesystem creates is a step of its own, and any allocation may fail.   *)
(* The order of a child list shows only in listings, so it is a set here.  *)
(***************************************************************************)
EXTENDS Integers, Sequences, FiniteSets

CONSTANTS
    Nodes,          \* node objects malloc can return
    Root,           \* vfs_root_node
    Null,           \* NULL
    Mounts,         \* mount objects
    Names,          \* names of nodes
    Paths,          \* the paths clients use, as sequences of Names
    FsTypes,        \* filesystem types
    BlockBacked,    \* those with VFS_FS_REQUIRES_DEV: auto-detect tries them
    OnDemand,       \* those with sops->lookup and sops->iterate
    Partitions,     \* entries a mount() that is not OnDemand builds
    WithSubdir,     \* types that put them into a directory of their own (sysfs)
    Regular,        \* names that are regular files, on the medium and for mknod
    FdMax,          \* INT_MAX
    MaxOpen,        \* clients keep at most this many files open
    FileSize,       \* size of a partition
    ReadLens,       \* len arguments of vfs_read
    Offsets,        \* off arguments of vfs_lseek
    PosMax,         \* clients do not seek beyond this position
    MayNest         \* whether clients mount inside a mounted filesystem and
                    \* unlink mount points

\* The directory sysfs_mount makes for its entries.
Devices == "devices"
\* fstype == NULL.
AutoDetect == "auto"
None == "none"

ASSUME VfsAssumption ==
    /\ IsFiniteSet(Nodes) /\ Root \in Nodes /\ Null \notin Nodes
    /\ Null \notin Mounts
    /\ Paths \subseteq Seq(Names)
    /\ BlockBacked \subseteq FsTypes /\ OnDemand \subseteq FsTypes
    /\ WithSubdir \subseteq FsTypes \ OnDemand
    /\ AutoDetect \notin FsTypes
    /\ Partitions \subseteq Names /\ IsFiniteSet(Partitions)
    /\ Devices \in Names /\ Regular \subseteq Names \ {Devices}
    /\ FdMax \in Nat /\ MaxOpen \in Nat /\ FileSize \in Nat
    /\ ReadLens \subseteq Nat /\ Offsets \subseteq Int /\ PosMax \in Nat
    /\ MayNest \in BOOLEAN

VARIABLES
    alive,          \* allocated nodes
    name, type,     \* node->name, node->type
    parent,         \* node->parent
    child,          \* the nodes of node->child's list
    mnt,            \* node->mnt
    mounts,         \* allocated mounts
    mroot,          \* mnt->root
    mtype,          \* mnt->type, which determines mnt->sops
    fs_types,       \* registered filesystem types
    files,          \* the open files: fd, node, position
    next_fd,        \* vfs_next_fd
    io,             \* the partition bytes the last sgpart_read covered
    call            \* the call in progress

treeVars == <<alive, name, type, parent, child, mnt>>
mountVars == <<mounts, mroot, mtype>>
fileVars == <<files, next_fd, io>>
vars == <<treeVars, mountVars, fs_types, fileVars, call>>

-----------------------------------------------------------------------------
(* Calls.  at is the node reached, mnt the mount it belongs to (cur_mnt),  *)
(* rest the segments still to go, arg a name or fstype; new, dir and todo  *)
(* belong to the fs callback: the mount being set up, the directory being  *)
(* filled and the entries still to make.                                   *)

Ops == {"none", "open", "mknod", "mkdir_p", "unlink", "ls", "mount", "umount"}
Steps == {"idle", "walk", "body", "iterate", "subdir", "populate"}
MaybeNode == Nodes \cup {Null}
MaybeMount == Mounts \cup {Null}
Args == Names \cup FsTypes \cup {AutoDetect, None}

Idle == [op |-> "none", step |-> "idle", at |-> Null, mnt |-> Null,
         rest |-> <<>>, arg |-> None, new |-> Null, dir |-> Null, todo |-> {}]

Calls == [op : Ops, step : Steps, at : MaybeNode, mnt : MaybeMount,
          rest : Seq(Names), arg : Args, new : MaybeMount, dir : MaybeNode,
          todo : SUBSET Names]

KindOf(nm) == IF nm \in Regular THEN "REG" ELSE "DIR"

\* vfs_follow_mount_mnt.  A mount's root is never itself a mount point
\* (MountsSound), so the loop runs at most once.
Follow(n) == IF mnt[n] = Null THEN n ELSE mroot[mnt[n]]
FollowMnt(n, m) == IF mnt[n] = Null THEN m ELSE mnt[n]

\* vfs_mount and vfs_umount want the mount point, vfs_mkdir_p stays on plain
\* tree links; everyone else wants what is mounted on it.
FollowsLast(op) == op \notin {"mount", "umount", "mkdir_p"}
Crosses(op) == op # "mkdir_p"

ChildNamed(p, nm) == {c \in child[p] : name[c] = nm}

Return == call' = Idle

\* The call's walk stands on n: follow what is mounted there, unless n is the
\* last segment of a call that does not.
Arrived(c, n, m, rest) ==
    LET follow == IF rest = <<>> THEN FollowsLast(c.op) ELSE Crosses(c.op)
    IN  [c EXCEPT !.at = IF follow THEN Follow(n) ELSE n,
                  !.mnt = IF follow THEN FollowMnt(n, m) ELSE m,
                  !.rest = rest,
                  !.step = IF rest = <<>> THEN "body" ELSE "walk"]

\* A client makes a call that starts by walking a path.
Begin(op, path, arg) ==
    /\ call = Idle
    /\ call' = Arrived([Idle EXCEPT !.op = op, !.arg = arg], Root, Null, path)
    /\ UNCHANGED <<treeVars, mountVars, fs_types, fileVars>>

-----------------------------------------------------------------------------
(* Nodes.                                                                  *)

\* vfs_alloc_node, and linking the node into its parent.
AddNode(n, p, nm, ty) ==
    /\ alive' = alive \cup {n}
    /\ name' = [name EXCEPT ![n] = nm]
    /\ type' = [type EXCEPT ![n] = ty]
    /\ parent' = [parent EXCEPT ![n] = p]
    /\ child' = [child EXCEPT ![p] = @ \cup {n}]
    /\ UNCHANGED mnt

\* vfs_create_node's checks.
MayCreate(p, nm) == type[p] = "DIR" /\ ChildNamed(p, nm) = {}

\* A walk's segment is there, or the filesystem finds it on its medium
\* (fatfs_lookup), or vfs_mkdir_p makes it; otherwise the call fails.
WalkFound ==
    /\ call.step = "walk"
    /\ \E c \in ChildNamed(call.at, Head(call.rest)) :
          /\ call.op = "mkdir_p" => type[c] = "DIR"
          /\ call' = Arrived(call, c, call.mnt, Tail(call.rest))
    /\ UNCHANGED <<treeVars, mountVars, fs_types, fileVars>>

WalkCreate ==
    /\ call.step = "walk"
    /\ LET nm == Head(call.rest)
       IN  /\ MayCreate(call.at, nm)
           /\ call.op # "mkdir_p" => call.mnt # Null /\ mtype[call.mnt] \in OnDemand
           /\ \E n \in Nodes \ alive :
                 /\ AddNode(n, call.at, nm, IF call.op = "mkdir_p" THEN "DIR" ELSE KindOf(nm))
                 /\ call' = Arrived(call, n, call.mnt, Tail(call.rest))
    /\ UNCHANGED <<mountVars, fs_types, fileVars>>

\* No such entry, a component that is not a directory, or no memory.
WalkFails ==
    /\ call.step = "walk"
    /\ Return
    /\ UNCHANGED <<treeVars, mountVars, fs_types, fileVars>>

\* vfs_mkdir_p has its directory, or a call gives up with an error that
\* changes nothing.
Finish ==
    /\ call.step = "body"
    /\ Return
    /\ UNCHANGED <<treeVars, mountVars, fs_types, fileVars>>

\* vfs_mkdir or vfs_mknod of name arg in the directory reached.
Mknod ==
    /\ call.step = "body" /\ call.op = "mknod"
    /\ MayCreate(call.at, call.arg)
    /\ \E n \in Nodes \ alive : AddNode(n, call.at, call.arg, KindOf(call.arg))
    /\ Return
    /\ UNCHANGED <<mountVars, fs_types, fileVars>>

OpenNodes == {f.node : f \in files}

\* free() of a set of nodes: their contents are gone.
FreeNodes(gone) ==
    /\ alive' = alive \ gone
    /\ name' = [n \in Nodes |-> IF n \in gone THEN None ELSE name[n]]
    /\ type' = [n \in Nodes |-> IF n \in gone THEN "FREE" ELSE type[n]]
    /\ parent' = [n \in Nodes |-> IF n \in gone THEN Null ELSE parent[n]]

\* vfs_unlink refuses directories with entries and open files; it does not
\* look at node->mnt.
Unlinkable(n) == child[n] = {} /\ n \notin OpenNodes

Unlink ==
    /\ call.step = "body" /\ call.op = "unlink"
    /\ \E n \in ChildNamed(call.at, call.arg) :
          /\ Unlinkable(n)
          /\ MayNest \/ mnt[n] = Null
          /\ FreeNodes({n})
          /\ child' = [child EXCEPT ![call.at] = @ \ {n}]
          /\ mnt' = [mnt EXCEPT ![n] = Null]
    /\ Return
    /\ UNCHANGED <<mountVars, fs_types, fileVars>>

\* ls: the filesystem makes a node for every entry of its medium's directory
\* (fatfs_iterate), one at a time and skipping those that are there.
LsBegin ==
    /\ call.step = "body" /\ call.op = "ls"
    /\ type[call.at] = "DIR"
    /\ call.mnt # Null /\ mtype[call.mnt] \in OnDemand
    /\ call' = [call EXCEPT !.step = "iterate"]
    /\ UNCHANGED <<treeVars, mountVars, fs_types, fileVars>>

LsEntry(nm) ==
    /\ call.step = "iterate"
    /\ MayCreate(call.at, nm)
    /\ \E n \in Nodes \ alive : AddNode(n, call.at, nm, KindOf(nm))
    /\ UNCHANGED <<mountVars, fs_types, fileVars, call>>

LsEnd ==
    /\ call.step = "iterate"
    /\ Return
    /\ UNCHANGED <<treeVars, mountVars, fs_types, fileVars>>

-----------------------------------------------------------------------------
(* Mounts.                                                                 *)

\* vfs_register_filesystem; a name that is there already is refused.
Register(t) ==
    /\ call = Idle
    /\ t \notin fs_types
    /\ fs_types' = fs_types \cup {t}
    /\ UNCHANGED <<treeVars, mountVars, fileVars, call>>

\* The types vfs_mount tries.
Candidates ==
    IF call.arg = AutoDetect THEN fs_types \cap BlockBacked ELSE fs_types \cap {call.arg}

\* Mutant: an occupied mount point is not refused.
MountableTwice(n) == type[n] = "DIR"

\* vfs_mount's checks on the mount point.
Mountable(n) == type[n] = "DIR" /\ mnt[n] = Null

\* vfs_try_mount with a type that accepts: the mount object, and the
\* filesystem's root (vfs_alloc_dir_node).  A type that rejects the device has
\* built nothing; Finish stands for "none accepted".
TryMount ==
    /\ call.step = "body" /\ call.op = "mount"
    /\ Mountable(call.at)
    /\ MayNest \/ call.mnt = Null
    /\ \E t \in Candidates, m \in Mounts \ mounts, r \in Nodes \ alive :
          /\ mounts' = mounts \cup {m}
          /\ mroot' = [mroot EXCEPT ![m] = r]
          /\ mtype' = [mtype EXCEPT ![m] = t]
          /\ alive' = alive \cup {r}
          /\ name' = [name EXCEPT ![r] = None]
          /\ type' = [type EXCEPT ![r] = "DIR"]
          /\ call' = [call EXCEPT !.step = IF t \in WithSubdir THEN "subdir" ELSE "populate",
                                  !.new = m, !.dir = r,
                                  !.todo = IF t \in OnDemand THEN {} ELSE Partitions]
    /\ UNCHANGED <<parent, child, mnt, fs_types, fileVars>>

\* sysfs_mount: mkdir "devices".
MakeSubdir ==
    /\ call.step = "subdir"
    /\ MayCreate(call.dir, Devices)
    /\ \E n \in Nodes \ alive :
          /\ AddNode(n, call.dir, Devices, "DIR")
          /\ call' = [call EXCEPT !.step = "populate", !.dir = n]
    /\ UNCHANGED <<mountVars, fs_types, fileVars>>

\* ... or fails: vfs_try_mount frees the mount object.
SubdirFails ==
    /\ call.step = "subdir"
    /\ mounts' = mounts \ {call.new}
    /\ mroot' = [mroot EXCEPT ![call.new] = Null]
    /\ mtype' = [mtype EXCEPT ![call.new] = None]
    /\ Return
    /\ UNCHANGED <<treeVars, fs_types, fileVars>>

\* One partition (sgpart_add) or device; one that cannot be made is skipped.
Populate(nm) ==
    /\ call.step = "populate"
    /\ nm \in call.todo
    /\ \/ /\ MayCreate(call.dir, nm)
          /\ \E n \in Nodes \ alive :
                AddNode(n, call.dir, nm, IF mtype[call.new] \in WithSubdir THEN "DIR" ELSE "REG")
       \/ UNCHANGED treeVars
    /\ call' = [call EXCEPT !.todo = @ \ {nm}]
    /\ UNCHANGED <<mountVars, fs_types, fileVars>>

Attach ==
    /\ call.step = "populate" /\ call.todo = {}
    /\ mnt' = [mnt EXCEPT ![call.at] = call.new]
    /\ Return
    /\ UNCHANGED <<alive, name, type, parent, child, mountVars, fs_types, fileVars>>

\* vfs_node_under_root: r is on n's chain of parents, that is, in every set
\* that holds n and with a node its parent.
UnderRoot(n, r) ==
    \A S \in SUBSET Nodes :
       n \in S /\ (\A k \in S : parent[k] # Null => parent[k] \in S) => r \in S

\* The nodes vfs_free_subtree(r) frees: r and, along child lists, all below.
Subtree(r) ==
    {n \in Nodes : \A S \in SUBSET Nodes :
                      r \in S /\ (\A k \in S : child[k] \subseteq S) => n \in S}

\* Mutant: only files directly in the root directory count.
BusyShallow(m) == \E n \in OpenNodes : parent[n] = mroot[m]

\* vfs_umount's -EBUSY.
Busy(m) == \E n \in OpenNodes : UnderRoot(n, mroot[m])

\* mp->mnt = NULL, and what freed nodes held is gone.
Detach(mp, gone) ==
    mnt' = [n \in Nodes |-> IF n = mp \/ n \in gone THEN Null ELSE mnt[n]]

Umount ==
    /\ call.step = "body" /\ call.op = "umount"
    /\ mnt[call.at] # Null
    /\ LET m == mnt[call.at]
           gone == Subtree(mroot[m])
       IN  /\ ~Busy(m)
           /\ Detach(call.at, gone)
           /\ FreeNodes(gone)
           /\ child' = [n \in Nodes |-> IF n \in gone THEN {} ELSE child[n]]
           /\ mounts' = mounts \ {m}
           /\ mroot' = [mroot EXCEPT ![m] = Null]
           /\ mtype' = [mtype EXCEPT ![m] = None]
    /\ Return
    /\ UNCHANGED <<fs_types, fileVars>>

-----------------------------------------------------------------------------
(* Open files.                                                             *)

Fds == 0 .. FdMax
UsedFds == {f.fd : f \in files}
\* Any negative value of vfs_next_fd.
Overflown == -1

\* vfs_next_fd++.  Past INT_MAX this is undefined (the build has no -fwrapv):
\* the test for a negative result sets it to 0, or is optimised away.
NextFds(fd) == IF fd = FdMax THEN {0, Overflown} ELSE {fd + 1}

\* Where vfs_alloc_fd starts.
StartFd == IF next_fd < 0 THEN 0 ELSE next_fd

\* Mutant: the descriptors in use are not looked at.
AllocatesNext(fd) == fd = StartFd

\* vfs_alloc_fd: the first unused descriptor from the start on, cyclically.
Allocates(fd) ==
    LET Ahead(g) == IF g >= StartFd THEN g - StartFd ELSE g - StartFd + FdMax + 1
    IN  fd \notin UsedFds /\ \A g \in Fds \ UsedFds : Ahead(fd) <= Ahead(g)

\* vfs_open; the descriptor is used up even if malloc or fops->open fails.
Open ==
    /\ call.step = "body" /\ call.op = "open"
    /\ type[call.at] # "DIR"
    /\ \E fd \in Fds :
          /\ Allocates(fd)
          /\ next_fd' \in NextFds(fd)
          /\ \/ files' = files \cup {[fd |-> fd, node |-> call.at, pos |-> 0]}
             \/ UNCHANGED files
    /\ Return
    /\ UNCHANGED <<treeVars, mountVars, fs_types, io>>

\* vfs_alloc_fd gives up: every descriptor is in use, or the scan has run past
\* INT_MAX to a negative descriptor, which vfs_open takes for an error.
OpenNoFd ==
    /\ call.step = "body" /\ call.op = "open"
    /\ type[call.at] # "DIR"
    /\ \/ Fds \subseteq UsedFds /\ next_fd' = StartFd
       \/ StartFd .. FdMax \subseteq UsedFds /\ next_fd' = Overflown
    /\ Return
    /\ UNCHANGED <<treeVars, mountVars, fs_types, files, io>>

\* vfs_close.
Close(f) ==
    /\ call = Idle
    /\ files' = files \ {f}
    /\ UNCHANGED <<treeVars, mountVars, fs_types, next_fd, io, call>>

Moved(f, pos) == (files \ {f}) \cup {[f EXCEPT !.pos = pos]}

\* sgpart_read's bounds.
Clipped(pos, len) ==
    IF pos >= FileSize THEN 0
    ELSE IF len > FileSize - pos THEN FileSize - pos ELSE len

\* vfs_read of a partition; blkdev_read may fail, and then pos stays.
Read(f, len) ==
    /\ call = Idle
    /\ LET n == Clipped(f.pos, len)
       IN  /\ io' = IF n = 0 THEN io ELSE <<f.pos, f.pos + n>>
           /\ files' \in {Moved(f, f.pos + n), files}
    /\ UNCHANGED <<treeVars, mountVars, fs_types, next_fd, call>>

\* vfs_lseek with SEEK_SET or SEEK_CUR; negative positions are refused.
Seek(f, off) ==
    /\ call = Idle
    /\ \E base \in {0, f.pos} :
          /\ base + off >= 0 /\ base + off <= PosMax
          /\ files' = Moved(f, base + off)
    /\ UNCHANGED <<treeVars, mountVars, fs_types, next_fd, io, call>>

-----------------------------------------------------------------------------
\* vfs_init.
Init ==
    /\ alive = {Root}
    /\ name = [n \in Nodes |-> None]
    /\ type = [n \in Nodes |-> IF n = Root THEN "DIR" ELSE "FREE"]
    /\ parent = [n \in Nodes |-> Null]
    /\ child = [n \in Nodes |-> {}]
    /\ mnt = [n \in Nodes |-> Null]
    /\ mounts = {}
    /\ mroot = [m \in Mounts |-> Null]
    /\ mtype = [m \in Mounts |-> None]
    /\ fs_types = {}
    /\ files = {}
    /\ next_fd = 0
    /\ io = <<0, 0>>
    /\ call = Idle

Walk == WalkFound \/ WalkCreate \/ WalkFails

Body ==
    \/ Finish \/ Mknod \/ Unlink \/ Open \/ OpenNoFd \/ Umount
    \/ LsBegin \/ (\E nm \in Names : LsEntry(nm)) \/ LsEnd
    \/ TryMount \/ MakeSubdir \/ SubdirFails
    \/ (\E nm \in Names : Populate(nm)) \/ Attach

\* What clients call.
Client ==
    \/ \E path \in Paths :
          \/ Begin("mkdir_p", path, None)
          \/ Begin("umount", path, None)
          \/ Begin("ls", path, None)
          \/ Cardinality(files) < MaxOpen /\ Begin("open", path, None)
          \/ \E t \in FsTypes \cup {AutoDetect} : Begin("mount", path, t)
          \/ \E nm \in Names : Begin("mknod", path, nm) \/ Begin("unlink", path, nm)
    \/ \E t \in FsTypes : Register(t)
    \/ \E f \in files :
          \/ Close(f)
          \/ \E len \in ReadLens : Read(f, len)
          \/ \E off \in Offsets : Seek(f, off)

Next == Client \/ Walk \/ Body

Spec == Init /\ [][Next]_vars

-----------------------------------------------------------------------------
(* Properties.                                                             *)

\* Every variable has the type its declaration gives it.
TypeOK ==
    /\ alive \subseteq Nodes
    /\ name \in [Nodes -> Names \cup {None}]
    /\ type \in [Nodes -> {"FREE", "DIR", "REG"}]
    /\ parent \in [Nodes -> Nodes \cup {Null}]
    /\ child \in [Nodes -> SUBSET Nodes]
    /\ mnt \in [Nodes -> Mounts \cup {Null}]
    /\ mounts \subseteq Mounts
    /\ mroot \in [Mounts -> Nodes \cup {Null}]
    /\ mtype \in [Mounts -> FsTypes \cup {None}]
    /\ fs_types \subseteq FsTypes
    /\ files \subseteq [fd : Fds, node : Nodes, pos : Nat]
    /\ next_fd \in Fds \cup {Overflown}
    /\ io \in Nat \X Nat
    /\ call \in Calls

\* No open file outlives its node: vfs_read, vfs_write, vfs_ioctl and
\* vfs_close dereference file->node, which vfs_unlink and vfs_umount free.
OpenFilesAlive == \A f \in files : f.node \in alive /\ type[f.node] = "REG"

\* The tree's links agree: the nodes in a child list are exactly the allocated
\* ones whose parent pointer leads back, no freed node is linked, siblings
\* have different names and only directories have entries.
TreeSound ==
    /\ \A p, c \in Nodes : c \in child[p] <=> c \in alive /\ parent[c] = p
    /\ \A n \in Nodes : parent[n] # Null => parent[n] \in alive /\ type[parent[n]] = "DIR"
    /\ \A p \in alive : \A c, d \in child[p] : name[c] = name[d] => c = d

\* Mount pointers are good: a live node's mount is allocated, its root is an
\* allocated directory outside every child list, no two mounts share a root,
\* no two nodes a mount, and a mount's root is never covered itself (so
\* following mounts ends after one step).
MountsSound ==
    /\ \A n \in Nodes : mnt[n] # Null => n \in alive /\ mnt[n] \in mounts
    /\ \A m \in mounts : /\ mroot[m] \in alive \ {Root} /\ type[mroot[m]] = "DIR"
                         /\ parent[mroot[m]] = Null /\ mnt[mroot[m]] = Null
    /\ \A m1, m2 \in mounts : mroot[m1] = mroot[m2] => m1 = m2
    /\ \A n1, n2 \in Nodes : mnt[n1] # Null /\ mnt[n1] = mnt[n2] => n1 = n2

\* A descriptor names one open file, also after vfs_next_fd has wrapped.
FdsUnique == \A f, g \in files : f.fd = g.fd => f = g

\* A partition's file never reads outside the partition.
ReadsInside == io[2] <= FileSize

\* Every open file belongs to a filesystem that is still mounted ("-EBUSY
\* (open files under it)").
OpenFilesReachable ==
    \A f \in files :
       \/ UnderRoot(f.node, Root)
       \/ \E mp \in Nodes : mnt[mp] # Null /\ UnderRoot(f.node, mroot[mnt[mp]])

\* Every allocated node and mount can still be reached to be freed: it hangs
\* in the root tree or under a mount that is attached or being set up ("a
\* rejecting path must not build a tree").  The one exception is the root node
\* sysfs_mount has made when it runs out of memory for "devices".
NothingLeaks ==
    /\ \A m \in mounts : m = call.new \/ \E mp \in Nodes : mnt[mp] = m
    /\ \A n \in alive :
          \/ UnderRoot(n, Root)
          \/ \E m \in mounts : UnderRoot(n, mroot[m])
          \/ WithSubdir # {} /\ parent[n] = Null /\ child[n] = {}

\* The namespace is sound: types, links, mount pointers and descriptors agree,
\* no open file's node has been freed and reads end where partitions do.
NamespaceSound ==
    TypeOK /\ TreeSound /\ MountsSound /\ FdsUnique /\ OpenFilesAlive /\ ReadsInside

-----------------------------------------------------------------------------
(* The inductive invariant behind the safety properties.                   *)

\* Freed nodes hold nothing, the root is there for good.
NodesInv ==
    /\ Root \in alive /\ type[Root] = "DIR" /\ parent[Root] = Null
    /\ \A n \in Nodes : IF n \in alive THEN type[n] # "FREE"
                        ELSE type[n] = "FREE" /\ parent[n] = Null

\* What the call in progress points to is allocated.  A mount point is reached
\* through a child list (or is the root), never through a mount, so it is no
\* mount's root.
CallInv ==
    /\ call.step = "idle" <=> call = Idle
    /\ call # Idle => call.at \in alive /\ call.mnt \in mounts \cup {Null}
    /\ call.step = "walk" => call.rest # <<>>
    /\ call.op \in {"mknod", "unlink"} => call.arg \in Names
    /\ call.op \in {"mount", "umount"} /\ call.step # "walk" =>
          call.at = Root \/ parent[call.at] # Null
    /\ call.step \in {"subdir", "populate"} =>
          /\ call.op = "mount" /\ call.new \in mounts
          /\ call.dir \in alive /\ type[call.dir] = "DIR"
          /\ \A n \in Nodes : mnt[n] # call.new

VfsInv ==
    /\ TypeOK
    /\ OpenFilesAlive
    /\ TreeSound
    /\ MountsSound
    /\ FdsUnique
    /\ NodesInv
    /\ CallInv
=============================================================================
