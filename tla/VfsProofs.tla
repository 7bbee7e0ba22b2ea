------------------------------ MODULE VfsProofs ------------------------------
(***************************************************************************)
(* Proofs about the VFS: for any set of nodes, mounts, names, paths and    *)
(* filesystem types, open files, tree links, mount pointers and            *)
(* descriptors stay sound.                                                 *)
(***************************************************************************)
EXTENDS Vfs, TLAPS

\* TypeOK without the call in progress.
DataType ==
    /\ alive \subseteq Nodes
    /\ name \in [Nodes -> Names \cup {None}]
    /\ type \in [Nodes -> {"FREE", "DIR", "REG"}]
    /\ parent \in [Nodes -> Nodes \cup {Null}]
    /\ child \in [Nodes -> SUBSET Nodes]
    /\ mnt \in [Nodes -> Mounts \cup {Null}]
    /\ mounts \subseteq Mounts
    /\ mroot \in [Mounts -> Nodes \cup {Null}]
    /\ mtype \in [Mounts -> FsTypes \cup {None}]
    /\ fs_types \subseteq FsTypes
    /\ files \subseteq [fd : Fds, node : Nodes, pos : Nat]
    /\ next_fd \in Fds \cup {Overflown}
    /\ io \in Nat \X Nat

\* VfsInv without the call in progress.
DataInv ==
    /\ DataType
    /\ OpenFilesAlive
    /\ TreeSound
    /\ MountsSound
    /\ FdsUnique
    /\ NodesInv

\* The invariant is that of the data and that of the call.
LEMMA SplitInv == VfsInv <=> DataInv /\ call \in Calls /\ CallInv
BY Zenon DEF VfsInv, DataInv, DataType, TypeOK

\* The same in the next state.
LEMMA SplitInvNext == VfsInv' <=> DataInv' /\ call' \in Calls /\ CallInv'
BY Zenon DEF VfsInv, DataInv, DataType, TypeOK

\* Where nothing but the call changes, the data stay sound.
LEMMA DataSame ==
    ASSUME DataInv, UNCHANGED <<treeVars, mountVars, fs_types, fileVars>>
    PROVE  DataInv'
BY SMT DEF DataInv, DataType, OpenFilesAlive, TreeSound, MountsSound, FdsUnique,
       NodesInv, treeVars, mountVars, fileVars

\* No call is one of the calls.
LEMMA IdleCall == Idle \in Calls
BY SMT DEF Idle, Calls, Ops, Steps, MaybeNode, MaybeMount, Args

\* A call that ends leaves nothing to point anywhere.
LEMMA ReturnInv ==
    ASSUME Return
    PROVE  call' \in Calls /\ CallInv'
BY IdleCall, SMT DEF Return, CallInv, Idle

-----------------------------------------------------------------------------
\* The fields a step of a call may set.
LEMMA CallFields ==
    ASSUME NEW c \in Calls
    PROVE  /\ \A at \in MaybeNode, m \in MaybeMount, rest \in Seq(Names), step \in Steps :
                 [c EXCEPT !.at = at, !.mnt = m, !.rest = rest, !.step = step] \in Calls
           /\ \A op \in Ops, arg \in Args : [c EXCEPT !.op = op, !.arg = arg] \in Calls
           /\ \A step \in Steps : [c EXCEPT !.step = step] \in Calls
           /\ \A step \in Steps, m \in MaybeMount, d \in MaybeNode, todo \in SUBSET Names :
                 [c EXCEPT !.step = step, !.new = m, !.dir = d, !.todo = todo] \in Calls
           /\ \A step \in Steps, d \in MaybeNode :
                 [c EXCEPT !.step = step, !.dir = d] \in Calls
           /\ \A todo \in SUBSET Names : [c EXCEPT !.todo = todo] \in Calls
BY DEF Calls

\* Call d stands on n, or on the root of what is mounted there.
Lands(d, c, n, rest) ==
    /\ d \in Calls
    /\ d.op = c.op /\ d.arg = c.arg /\ d.rest = rest
    /\ d.step = IF rest = <<>> THEN "body" ELSE "walk"
    /\ d.at = n \/ (mnt[n] # Null /\ d.at = mroot[mnt[n]])
    /\ d.mnt \in mounts \cup {Null}
    /\ c.op \in {"mount", "umount"} /\ rest = <<>> => d.at = n

\* Arriving at a node with nothing mounted on it, or with an allocated mount.
LEMMA ArrivedAt ==
    ASSUME NEW c \in Calls, NEW n \in Nodes, NEW m \in mounts \cup {Null},
           NEW rest \in Seq(Names), mounts \subseteq Mounts,
           mnt[n] # Null => mnt[n] \in mounts /\ mroot[mnt[n]] \in Nodes,
           NEW d, d = Arrived(c, n, m, rest)
    PROVE  Lands(d, c, n, rest)
<1> DEFINE follow == IF rest = <<>> THEN FollowsLast(c.op) ELSE Crosses(c.op)
           at == IF follow THEN Follow(n) ELSE n
           mm == IF follow THEN FollowMnt(n, m) ELSE m
           step == IF rest = <<>> THEN "body" ELSE "walk"
<1>1. /\ at \in MaybeNode /\ mm \in mounts \cup {Null} /\ mm \in MaybeMount
      /\ at = n \/ (mnt[n] # Null /\ at = mroot[mnt[n]])
      /\ c.op \in {"mount", "umount"} /\ rest = <<>> => at = n
  BY SMT DEF Follow, FollowMnt, FollowsLast, MaybeNode, MaybeMount
<1>2. d = [c EXCEPT !.at = at, !.mnt = mm, !.rest = rest, !.step = step]
  BY Zenon DEF Arrived
<1>3. step \in Steps
  BY Zenon DEF Steps
<1> HIDE DEF follow, at, mm, step
<1>4. /\ d.at = at /\ d.mnt = mm /\ d.rest = rest /\ d.step = step
      /\ d.op = c.op /\ d.arg = c.arg
  BY <1>2, SMT DEF Calls
<1>5. d \in Calls
  <2>1. rest \in Seq(Names)
    OBVIOUS
  <2>2. [c EXCEPT !.at = at, !.mnt = mm, !.rest = rest, !.step = step] \in Calls
    BY <1>1, <1>3, <2>1, CallFields
  <2> QED BY <1>2, <2>2, Zenon
<1> QED BY <1>1, <1>4, <1>5, Zenon DEF step, Lands

\* The call of a walk that goes on.
LEMMA WalkInv ==
    ASSUME DataInv,
           NEW c \in Calls, NEW n \in Nodes, NEW m \in mounts \cup {Null},
           NEW rest \in Seq(Names),
           n \in alive', alive \subseteq alive', mounts' = mounts,
           c.op \in {"mknod", "unlink"} => c.arg \in Names,
           c.op \in {"mount", "umount"} /\ rest = <<>> => n = Root \/ parent'[n] # Null,
           call' = Arrived(c, n, m, rest)
    PROVE  call' \in Calls /\ CallInv'
<1>1. /\ mounts \subseteq Mounts /\ mroot \in [Mounts -> Nodes \cup {Null}]
      /\ mnt[n] # Null => mnt[n] \in mounts /\ mroot[mnt[n]] \in alive
      /\ mnt[n] # Null => mnt[n] \in mounts /\ mroot[mnt[n]] \in Nodes
      /\ alive \subseteq Nodes
  BY SMT DEF DataInv, DataType, MountsSound
<1>2. Lands(call', c, n, rest)
  <2> DEFINE d == Arrived(c, n, m, rest)
  <2>1. d = Arrived(c, n, m, rest) /\ call' = d
    OBVIOUS
  <2> HIDE DEF d
  <2>2. Lands(d, c, n, rest)
    BY <1>1, <2>1, ArrivedAt, Zenon
  <2> QED BY <2>1, <2>2, Zenon
<1>3. call'.step # "idle" /\ call' # Idle
  BY <1>2, SMT DEF Idle, Lands
<1> QED BY <1>1, <1>2, <1>3, SMT DEF CallInv, Lands

-----------------------------------------------------------------------------
\* A new node in a directory: the data stay sound, whatever call made it.
LEMMA AddNodeInv ==
    ASSUME DataInv, VfsAssumption,
           NEW n \in Nodes \ alive, NEW p \in alive, NEW nm \in Names,
           NEW ty \in {"DIR", "REG"},
           MayCreate(p, nm), AddNode(n, p, nm, ty),
           UNCHANGED <<mountVars, fs_types, fileVars>>
    PROVE  DataInv'
<1> USE DEF AddNode, DataInv
<1>1. DataType'
  BY SMT DEF DataType, mountVars, fileVars
<1>2. OpenFilesAlive'
  BY SMT DEF OpenFilesAlive, DataType, fileVars
<1>3. TreeSound'
  <2>1. \A q, c \in Nodes : (c \in child[q] <=> c \in alive /\ parent[c] = q)'
    BY SMT DEF TreeSound, DataType, NodesInv
  <2>2. \A k \in Nodes : (parent[k] # Null => parent[k] \in alive /\ type[parent[k]] = "DIR")'
    BY SMT DEF TreeSound, DataType, NodesInv, MayCreate, VfsAssumption
  <2>3. \A q \in alive' : \A c, d \in child'[q] : name'[c] = name'[d] => c = d
    <3> SUFFICES ASSUME NEW q \in alive', NEW c \in child'[q], NEW d \in child'[q],
                        name'[c] = name'[d]
                 PROVE  c = d
      OBVIOUS
    <3>1. child[n] = {}
      BY SMT DEF TreeSound, DataType, NodesInv, VfsAssumption
    <3>2. \A k \in Nodes : k \in child[q] => k # n
      BY SMT DEF TreeSound, DataType, NodesInv, VfsAssumption
    <3> QED BY <3>1, <3>2, SMT DEF TreeSound, DataType, MayCreate, ChildNamed
  <2> QED BY <2>1, <2>2, <2>3, Zenon DEF TreeSound
<1>4. MountsSound'
  BY SMT DEF MountsSound, DataType, mountVars
<1>5. FdsUnique'
  BY Zenon DEF FdsUnique, fileVars
<1>6. NodesInv'
  BY SMT DEF NodesInv, DataType
<1> QED BY <1>1, <1>2, <1>3, <1>4, <1>5, <1>6, Zenon

-----------------------------------------------------------------------------
(* Walks.                                                                  *)

LEMMA BeginInv ==
    ASSUME VfsInv, NEW op \in Ops \ {"none"}, NEW path \in Paths, NEW arg \in Args,
           op \in {"mknod", "unlink"} => arg \in Names,
           Begin(op, path, arg)
    PROVE  VfsInv'
<1> DEFINE c == [Idle EXCEPT !.op = op, !.arg = arg]
<1>1. DataInv /\ DataInv'
  BY SplitInv, DataSame, Zenon DEF Begin
<1>2. c \in Calls
  BY IdleCall, CallFields
<1>3. c.op = op /\ c.arg = arg
  BY SMT DEF Idle
<1>4. path \in Seq(Names) /\ Root \in Nodes /\ Null \in mounts \cup {Null}
  BY VfsAssumption
<1>5. /\ call' = Arrived(c, Root, Null, path) /\ mounts' = mounts
      /\ alive' = alive
  BY Zenon DEF Begin, mountVars, treeVars
<1>6. Root \in alive' /\ alive \subseteq alive'
  BY <1>1, <1>5, Zenon DEF DataInv, NodesInv
<1>7. /\ (c.op \in {"mknod", "unlink"} => c.arg \in Names)
      /\ (c.op \in {"mount", "umount"} /\ path = <<>> => Root = Root \/ parent'[Root] # Null)
  BY <1>3, Zenon
<1> HIDE DEF c
<1>8. call' \in Calls /\ CallInv'
  BY <1>1, <1>2, <1>4, <1>5, <1>6, <1>7, WalkInv, Zenon
<1> QED BY <1>1, <1>8, SplitInvNext, Zenon

LEMMA WalkFoundInv ==
    ASSUME VfsInv, WalkFound
    PROVE  VfsInv'
<1>1. DataInv /\ DataInv' /\ call \in Calls /\ CallInv
  BY SplitInv, DataSame, Zenon DEF WalkFound
<1>2. PICK n \in ChildNamed(call.at, Head(call.rest)) :
          call' = Arrived(call, n, call.mnt, Tail(call.rest))
  BY Zenon DEF WalkFound
<1>3. call # Idle /\ call.rest # <<>> /\ call.rest \in Seq(Names)
      /\ call.at \in alive /\ call.mnt \in mounts \cup {Null}
  BY <1>1, SMT DEF CallInv, WalkFound, Idle, Calls
<1>4. Tail(call.rest) \in Seq(Names)
  BY <1>3
<1>5. mounts' = mounts /\ alive' = alive /\ parent' = parent
  BY Zenon DEF WalkFound, mountVars, treeVars
<1>6. n \in Nodes /\ n \in alive' /\ parent'[n] # Null /\ alive \subseteq alive'
  BY <1>1, <1>2, <1>3, <1>5, VfsAssumption, SMT
     DEF ChildNamed, DataInv, DataType, TreeSound
<1>7. call.op \in {"mknod", "unlink"} => call.arg \in Names
  BY <1>1, Zenon DEF CallInv
<1>8. call' \in Calls /\ CallInv'
  BY <1>1, <1>2, <1>3, <1>4, <1>5, <1>6, <1>7, WalkInv, Zenon
<1> QED BY <1>1, <1>8, SplitInvNext, Zenon

LEMMA WalkCreateInv ==
    ASSUME VfsInv, WalkCreate
    PROVE  VfsInv'
<1>1. DataInv /\ call \in Calls /\ CallInv
  BY SplitInv, Zenon
<1> DEFINE nm == Head(call.rest)
           ty == IF call.op = "mkdir_p" THEN "DIR" ELSE KindOf(nm)
<1>2. PICK n \in Nodes \ alive :
          /\ AddNode(n, call.at, nm, ty)
          /\ call' = Arrived(call, n, call.mnt, Tail(call.rest))
  BY Zenon DEF WalkCreate
<1>3. call # Idle /\ call.rest # <<>> /\ call.rest \in Seq(Names)
      /\ call.at \in alive /\ call.mnt \in mounts \cup {Null}
  BY <1>1, SMT DEF CallInv, WalkCreate, Idle, Calls
<1>4. Tail(call.rest) \in Seq(Names) /\ nm \in Names
  BY <1>3
<1>5. ty \in {"DIR", "REG"}
  BY Zenon DEF KindOf
<1>6. /\ mounts' = mounts /\ alive \subseteq alive' /\ n \in alive'
      /\ parent'[n] # Null
  BY <1>1, <1>2, <1>3, VfsAssumption, SMT
     DEF WalkCreate, AddNode, mountVars, DataInv, DataType
<1>7. MayCreate(call.at, nm) /\ UNCHANGED <<mountVars, fs_types, fileVars>>
  BY Zenon DEF WalkCreate
<1> HIDE DEF nm, ty
<1>8. DataInv'
  BY <1>1, <1>2, <1>3, <1>4, <1>5, <1>7, AddNodeInv, VfsAssumption, Zenon
<1>9. call.op \in {"mknod", "unlink"} => call.arg \in Names
  BY <1>1, Zenon DEF CallInv
<1>10. n \in Nodes
  BY <1>2
<1>11. call' \in Calls /\ CallInv'
  BY <1>1, <1>2, <1>3, <1>4, <1>6, <1>9, <1>10, WalkInv, Zenon
<1> QED BY <1>8, <1>11, SplitInvNext, Zenon

\* Calls that only end.
LEMMA EndInv ==
    ASSUME VfsInv, WalkFails \/ Finish \/ LsEnd
    PROVE  VfsInv'
<1>1. Return /\ UNCHANGED <<treeVars, mountVars, fs_types, fileVars>>
  BY Zenon DEF WalkFails, Finish, LsEnd
<1>2. DataInv'
  BY <1>1, SplitInv, DataSame, Zenon
<1> QED BY <1>1, <1>2, ReturnInv, SplitInvNext, Zenon

-----------------------------------------------------------------------------
(* Nodes.                                                                  *)

LEMMA MknodInv ==
    ASSUME VfsInv, Mknod
    PROVE  VfsInv'
<1>1. DataInv /\ call \in Calls /\ CallInv
  BY SplitInv, Zenon
<1>2. PICK n \in Nodes \ alive : AddNode(n, call.at, call.arg, KindOf(call.arg))
  BY Zenon DEF Mknod
<1>3. call.at \in alive /\ call.arg \in Names
  BY <1>1, SMT DEF Mknod, CallInv, Idle
<1>4. KindOf(call.arg) \in {"DIR", "REG"}
  BY Zenon DEF KindOf
<1>5. /\ MayCreate(call.at, call.arg) /\ UNCHANGED <<mountVars, fs_types, fileVars>>
      /\ Return
  BY Zenon DEF Mknod
<1>6. DataInv'
  BY <1>1, <1>2, <1>3, <1>4, <1>5, AddNodeInv, VfsAssumption, Zenon
<1> QED BY <1>5, <1>6, ReturnInv, SplitInvNext, Zenon

LEMMA LsBeginInv ==
    ASSUME VfsInv, LsBegin
    PROVE  VfsInv'
<1>1. DataInv /\ DataInv' /\ call \in Calls /\ CallInv
  BY SplitInv, DataSame, Zenon DEF LsBegin
<1>2. call' = [call EXCEPT !.step = "iterate"] /\ "iterate" \in Steps
  BY Zenon DEF LsBegin, Steps
<1>3. call' \in Calls
  BY <1>1, <1>2, CallFields, Zenon
<1>4. CallInv'
  BY <1>1, <1>2, SMT DEF CallInv, Calls, Idle, LsBegin, treeVars, mountVars
<1> QED BY <1>1, <1>3, <1>4, SplitInvNext, Zenon

LEMMA LsEntryInv ==
    ASSUME VfsInv, NEW nm \in Names, LsEntry(nm)
    PROVE  VfsInv'
<1>1. DataInv /\ call \in Calls /\ CallInv
  BY SplitInv, Zenon
<1>2. PICK n \in Nodes \ alive : AddNode(n, call.at, nm, KindOf(nm))
  BY Zenon DEF LsEntry
<1>3. call.at \in alive
  BY <1>1, SMT DEF LsEntry, CallInv, Idle
<1>4. KindOf(nm) \in {"DIR", "REG"}
  BY Zenon DEF KindOf
<1>5. /\ MayCreate(call.at, nm) /\ UNCHANGED <<mountVars, fs_types, fileVars>>
      /\ call' = call /\ call.step = "iterate"
  BY Zenon DEF LsEntry
<1>6. DataInv'
  BY <1>1, <1>2, <1>3, <1>4, <1>5, AddNodeInv, VfsAssumption, Zenon
<1>7. call' \in Calls /\ CallInv'
  <2>1. alive \subseteq alive' /\ mounts' = mounts /\ (\A k \in alive : parent'[k] = parent[k])
    BY <1>1, <1>2, <1>5, SMT DEF AddNode, mountVars, DataInv, DataType
  <2> QED BY <1>1, <1>3, <1>5, <2>1, SMT DEF CallInv, Idle
<1> QED BY <1>6, <1>7, SplitInvNext, Zenon

LEMMA UnlinkInv ==
    ASSUME VfsInv, Unlink
    PROVE  VfsInv'
<1>1. DataInv /\ call \in Calls /\ CallInv
  BY SplitInv, Zenon
<1>2. PICK n \in ChildNamed(call.at, call.arg) :
          /\ Unlinkable(n)
          /\ FreeNodes({n})
          /\ child' = [child EXCEPT ![call.at] = @ \ {n}]
          /\ mnt' = [mnt EXCEPT ![n] = Null]
  BY Zenon DEF Unlink
<1>3. UNCHANGED <<mountVars, fs_types, fileVars>> /\ Return
  BY Zenon DEF Unlink
<1>4. call.at \in alive
  BY <1>1, SMT DEF Unlink, CallInv, Idle
<1>5. /\ n \in Nodes /\ n \in alive /\ parent[n] = call.at /\ child[n] = {}
      /\ n \in child[call.at] /\ call.at \in Nodes
      /\ \A f \in files : f.node # n
      /\ n # Root /\ (\A m \in mounts : mroot[m] # n)
      /\ \A k \in Nodes : parent[k] # n
  BY <1>1, <1>2, <1>4, VfsAssumption, SMT
     DEF DataInv, DataType, TreeSound, NodesInv, MountsSound, ChildNamed, Unlinkable,
         OpenNodes
<1> USE DEF DataInv
<1>6. DataType'
  BY <1>1, <1>2, <1>3, <1>5, SMT DEF DataType, FreeNodes, mountVars, fileVars
<1>7. OpenFilesAlive'
  BY <1>1, <1>2, <1>3, <1>5, SMT DEF OpenFilesAlive, DataType, FreeNodes, fileVars
<1>8. TreeSound'
  <2>1. \A q, c \in Nodes : (c \in child[q] <=> c \in alive /\ parent[c] = q)'
    BY <1>1, <1>2, <1>5, VfsAssumption, SMT DEF TreeSound, DataType, FreeNodes
  <2>2. \A k \in Nodes : (parent[k] # Null => parent[k] \in alive /\ type[parent[k]] = "DIR")'
    BY <1>1, <1>2, <1>5, SMT DEF TreeSound, DataType, FreeNodes
  <2>3. \A q \in alive' : \A c, d \in child'[q] : name'[c] = name'[d] => c = d
    <3>1. \A q \in alive' : q \in alive /\ child'[q] \subseteq child[q] /\ n \notin child'[q]
      BY <1>1, <1>2, <1>5, SMT DEF TreeSound, DataType, FreeNodes
    <3>2. \A c \in Nodes : c # n => name'[c] = name[c]
      BY <1>1, <1>2, SMT DEF DataType, FreeNodes
    <3> QED BY <1>1, <3>1, <3>2, SMT DEF TreeSound, DataType
  <2> QED BY <2>1, <2>2, <2>3, Zenon DEF TreeSound
<1>9. MountsSound'
  BY <1>1, <1>2, <1>3, <1>5, SMT DEF MountsSound, DataType, FreeNodes, mountVars
<1>10. FdsUnique'
  BY <1>1, <1>3, Zenon DEF FdsUnique, fileVars
<1>11. NodesInv'
  BY <1>1, <1>2, <1>5, SMT DEF NodesInv, DataType, FreeNodes
<1> QED
  BY <1>3, <1>6, <1>7, <1>8, <1>9, <1>10, <1>11, ReturnInv, SplitInvNext, Zenon

-----------------------------------------------------------------------------
(* Open files.                                                             *)

\* Where only files, descriptors and the call change, these decide.
LEMMA FilesChange ==
    ASSUME DataInv, UNCHANGED <<treeVars, mountVars>>,
           fs_types' \subseteq FsTypes,
           files' \subseteq [fd : Fds, node : Nodes, pos : Nat],
           next_fd' \in Fds \cup {Overflown}, io' \in Nat \X Nat,
           \A f \in files' : f.node \in alive /\ type[f.node] = "REG",
           \A f, g \in files' : f.fd = g.fd => f = g
    PROVE  DataInv'
BY SMT DEF DataInv, DataType, OpenFilesAlive, TreeSound, MountsSound, FdsUnique, NodesInv,
       treeVars, mountVars

LEMMA OpenInv ==
    ASSUME VfsInv, Open
    PROVE  VfsInv'
<1>1. DataInv /\ call \in Calls /\ CallInv
  BY SplitInv, Zenon
<1> DEFINE g(fd) == [fd |-> fd, node |-> call.at, pos |-> 0]
<1>2. PICK fd \in Fds : /\ Allocates(fd)
                        /\ next_fd' \in NextFds(fd)
                        /\ files' = files \cup {g(fd)} \/ files' = files
  BY Zenon DEF Open
<1>3. /\ UNCHANGED <<treeVars, mountVars>> /\ fs_types' = fs_types /\ io' = io /\ Return
      /\ type[call.at] # "DIR" /\ call.step = "body"
  BY Zenon DEF Open
<1>4. call.at \in alive
  BY <1>1, <1>3, SMT DEF CallInv, Idle
<1>5. call.at \in Nodes /\ type[call.at] = "REG"
  BY <1>1, <1>3, <1>4, SMT DEF DataInv, DataType, NodesInv
<1>6. next_fd' \in Fds \cup {Overflown}
  BY <1>2, VfsAssumption, SMT DEF NextFds, Fds
<1>7. g(fd) \in [fd : Fds, node : Nodes, pos : Nat] /\ g(fd).node = call.at /\ g(fd).fd = fd
  BY <1>2, <1>5
<1>8. \A f \in files : f.fd # fd
  BY <1>2, Zenon DEF Allocates, UsedFds
<1> HIDE DEF g
<1>9. /\ files' \subseteq [fd : Fds, node : Nodes, pos : Nat]
      /\ \A f \in files' : f.node \in alive /\ type[f.node] = "REG"
  BY <1>1, <1>2, <1>4, <1>5, <1>7, SMT DEF DataInv, DataType, OpenFilesAlive
<1>10. \A e, f \in files' : e.fd = f.fd => e = f
  <2>1. \A e, f \in files : e.fd = f.fd => e = f
    BY <1>1, Zenon DEF DataInv, FdsUnique
  <2> QED BY <1>2, <1>7, <1>8, <2>1, SMT
<1>11. fs_types' \subseteq FsTypes /\ io' \in Nat \X Nat
  BY <1>1, <1>3, Zenon DEF DataInv, DataType
<1>12. DataInv'
  BY <1>1, <1>3, <1>6, <1>9, <1>10, <1>11, FilesChange, Zenon
<1> QED BY <1>3, <1>12, ReturnInv, SplitInvNext, Zenon

LEMMA OpenNoFdInv ==
    ASSUME VfsInv, OpenNoFd
    PROVE  VfsInv'
<1>1. DataInv
  BY SplitInv, Zenon
<1>2. UNCHANGED <<treeVars, mountVars>> /\ fs_types' = fs_types /\ io' = io
      /\ files' = files /\ Return
  BY Zenon DEF OpenNoFd
<1>3. next_fd' \in Fds \cup {Overflown}
  BY <1>1, VfsAssumption, SMT DEF OpenNoFd, StartFd, Fds, Overflown, DataInv, DataType
<1>4. DataInv'
  BY <1>1, <1>2, <1>3, SMT DEF DataInv, DataType, OpenFilesAlive, TreeSound, MountsSound,
         FdsUnique, NodesInv, treeVars, mountVars
<1> QED BY <1>2, <1>4, ReturnInv, SplitInvNext, Zenon

\* Moving an open file's position.
LEMMA MovedFiles ==
    ASSUME DataInv, NEW f \in files, NEW pos \in Nat
    PROVE  /\ Moved(f, pos) \subseteq [fd : Fds, node : Nodes, pos : Nat]
           /\ \A e \in Moved(f, pos) : e.node \in alive /\ type[e.node] = "REG"
           /\ \A d, e \in Moved(f, pos) : d.fd = e.fd => d = e
<1> DEFINE g == [f EXCEPT !.pos = pos]
<1>1. f \in [fd : Fds, node : Nodes, pos : Nat]
  BY Zenon DEF DataInv, DataType
<1>2. g \in [fd : Fds, node : Nodes, pos : Nat] /\ g.fd = f.fd /\ g.node = f.node
  BY <1>1
<1>3. Moved(f, pos) = (files \ {f}) \cup {g}
  BY Zenon DEF Moved
<1> HIDE DEF g
<1> QED BY <1>2, <1>3, SMT DEF DataInv, DataType, OpenFilesAlive, FdsUnique

\* Calls on descriptors are over at once.
LEMMA FileCallInv ==
    ASSUME VfsInv, UNCHANGED <<treeVars, mountVars, fs_types, next_fd, call>>,
           io' \in Nat \X Nat,
           files' \subseteq [fd : Fds, node : Nodes, pos : Nat],
           \A f \in files' : f.node \in alive /\ type[f.node] = "REG",
           \A f, g \in files' : f.fd = g.fd => f = g
    PROVE  VfsInv'
<1>1. DataInv /\ call \in Calls /\ CallInv
  BY SplitInv, Zenon
<1>2. /\ UNCHANGED <<treeVars, mountVars>> /\ fs_types' \subseteq FsTypes
      /\ next_fd' \in Fds \cup {Overflown}
  BY <1>1, Zenon DEF DataInv, DataType
<1>3. DataInv'
  BY <1>1, <1>2, FilesChange, Zenon
<1>4. call' \in Calls /\ CallInv'
  BY <1>1, SMT DEF CallInv, treeVars, mountVars
<1> QED BY <1>3, <1>4, SplitInvNext, Zenon

LEMMA DescriptorInv ==
    ASSUME VfsInv, NEW f \in files,
           \/ Close(f)
           \/ \E len \in ReadLens : Read(f, len)
           \/ \E off \in Offsets : Seek(f, off)
    PROVE  VfsInv'
<1>1. /\ DataInv /\ io \in Nat \X Nat /\ f.pos \in Nat
      /\ files \subseteq [fd : Fds, node : Nodes, pos : Nat]
      /\ \A e \in files : e.node \in alive /\ type[e.node] = "REG"
      /\ \A d, e \in files : d.fd = e.fd => d = e
  BY SplitInv, SMT DEF DataInv, DataType, OpenFilesAlive, FdsUnique
<1>2. CASE Close(f)
  <2>1. files' \subseteq files /\ io' = io
        /\ UNCHANGED <<treeVars, mountVars, fs_types, next_fd, call>>
    BY <1>2, Zenon DEF Close
  <2>2. /\ files' \subseteq [fd : Fds, node : Nodes, pos : Nat]
        /\ \A e \in files' : e.node \in alive /\ type[e.node] = "REG"
        /\ \A d, e \in files' : d.fd = e.fd => d = e
    BY <1>1, <2>1, Zenon
  <2> QED BY <1>1, <2>1, <2>2, FileCallInv, Zenon
<1>3. CASE \E len \in ReadLens : Read(f, len)
  <2>1. PICK len \in ReadLens : Read(f, len)
    BY <1>3
  <2> DEFINE n == Clipped(f.pos, len)
  <2>2. n \in Nat
    BY <1>1, <2>1, VfsAssumption, SMT DEF Clipped
  <2>3. /\ io' = (IF n = 0 THEN io ELSE <<f.pos, f.pos + n>>)
        /\ files' = Moved(f, f.pos + n) \/ files' = files
        /\ UNCHANGED <<treeVars, mountVars, fs_types, next_fd, call>>
    BY <2>1, Zenon DEF Read
  <2> HIDE DEF n
  <2>4. io' \in Nat \X Nat
    BY <1>1, <2>2, <2>3, SMT
  <2>5. f.pos + n \in Nat
    BY <1>1, <2>2, SMT
  <2>6. /\ files' \subseteq [fd : Fds, node : Nodes, pos : Nat]
        /\ \A e \in files' : e.node \in alive /\ type[e.node] = "REG"
        /\ \A d, e \in files' : d.fd = e.fd => d = e
    <3>1. CASE files' = files
      BY <1>1, <3>1, Zenon
    <3>2. CASE files' = Moved(f, f.pos + n)
      BY <1>1, <2>5, <3>2, MovedFiles, Zenon
    <3> QED BY <2>3, <3>1, <3>2, Zenon
  <2> QED BY <2>3, <2>4, <2>6, FileCallInv, Zenon
<1>4. CASE \E off \in Offsets : Seek(f, off)
  <2>1. PICK off \in Offsets : Seek(f, off)
    BY <1>4
  <2>2. PICK base \in {0, f.pos} : base + off >= 0 /\ files' = Moved(f, base + off)
    BY <2>1, Zenon DEF Seek
  <2>3. base + off \in Nat
    BY <1>1, <2>1, <2>2, VfsAssumption, SMT
  <2>4. UNCHANGED <<treeVars, mountVars, fs_types, next_fd, call>> /\ io' = io
    BY <2>1, Zenon DEF Seek
  <2>5. /\ files' \subseteq [fd : Fds, node : Nodes, pos : Nat]
        /\ \A e \in files' : e.node \in alive /\ type[e.node] = "REG"
        /\ \A d, e \in files' : d.fd = e.fd => d = e
    BY <1>1, <2>2, <2>3, MovedFiles, Zenon
  <2> QED BY <1>1, <2>4, <2>5, FileCallInv, Zenon
<1> QED BY <1>2, <1>3, <1>4, Zenon

LEMMA RegisterInv ==
    ASSUME VfsInv, NEW t \in FsTypes, Register(t)
    PROVE  VfsInv'
<1>1. DataInv /\ call \in Calls /\ CallInv
  BY SplitInv, Zenon
<1>2. DataInv'
  BY <1>1, SMT DEF Register, DataInv, DataType, OpenFilesAlive, TreeSound, MountsSound,
         FdsUnique, NodesInv, treeVars, mountVars, fileVars
<1>3. call' \in Calls /\ CallInv'
  BY <1>1, SMT DEF Register, CallInv, treeVars, mountVars
<1> QED BY <1>2, <1>3, SplitInvNext, Zenon

-----------------------------------------------------------------------------
(* Mounts.                                                                 *)

LEMMA TryMountInv ==
    ASSUME VfsInv, TryMount
    PROVE  VfsInv'
<1>1. DataInv /\ call \in Calls /\ CallInv
  BY SplitInv, Zenon
<1> DEFINE step(t) == IF t \in WithSubdir THEN "subdir" ELSE "populate"
           todo(t) == IF t \in OnDemand THEN {} ELSE Partitions
<1>2. PICK t \in Candidates, m \in Mounts \ mounts, r \in Nodes \ alive :
          /\ mounts' = mounts \cup {m}
          /\ mroot' = [mroot EXCEPT ![m] = r]
          /\ mtype' = [mtype EXCEPT ![m] = t]
          /\ alive' = alive \cup {r}
          /\ name' = [name EXCEPT ![r] = None]
          /\ type' = [type EXCEPT ![r] = "DIR"]
          /\ call' = [call EXCEPT !.step = step(t), !.new = m, !.dir = r, !.todo = todo(t)]
  BY Zenon DEF TryMount
<1>3. UNCHANGED <<parent, child, mnt, fs_types, fileVars>>
  BY Zenon DEF TryMount
<1>4. t \in FsTypes
  BY <1>1, <1>2, SMT DEF Candidates, DataInv, DataType
<1>5. /\ call.step = "body" /\ call.op = "mount"
      /\ call.at \in alive /\ call.mnt \in mounts \cup {Null}
      /\ call.at = Root \/ parent[call.at] # Null
  BY <1>1, SMT DEF TryMount, CallInv, Idle
<1>6. step(t) \in Steps /\ todo(t) \in SUBSET Names /\ m \in MaybeMount /\ r \in MaybeNode
      /\ step(t) \in {"subdir", "populate"}
  BY <1>2, VfsAssumption, Zenon DEF Steps, MaybeMount, MaybeNode
<1> HIDE DEF step, todo
<1>7. call' \in Calls
  <2>1. [call EXCEPT !.step = step(t), !.new = m, !.dir = r, !.todo = todo(t)] \in Calls
    BY <1>1, <1>6, CallFields
  <2> QED BY <1>2, <2>1, Zenon
<1>8. /\ call'.step \in {"subdir", "populate"} /\ call'.new = m /\ call'.dir = r
      /\ call'.at = call.at /\ call'.mnt = call.mnt /\ call'.op = "mount"
  BY <1>1, <1>2, <1>5, <1>6, SMT DEF Calls
<1> USE DEF DataInv
<1>9. DataType'
  BY <1>1, <1>2, <1>3, <1>4, SMT DEF DataType, fileVars
<1>10. /\ parent[r] = Null /\ mnt[r] = Null /\ r # Root
       /\ \A p \in Nodes : r \notin child[p]
       /\ \A k \in mounts : mroot[k] # r
       /\ \A n \in Nodes : mnt[n] # m
       /\ \A f \in files : f.node # r
       /\ \A n \in Nodes : parent[n] # r
  BY <1>1, <1>2, VfsAssumption, SMT
     DEF DataType, TreeSound, MountsSound, NodesInv, OpenFilesAlive
<1>11. OpenFilesAlive'
  BY <1>1, <1>2, <1>3, <1>10, SMT DEF OpenFilesAlive, DataType, fileVars
<1>12. TreeSound'
  <2>1. child[r] = {}
    BY <1>1, <1>2, <1>10, SMT DEF TreeSound, DataType
  <2>2. \A q, c \in Nodes : (c \in child[q] <=> c \in alive /\ parent[c] = q)'
    BY <1>1, <1>2, <1>3, <1>10, VfsAssumption, SMT DEF TreeSound, DataType
  <2>3. \A k \in Nodes : (parent[k] # Null => parent[k] \in alive /\ type[parent[k]] = "DIR")'
    BY <1>1, <1>2, <1>3, SMT DEF TreeSound, DataType
  <2>4. \A q \in alive' : \A c, d \in child'[q] : name'[c] = name'[d] => c = d
    BY <1>1, <1>2, <1>3, <1>10, <2>1, SMT DEF TreeSound, DataType
  <2> QED BY <2>2, <2>3, <2>4, Zenon DEF TreeSound
<1>13. MountsSound'
  BY <1>1, <1>2, <1>3, <1>10, SMT DEF MountsSound, DataType
<1>14. FdsUnique'
  BY <1>1, <1>3, Zenon DEF FdsUnique, fileVars
<1>15. NodesInv'
  BY <1>1, <1>2, <1>3, <1>10, SMT DEF NodesInv, DataType
<1>16. CallInv'
  <2>1. type'[r] = "DIR"
    BY <1>1, <1>2, SMT DEF DataType
  <2>2. call' # Idle /\ call'.step # "idle" /\ call'.step # "walk"
    BY <1>8, SMT DEF Idle
  <2>3. call'.at \in alive' /\ call'.mnt \in mounts' \cup {Null} /\ call'.new \in mounts'
    BY <1>2, <1>5, <1>8, SMT
  <2>4. call'.dir \in alive' /\ type'[call'.dir] = "DIR" /\ \A n \in Nodes : mnt'[n] # call'.new
    BY <1>2, <1>3, <1>8, <1>10, <2>1, SMT
  <2>5. call'.at = Root \/ parent'[call'.at] # Null
    BY <1>3, <1>5, <1>8, Zenon
  <2> QED BY <1>8, <2>2, <2>3, <2>4, <2>5, SMT DEF CallInv
<1> QED
  BY <1>7, <1>9, <1>11, <1>12, <1>13, <1>14, <1>15, <1>16, SplitInvNext, Zenon

\* What the invariant says of a call that fills a new mount.
LEMMA FillingCall ==
    ASSUME VfsInv, call.step \in {"subdir", "populate"}
    PROVE  /\ call # Idle /\ call.at \in alive /\ call.mnt \in mounts \cup {Null}
           /\ call.op = "mount" /\ call.new \in mounts
           /\ call.at = Root \/ parent[call.at] # Null
           /\ call.dir \in alive /\ type[call.dir] = "DIR"
           /\ \A n \in Nodes : mnt[n] # call.new
BY SMT DEF VfsInv, CallInv, Idle

\* A filesystem that has added a node to its new mount, or nothing, goes on.
LEMMA FillingOn ==
    ASSUME VfsInv, call.step \in {"subdir", "populate"},
           call'.step = "populate", call'.op = call.op, call'.at = call.at,
           call'.mnt = call.mnt, call'.new = call.new,
           call'.dir \in alive', type'[call'.dir] = "DIR",
           alive \subseteq alive', mounts' = mounts, mnt' = mnt,
           \A k \in alive : parent'[k] = parent[k]
    PROVE  CallInv'
BY FillingCall, SMT DEF CallInv, Idle

LEMMA MakeSubdirInv ==
    ASSUME VfsInv, MakeSubdir
    PROVE  VfsInv'
<1>1. DataInv /\ call \in Calls /\ call.step = "subdir"
  BY SplitInv, Zenon DEF MakeSubdir
<1>2. PICK n \in Nodes \ alive :
          /\ AddNode(n, call.dir, Devices, "DIR")
          /\ call' = [call EXCEPT !.step = "populate", !.dir = n]
  BY Zenon DEF MakeSubdir
<1>3. /\ UNCHANGED <<mountVars, fs_types, fileVars>>
      /\ call.dir \in alive /\ type[call.dir] = "DIR"
  BY <1>1, FillingCall, Zenon DEF MakeSubdir
<1>4. call' \in Calls
  <2>1. "populate" \in Steps /\ n \in MaybeNode
    BY <1>2, Zenon DEF Steps, MaybeNode
  <2>2. [call EXCEPT !.step = "populate", !.dir = n] \in Calls
    BY <1>1, <2>1, CallFields
  <2> QED BY <1>2, <2>2, Zenon
<1>5. /\ call'.step = "populate" /\ call'.op = call.op /\ call'.at = call.at
      /\ call'.mnt = call.mnt /\ call'.new = call.new /\ call'.dir = n
  BY <1>1, <1>2, SMT DEF Calls
<1>6. MayCreate(call.dir, Devices)
  BY Zenon DEF MakeSubdir
<1>7. Devices \in Names /\ "DIR" \in {"DIR", "REG"}
  BY VfsAssumption, Zenon
<1>8. DataInv'
  BY <1>1, <1>2, <1>3, <1>6, <1>7, AddNodeInv, VfsAssumption, Zenon
<1>9. /\ call'.dir \in alive' /\ type'[call'.dir] = "DIR" /\ alive \subseteq alive'
      /\ mounts' = mounts /\ mnt' = mnt /\ (\A k \in alive : parent'[k] = parent[k])
  BY <1>1, <1>2, <1>3, <1>5, SMT DEF AddNode, DataInv, DataType, mountVars
<1>10. CallInv'
  BY <1>1, <1>5, <1>9, FillingOn, SMT
<1> QED BY <1>4, <1>8, <1>10, SplitInvNext, Zenon

LEMMA PopulateInv ==
    ASSUME VfsInv, NEW nm \in Names, Populate(nm)
    PROVE  VfsInv'
<1>1. DataInv /\ call \in Calls /\ call.step = "populate"
  BY SplitInv, Zenon DEF Populate
<1>2. /\ call' = [call EXCEPT !.todo = call.todo \ {nm}]
      /\ UNCHANGED <<mountVars, fs_types, fileVars>>
      /\ call.dir \in alive /\ type[call.dir] = "DIR"
  BY <1>1, FillingCall, SMT DEF Populate
<1>3. call' \in Calls
  <2>1. call.todo \in SUBSET Names
    BY <1>1, SMT DEF Calls
  <2>2. call.todo \ {nm} \in SUBSET Names
    BY <2>1, Zenon
  <2>3. [call EXCEPT !.todo = call.todo \ {nm}] \in Calls
    BY <1>1, <2>2, CallFields
  <2> QED BY <1>2, <2>3, Zenon
<1>4. /\ call'.step = "populate" /\ call'.op = call.op /\ call'.at = call.at
      /\ call'.mnt = call.mnt /\ call'.new = call.new /\ call'.dir = call.dir
  BY <1>1, <1>2, SMT DEF Calls
<1>5. CASE UNCHANGED treeVars
  <2>1. DataInv'
    BY <1>1, <1>2, <1>5, DataSame, Zenon
  <2>2. CallInv'
    BY <1>1, <1>2, <1>4, <1>5, FillingOn, SMT DEF treeVars, mountVars
  <2> QED BY <1>3, <2>1, <2>2, SplitInvNext, Zenon
<1>6. CASE ~UNCHANGED treeVars
  <2> DEFINE ty == IF mtype[call.new] \in WithSubdir THEN "DIR" ELSE "REG"
  <2>1. PICK n \in Nodes \ alive : AddNode(n, call.dir, nm, ty)
    BY <1>6, Zenon DEF Populate
  <2>2. MayCreate(call.dir, nm) /\ ty \in {"DIR", "REG"}
    BY <1>6, Zenon DEF Populate
  <2> HIDE DEF ty
  <2>3. DataInv'
    BY <1>1, <1>2, <2>1, <2>2, AddNodeInv, VfsAssumption, Zenon
  <2>4. /\ call'.dir \in alive' /\ type'[call'.dir] = "DIR" /\ alive \subseteq alive'
        /\ mounts' = mounts /\ mnt' = mnt /\ (\A k \in alive : parent'[k] = parent[k])
    BY <1>1, <1>2, <1>4, <2>1, SMT DEF AddNode, DataInv, DataType, mountVars
  <2>5. CallInv'
    BY <1>1, <1>4, <2>4, FillingOn, SMT
  <2> QED BY <1>3, <2>3, <2>5, SplitInvNext, Zenon
<1> QED BY <1>5, <1>6, Zenon

LEMMA SubdirFailsInv ==
    ASSUME VfsInv, SubdirFails
    PROVE  VfsInv'
<1>1. DataInv /\ call.step = "subdir"
  BY SplitInv, Zenon DEF SubdirFails
<1>2. call.new \in mounts /\ \A n \in Nodes : mnt[n] # call.new
  BY <1>1, FillingCall, Zenon
<1>3. DataInv'
  BY <1>1, <1>2, SMT DEF SubdirFails, DataInv, DataType, OpenFilesAlive, TreeSound,
         MountsSound, FdsUnique, NodesInv, treeVars, fileVars
<1>4. Return
  BY Zenon DEF SubdirFails
<1> QED BY <1>3, <1>4, ReturnInv, SplitInvNext, Zenon

LEMMA AttachInv ==
    ASSUME VfsInv, Attach
    PROVE  VfsInv'
<1>1. DataInv /\ call.step = "populate"
  BY SplitInv, Zenon DEF Attach
<1>2. /\ call.new \in mounts /\ call.at \in alive
      /\ call.at = Root \/ parent[call.at] # Null
      /\ \A n \in Nodes : mnt[n] # call.new
  BY <1>1, FillingCall, Zenon
<1>3. DataInv'
  BY <1>1, <1>2, SMT DEF Attach, DataInv, DataType, OpenFilesAlive, TreeSound,
         MountsSound, FdsUnique, NodesInv, mountVars, fileVars
<1>4. Return
  BY Zenon DEF Attach
<1> QED BY <1>3, <1>4, ReturnInv, SplitInvNext, Zenon

-----------------------------------------------------------------------------
(* Unmounting.                                                             *)

\* The nodes vfs_free_subtree(r) frees are closed under child lists ...
LEMMA SubtreeClosed ==
    ASSUME DataType, NEW r \in Nodes
    PROVE  r \in Subtree(r) /\ \A k \in Subtree(r) : child[k] \subseteq Subtree(r)
BY Zenon DEF DataType, Subtree

\* ... are allocated, and each but r was reached from its parent.
LEMMA SubtreeParents ==
    ASSUME DataInv, NEW r \in alive
    PROVE  /\ Subtree(r) \subseteq alive
           /\ \A n \in Subtree(r) : n = r \/ parent[n] \in Subtree(r)
<1>0. DataType /\ r \in Nodes /\ alive \subseteq Nodes
  BY Zenon DEF DataInv, DataType
<1>1. r \in Subtree(r) /\ \A k \in Subtree(r) : child[k] \subseteq Subtree(r)
  BY <1>0, SubtreeClosed, Zenon
<1>2. ASSUME NEW S \in SUBSET Nodes, r \in S, \A k \in S : child[k] \subseteq S
      PROVE  Subtree(r) \subseteq S
  BY <1>2, Zenon DEF Subtree
<1>3. Subtree(r) \subseteq Nodes
  BY Zenon DEF Subtree
<1>4. \A k \in alive : child[k] \subseteq alive
  BY <1>0, SMT DEF DataInv, DataType, TreeSound
<1>5. Subtree(r) \subseteq alive
  BY <1>0, <1>2, <1>4, Zenon
<1>6. ASSUME NEW n \in Subtree(r), n # r, parent[n] \notin Subtree(r)
      PROVE  FALSE
  <2> DEFINE S == Subtree(r) \ {n}
  <2>1. \A k \in S : child[k] \subseteq S
    BY <1>0, <1>1, <1>3, <1>6, SMT DEF DataInv, DataType, TreeSound
  <2>2. S \in SUBSET Nodes /\ r \in S
    BY <1>1, <1>3, <1>6, Zenon
  <2>3. Subtree(r) \subseteq S
    BY <1>2, <2>1, <2>2, Zenon
  <2> QED BY <1>6, <2>3, Zenon
<1> QED BY <1>5, <1>6, Zenon

\* Whatever is freed is under the root in the sense of vfs_node_under_root, so
\* the -EBUSY check has seen its open files.
LEMMA SubtreeUnderRoot ==
    ASSUME DataInv, NEW r \in alive, NEW n \in Subtree(r)
    PROVE  UnderRoot(n, r)
<1>0. r \in Nodes /\ n \in Nodes
  BY Zenon DEF DataInv, DataType, Subtree
<1>1. SUFFICES ASSUME NEW S \in SUBSET Nodes, n \in S,
                      \A k \in S : parent[k] # Null => parent[k] \in S,
                      r \notin S
               PROVE  FALSE
  BY Zenon DEF UnderRoot
<1> DEFINE T == Nodes \ S
<1>2. \A k \in T : child[k] \subseteq T
  BY <1>1, VfsAssumption, SMT DEF DataInv, DataType, TreeSound
<1>3. r \in T /\ T \in SUBSET Nodes
  BY <1>0, <1>1, Zenon
<1>4. n \in T
  BY <1>2, <1>3, Zenon DEF Subtree
<1> QED BY <1>1, <1>4, Zenon

LEMMA UmountInv ==
    ASSUME VfsInv, Umount
    PROVE  VfsInv'
<1> DEFINE m == mnt[call.at]
           r == mroot[m]
           gone == Subtree(r)
<1>1. DataInv /\ call \in Calls /\ CallInv
  BY SplitInv, Zenon
<1>2. /\ m # Null /\ ~Busy(m) /\ Detach(call.at, gone) /\ FreeNodes(gone)
      /\ child' = [n \in Nodes |-> IF n \in gone THEN {} ELSE child[n]]
      /\ mounts' = mounts \ {m}
      /\ mroot' = [mroot EXCEPT ![m] = Null]
      /\ mtype' = [mtype EXCEPT ![m] = None]
      /\ UNCHANGED <<fs_types, fileVars>> /\ Return
  BY Zenon DEF Umount
<1>3. call.at \in alive /\ call.at \in Nodes
  BY <1>1, SMT DEF Umount, CallInv, Idle, DataInv, DataType
<1>4. /\ m \in mounts /\ r \in alive /\ r # Root /\ parent[r] = Null
      /\ \A k \in mounts : k # m => mroot[k] # r
      /\ \A n \in Nodes : n # call.at => mnt[n] # m
  BY <1>1, <1>2, <1>3, SMT DEF DataInv, DataType, MountsSound
<1> HIDE DEF r
<1>5. /\ gone \subseteq alive /\ r \in gone
      /\ \A k \in gone : child[k] \subseteq gone
      /\ \A n \in gone : n = r \/ parent[n] \in gone
  <2>1. DataType /\ r \in Nodes
    BY <1>1, <1>4, Zenon DEF DataInv, DataType
  <2> QED BY <1>1, <1>4, <2>1, SubtreeClosed, SubtreeParents, Zenon
<1>6. \A f \in files : f.node \notin gone
  <2> SUFFICES ASSUME NEW f \in files, f.node \in gone
               PROVE  FALSE
    OBVIOUS
  <2>1. UnderRoot(f.node, r)
    BY <1>1, <1>4, SubtreeUnderRoot, Zenon
  <2> QED BY <1>2, <2>1, Zenon DEF Busy, OpenNodes, r
<1> HIDE DEF gone, m
<1>7. /\ Root \notin gone
      /\ \A k \in mounts : k # m => mroot[k] \notin gone
      /\ gone \subseteq Nodes
  BY <1>1, <1>4, <1>5, VfsAssumption, SMT DEF DataInv, DataType, NodesInv, MountsSound
<1> USE DEF DataInv
<1>8. DataType'
  BY <1>1, <1>2, <1>4, SMT DEF DataType, FreeNodes, Detach, fileVars
<1>9. OpenFilesAlive'
  BY <1>1, <1>2, <1>6, SMT DEF OpenFilesAlive, DataType, FreeNodes, fileVars
<1>10. TreeSound'
  <2>1. \A q, c \in Nodes : c \in child[q] => (q \in gone <=> c \in gone)
    BY <1>1, <1>4, <1>5, VfsAssumption, SMT DEF TreeSound, DataType
  <2>2. \A q, c \in Nodes : (c \in child[q] <=> c \in alive /\ parent[c] = q)'
    BY <1>1, <1>2, <2>1, VfsAssumption, SMT DEF TreeSound, DataType, FreeNodes
  <2>3. \A k \in Nodes : (parent[k] # Null => parent[k] \in alive /\ type[parent[k]] = "DIR")'
    BY <1>1, <1>2, <2>1, VfsAssumption, SMT DEF TreeSound, DataType, FreeNodes, NodesInv
  <2>4. \A q \in alive' : \A c, d \in child'[q] : name'[c] = name'[d] => c = d
    <3>1. \A q \in alive' : q \in alive /\ q \in Nodes /\ child'[q] = child[q]
      BY <1>1, <1>2, <1>7, SMT DEF DataType, FreeNodes
    <3>2. \A q \in alive' : \A c \in child[q] : c \in Nodes /\ name'[c] = name[c]
      BY <1>1, <1>2, <2>1, SMT DEF DataType, FreeNodes
    <3> QED BY <1>1, <3>1, <3>2, SMT DEF TreeSound
  <2> QED BY <2>2, <2>3, <2>4, Zenon DEF TreeSound
<1>11. MountsSound'
  BY <1>1, <1>2, <1>4, <1>7, SMT DEF MountsSound, DataType, FreeNodes, Detach
<1>12. FdsUnique'
  BY <1>1, <1>2, Zenon DEF FdsUnique, fileVars
<1>13. NodesInv'
  BY <1>1, <1>2, <1>7, SMT DEF NodesInv, DataType, FreeNodes
<1> QED
  BY <1>2, <1>8, <1>9, <1>10, <1>11, <1>12, <1>13, ReturnInv, SplitInvNext, Zenon

-----------------------------------------------------------------------------
LEMMA InitInv ==
    ASSUME Init
    PROVE  VfsInv
<1>1. DataInv
  BY VfsAssumption, SMT DEF Init, DataInv, DataType, OpenFilesAlive, TreeSound, MountsSound,
     FdsUnique, NodesInv, Fds
<1>2. call \in Calls /\ CallInv
  BY IdleCall, SMT DEF Init, CallInv, Idle
<1> QED BY <1>1, <1>2, SplitInv, Zenon

LEMMA StutterInv ==
    ASSUME VfsInv, UNCHANGED vars
    PROVE  VfsInv'
<1>1. DataInv /\ call \in Calls /\ CallInv
  BY SplitInv, Zenon
<1>2. UNCHANGED <<treeVars, mountVars, fs_types, fileVars>> /\ call' = call
  BY Zenon DEF vars
<1>3. DataInv'
  BY <1>1, <1>2, DataSame, Zenon
<1>4. call' \in Calls /\ CallInv'
  BY <1>1, <1>2, SMT DEF CallInv, treeVars, mountVars
<1> QED BY <1>3, <1>4, SplitInvNext, Zenon

LEMMA ClientInv ==
    ASSUME VfsInv, Client
    PROVE  VfsInv'
<1>1. ASSUME NEW path \in Paths, NEW arg \in {None} \cup FsTypes \cup {AutoDetect},
             NEW op \in {"mkdir_p", "umount", "ls", "open", "mount"}, Begin(op, path, arg)
      PROVE  VfsInv'
  <2>1. op \in Ops \ {"none"} /\ arg \in Args /\ ~(op \in {"mknod", "unlink"})
    BY <1>1, SMT DEF Ops, Args
  <2> QED BY <1>1, <2>1, BeginInv, Zenon
<1>2. ASSUME NEW path \in Paths, NEW nm \in Names, NEW op \in {"mknod", "unlink"},
             Begin(op, path, nm)
      PROVE  VfsInv'
  <2>1. op \in Ops \ {"none"} /\ nm \in Args
    BY <1>2, SMT DEF Ops, Args
  <2> QED BY <1>2, <2>1, BeginInv, Zenon
<1>3. ASSUME NEW t \in FsTypes, Register(t)
      PROVE  VfsInv'
  BY <1>3, RegisterInv, Zenon
<1>4. ASSUME NEW f \in files,
             Close(f) \/ (\E len \in ReadLens : Read(f, len))
                      \/ (\E off \in Offsets : Seek(f, off))
      PROVE  VfsInv'
  BY <1>4, DescriptorInv, Zenon
<1> QED BY <1>1, <1>2, <1>3, <1>4, Zenon DEF Client

\* A step of the VFS preserves the invariant: one lemma per action.
LEMMA NextInv ==
    ASSUME VfsInv, [Next]_vars
    PROVE  VfsInv'
<1>1. CASE Client
  BY <1>1, ClientInv, Zenon
<1>2. CASE Walk
  BY <1>2, WalkFoundInv, WalkCreateInv, EndInv, Zenon DEF Walk
<1>3. CASE Body
  BY <1>3, EndInv, MknodInv, UnlinkInv, OpenInv, OpenNoFdInv, UmountInv, LsBeginInv, LsEntryInv,
     TryMountInv, MakeSubdirInv, SubdirFailsInv, PopulateInv, AttachInv, Zenon DEF Body
<1>4. CASE UNCHANGED vars
  BY <1>4, StutterInv, Zenon
<1> QED BY <1>1, <1>2, <1>3, <1>4, Zenon DEF Next

\* The VFS invariant holds in every state, whatever the nodes, mounts, names,
\* paths and filesystem types are.
THEOREM VfsInvariance == Spec => []VfsInv
BY InitInv, NextInv, PTL DEF Spec

\* vfs_alloc_node, vfs_mount, vfs_open and the rest keep every variable in its
\* type.
THEOREM VfsTypeCorrect == Spec => []TypeOK
<1>1. VfsInv => TypeOK
  BY Zenon DEF VfsInv
<1> QED BY <1>1, VfsInvariance, PTL

\* vfs_unlink and vfs_umount never free a node some open file points to.
THEOREM NoUseAfterFree == Spec => []OpenFilesAlive
<1>1. VfsInv => OpenFilesAlive
  BY Zenon DEF VfsInv
<1> QED BY <1>1, VfsInvariance, PTL

\* vfs_create_node, vfs_unlink and vfs_free_subtree keep child lists and parent
\* pointers in agreement and siblings' names different.
THEOREM TreeStaysSound == Spec => []TreeSound
<1>1. VfsInv => TreeSound
  BY Zenon DEF VfsInv
<1> QED BY <1>1, VfsInvariance, PTL

\* vfs_mount, vfs_umount and vfs_unlink leave no mount pointer to freed memory
\* and no mount whose root is covered or shared.
THEOREM MountsStaySound == Spec => []MountsSound
<1>1. VfsInv => MountsSound
  BY Zenon DEF VfsInv
<1> QED BY <1>1, VfsInvariance, PTL

\* vfs_alloc_fd never hands out a descriptor that is in use, for every INT_MAX
\* and also after the counter has wrapped.
THEOREM DescriptorsUnique == Spec => []FdsUnique
<1>1. VfsInv => FdsUnique
  BY Zenon DEF VfsInv
<1> QED BY <1>1, VfsInvariance, PTL

-----------------------------------------------------------------------------
\* Nothing but a read moves the bounds of the last transfer.
LEMMA OnlyReadsTransfer ==
    ASSUME [Next]_vars
    PROVE  io' = io \/ \E f \in files, len \in ReadLens : Read(f, len)
<1>1. CASE Client
  <2>1. ASSUME NEW op, NEW path, NEW arg, Begin(op, path, arg) PROVE io' = io
    BY <2>1, Zenon DEF Begin, fileVars
  <2>2. ASSUME NEW t, Register(t) PROVE io' = io
    BY <2>2, Zenon DEF Register, fileVars
  <2>3. ASSUME NEW f \in files, Close(f) \/ \E off \in Offsets : Seek(f, off) PROVE io' = io
    BY <2>3, Zenon DEF Close, Seek
  <2> QED BY <1>1, <2>1, <2>2, <2>3, Zenon DEF Client
<1>2. CASE Walk
  BY <1>2, Zenon DEF Walk, WalkFound, WalkCreate, WalkFails, fileVars
<1>3. CASE Body
  BY <1>3, Zenon DEF Body, Finish, Mknod, Unlink, Open, OpenNoFd, Umount, LsBegin, LsEntry,
     LsEnd, TryMount, MakeSubdir, SubdirFails, Populate, Attach, fileVars
<1>4. CASE UNCHANGED vars
  BY <1>4, Zenon DEF vars, fileVars
<1> QED BY <1>1, <1>2, <1>3, <1>4, Zenon DEF Next

\* sgpart_read's bounds keep a transfer inside the partition, from every
\* position vfs_lseek can set.
LEMMA ReadInside ==
    ASSUME VfsInv, ReadsInside, NEW f \in files, NEW len \in ReadLens, Read(f, len)
    PROVE  ReadsInside'
<1>1. f.pos \in Nat /\ len \in Nat /\ FileSize \in Nat
  BY VfsAssumption, SMT DEF VfsInv, TypeOK
<1>2. Clipped(f.pos, len) \in Nat /\ (Clipped(f.pos, len) = 0 \/ f.pos + Clipped(f.pos, len) <= FileSize)
  BY <1>1, SMT DEF Clipped
<1> QED BY <1>1, <1>2, SMT DEF Read, ReadsInside

\* The whole of NamespaceSound: what the nodes, mounts and descriptors point to
\* is there, and reads end where partitions do.
THEOREM NamespaceStaysSound == Spec => []NamespaceSound
<1>1. Init => VfsInv /\ ReadsInside
  BY InitInv, VfsAssumption, SMT DEF Init, ReadsInside
<1>2. VfsInv /\ ReadsInside /\ [Next]_vars => (VfsInv /\ ReadsInside)'
  <2> SUFFICES ASSUME VfsInv, ReadsInside, [Next]_vars PROVE ReadsInside'
    BY NextInv, Zenon
  <2>1. CASE io' = io
    BY <2>1, Zenon DEF ReadsInside
  <2>2. CASE \E f \in files, len \in ReadLens : Read(f, len)
    BY <2>2, ReadInside, Zenon
  <2> QED BY <2>1, <2>2, OnlyReadsTransfer, Zenon
<1>3. VfsInv /\ ReadsInside => NamespaceSound
  BY Zenon DEF VfsInv, NamespaceSound
<1> QED BY <1>1, <1>2, <1>3, PTL DEF Spec
=============================================================================
