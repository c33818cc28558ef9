---------------------------- MODULE MountTable ----------------------------
(***************************************************************************)
(* How a user's points become one tree, and how paths find their way in    *)
(* it: normalize_vfs_users of crates/ipc/src/server.rs accepts a           *)
(* configuration, create_for_vfs of store.rs and VfsBuilder of             *)
(* crates/opendal-vfs/src/layers/vfs.rs mount the points that load, and    *)
(* MountAccess (with lib.rs, lister.rs, deleter.rs and read_only.rs) and   *)
(* the resolvers of utils.rs and server.rs route requests.                 *)
(*                                                                         *)
(* A path is a sequence of segments.  A segment is a text and the suffixes *)
(* normalize_vfs_users may have appended to it, so that "a" followed by    *)
(* "-<id>" is another name than "a" and begins with it.                    *)
(***************************************************************************)
EXTENDS Integers, SequencesExt, Filters

CONSTANTS Ids,        \* point ids, in the order of the configuration (a sequence)
          Twins,      \* ids whose shortened texts are the same
          PrefixLens, \* bound: lengths an id is shortened to; the last is the whole id
          Texts,      \* names clients give to points
          Files,      \* names of files
          MaxOpPoints \* bound: points of a configuration whose files are operated on

Seg(text) == [text |-> text, sfx |-> <<>>]

\* "<name>-<id>" with the k-th length of the id; beyond the last one, the whole id
\* and a counter.
Suffixed(name, id, k) ==
  [name EXCEPT !.sfx = Append(@, [id |-> IF k < PrefixLens /\ id \in Twins THEN "twin" ELSE id,
                                  k |-> k])]

ASSUME MountAssumption ==
  /\ Ids \in Seq(STRING) /\ \A i, j \in DOMAIN Ids : Ids[i] = Ids[j] => i = j
  /\ Twins \subseteq Range(Ids) /\ {"twin", "none"} \cap Range(Ids) = {}
  /\ PrefixLens \in Nat \ {0} /\ MaxOpPoints \in Nat
  /\ Texts \subseteq STRING /\ Files \subseteq STRING

Empty == Seg("")
Dot == Seg(".")
Up == Seg("..")
\* Names clients send: plain ones, illegal ones, and ones that look assigned.
SentNames == {Seg(t) : t \in Texts} \cup {Empty, Up}
             \cup {Suffixed(Seg(t), id, 1) : t \in Texts, id \in Range(Ids)}

\* A data point on a writable local, a read-only local or a remote backend, or a repo.
Kinds == {"local", "read_only", "remote", "repo"}
IsRepo(p) == p.kind = "repo"

None == "none"
NoOp == [kind |-> None, pc |-> "idle"]

VARIABLES phase,   \* "draft", "accepted", "built", "serving" or "build_failed"
          points,  \* the points accepted so far; once accepted, the configuration
          names,   \* `names` of normalize_vfs_users: <<is_repo, name>>
          mounts,  \* the mount table: mount path -> [id, read_only, layer]
          store,   \* store[id][f]: the content of a file of point id
          op       \* the operation under way on the tree

configVars == <<points, names, mounts>>
vars == <<phase, configVars, store, op>>

InitStore == [id \in Range(Ids) |-> [f \in Files |-> id]]

Init ==
  /\ phase = "draft"
  /\ points = <<>> /\ names = {}
  /\ mounts = [m \in {} |-> None]
  /\ store = InitStore
  /\ op = NoOp

-----------------------------------------------------------------------------
(* normalize_vfs_users *)

Legal(name) == name \notin {Empty, Dot, Up}

\* Mutant: a rejected configuration leaves its names behind.
RejectKeepsNames(name) ==
  /\ phase = "draft" /\ ~Legal(name) /\ points # <<>>
  /\ points' = <<>>
  /\ UNCHANGED <<phase, names, mounts, store, op>>

\* The configuration is rejected as a whole.
Reject(name) ==
  /\ phase = "draft" /\ ~Legal(name) /\ points # <<>>
  /\ points' = <<>> /\ names' = {}
  /\ UNCHANGED <<phase, mounts, store, op>>

\* Mutant: an assigned name is not entered into `names`.
AcceptUnrecorded(name, kind) ==
  LET id == Ids[Len(points) + 1]
      repo == kind = "repo"
      free(k) == <<repo, Suffixed(name, id, k)>> \notin names
      k == CHOOSE i \in 1 .. PrefixLens + Len(points) :
             free(i) /\ \A j \in 1 .. i - 1 : ~free(j)
      assigned == IF <<repo, name>> \notin names THEN name ELSE Suffixed(name, id, k)
  IN
  /\ phase = "draft" /\ Len(points) < Len(Ids) /\ Legal(name)
  /\ points' = Append(points, [id |-> id, name |-> assigned, kind |-> kind])
  /\ names' = names \cup {<<repo, name>>}
  /\ UNCHANGED <<phase, mounts, store, op>>

\* The next point of the list: a name already taken in its namespace gets the first
\* suffix that is free.
Accept(name, kind) ==
  LET id == Ids[Len(points) + 1]
      repo == kind = "repo"
      free(k) == <<repo, Suffixed(name, id, k)>> \notin names
      k == CHOOSE i \in 1 .. PrefixLens + Len(points) :
             free(i) /\ \A j \in 1 .. i - 1 : ~free(j)
      assigned == IF <<repo, name>> \notin names THEN name ELSE Suffixed(name, id, k)
  IN
  /\ phase = "draft" /\ Len(points) < Len(Ids) /\ Legal(name)
  /\ points' = Append(points, [id |-> id, name |-> assigned, kind |-> kind])
  /\ names' = names \cup {<<repo, assigned>>}
  /\ UNCHANGED <<phase, mounts, store, op>>

Commit ==
  /\ phase = "draft"
  /\ phase' = "accepted"
  /\ UNCHANGED <<configVars, store, op>>

-----------------------------------------------------------------------------
(* create_for_vfs and VfsBuilder *)

RootOf(p) == Seg(IF IsRepo(p) THEN "repos" ELSE "points")
PointMountPath(p) == <<RootOf(p), p.name>>

IsUserWritable(p) == p.kind = "local"

\* Mutant: a remote point is mounted without the read-only layer.
MountForgetful(p) == [id |-> p.id, read_only |-> IsRepo(p),
                      layer |-> p.kind \in {"read_only", "repo"}]

\* build_mount, with mount_operator's layer, and the builder's own flag for repos.
Mount(p) == [id |-> p.id, read_only |-> IsRepo(p), layer |-> ~IsUserWritable(p)]

\* create_for_vfs hands the points whose probe succeeds to the builder.
Pending(loaded) == {points[i] : i \in {j \in DOMAIN points : points[j].id \in loaded}}

\* VfsBuilder::build: two mounts at one path are an error.
Build(loaded) ==
  LET at(m) == {p \in Pending(loaded) : PointMountPath(p) = m}
      paths == {PointMountPath(p) : p \in Pending(loaded)}
  IN
  /\ phase = "accepted"
  /\ loaded \subseteq {points[i].id : i \in DOMAIN points}
  /\ IF \E m \in paths : \E p, q \in at(m) : p # q
     THEN phase' = "build_failed" /\ UNCHANGED mounts
     ELSE /\ phase' = "built"
          /\ mounts' = [m \in paths |-> Mount(CHOOSE p \in at(m) : TRUE)]
  /\ UNCHANGED <<points, names, store, op>>

-----------------------------------------------------------------------------
(* MountAccess: resolve_path, stat and list *)

\* Mutant: the mount path is compared as text, without the '/' after it.
OwnsByText(m, path) ==
  /\ Len(path) >= Len(m)
  /\ SubSeq(path, 1, Len(m) - 1) = SubSeq(m, 1, Len(m) - 1)
  /\ path[Len(m)].text = m[Len(m)].text /\ IsPrefix(m[Len(m)].sfx, path[Len(m)].sfx)

\* `path` is the mount path or below it.
Owns(m, path) == IsPrefix(m, path)

\* resolve_path: the most specific mount that owns the path, and the rest of it.
NoRoute == [id |-> None, rest |-> <<>>]
Owner(path) ==
  LET owners == {m \in DOMAIN mounts : Owns(m, path)} IN
  IF owners = {} THEN <<>>
  ELSE CHOOSE m \in owners : \A n \in owners : Len(n) <= Len(m)
ResolvePath(path) ==
  IF Owner(path) = <<>> THEN NoRoute
  ELSE [id |-> mounts[Owner(path)].id, rest |-> SubSeq(path, Len(Owner(path)) + 1, Len(path))]

\* Mutant: the stripped prefix lacks its '/', which leaves an empty next segment.
VirtualChildrenStray(path) ==
  {IF path = <<>> THEN m[1] ELSE Empty : m \in {n \in DOMAIN mounts : IsStrictPrefix(path, n)}}

\* virtual_children: the next segments of the mounts below an unmounted directory.
VirtualChildren(path) ==
  {m[Len(path) + 1] : m \in {n \in DOMAIN mounts : IsStrictPrefix(path, n)}}

Exists(id, f) == f \in Files /\ store[id][f] # None
FileOf(rest) == rest[1].text

\* MountAccess::metadata
Stat(path) ==
  LET route == ResolvePath(path) IN
  CASE route # NoRoute /\ route.rest = <<>> -> "dir"
    [] route # NoRoute /\ route.rest # <<>> ->
         IF Len(route.rest) = 1 /\ Exists(route.id, FileOf(route.rest)) THEN "file" ELSE "not_found"
    [] OTHER -> IF path = <<>> \/ VirtualChildren(path) # {} THEN "dir" ELSE "not_found"

\* MountLister: the mount's path is put before the entries of its backend.
MountLister(m, rest) ==
  {Append(m, Seg(f)) : f \in {g \in Files : rest = <<>> /\ Exists(mounts[m].id, g)}}

\* MountAccess::list
List(path) ==
  LET route == ResolvePath(path) IN
  IF route = NoRoute
  THEN {Append(path, c) : c \in VirtualChildren(path)}
  ELSE MountLister(Owner(path), route.rest)

-----------------------------------------------------------------------------
(* The resolvers of utils.rs and server.rs *)

\* validate_relative_point_path: "" and "." are dropped, ".." is refused.
Refused(raw) == Up \in Range(raw)
Validated(raw) == Without(raw, {Empty, Dot})

\* find_point: the first point of the name and kind.
FindPoint(name, repo) ==
  LET hits == {i \in DOMAIN points : points[i].name = name /\ IsRepo(points[i]) = repo} IN
  IF hits = {} THEN None ELSE points[CHOOSE i \in hits : \A j \in hits : i <= j].id
PointById(id) == points[CHOOSE i \in DOMAIN points : points[i].id = id]

\* splitn(3, '/') on a path without its leading slashes: root, name and rest.
TrimStart(raw) ==
  LET solid == {i \in DOMAIN raw : raw[i] # Empty} IN
  IF solid = {} THEN <<>> ELSE SubSeq(raw, CHOOSE i \in solid : \A j \in solid : i <= j, Len(raw))
Split(raw, roots) ==
  LET parts == TrimStart(raw)
      rest == SubSeq(parts, 3, Len(parts))
  IN
  IF Len(parts) < 2 \/ Refused(rest) THEN NoRoute
  ELSE IF parts[1] \notin roots \/ parts[2] = Empty THEN NoRoute
  ELSE LET id == FindPoint(parts[2], parts[1] = Seg("repos"))
       IN IF id = None THEN NoRoute ELSE [id |-> id, rest |-> Validated(rest)]

\* resolve_point_path, and resolve_data_file_path for a virtual path.
ResolvePointPath(path) == Split(path, {Seg("points"), Seg("repos")})
ResolveDataFilePath(raw) == Split(raw, {Seg("points")})

\* resolve_file_path: a request names a virtual path, or a point and a path in it.
Requests(raws, rests) ==
  [virtual : {TRUE}, id : {None}, raw : raws]
  \cup [virtual : {FALSE}, id : {points[i].id : i \in DOMAIN points}, raw : rests]
ResolveFilePath(q) ==
  IF q.virtual THEN Validated(q.raw)
  ELSE PointMountPath(PointById(q.id)) \o Validated(q.raw)

-----------------------------------------------------------------------------
(* Operations on the tree.  The handlers of server.rs check first that the user may *)
(* write (require_user_write), against the configuration they read, which SetVfs    *)
(* may have replaced since: here any operation is tried.                            *)

Serve ==
  /\ phase = "built" /\ Len(points) <= MaxOpPoints
  /\ phase' = "serving"
  /\ UNCHANGED <<configVars, store, op>>

Mounted(id) == mounts[PointMountPath(PointById(id))]
CanMount == {id \in Range(Ids) : \E m \in DOMAIN mounts : mounts[m].id = id}
Locations == CanMount \X Files

\* write, create_dir and delete resolve the path and ask the mount's flag; copy asks
\* the target's, rename both.
Allowed(kind, from, to) ==
  /\ ~Mounted(to[1]).read_only
  /\ kind = "rename" => ~Mounted(from[1]).read_only

\* ReadOnlyService refuses whatever changes its backend.
Denied(at) == Mounted(at[1]).layer

\* Copy and rename go to the backend when it is one mount and the backend can; the
\* operator refuses to do so from a path to itself.
StartOp(kind, from, to) ==
  /\ phase = "serving" /\ op = NoOp
  /\ from = to <=> kind \in {"write", "delete"}
  /\ Allowed(kind, from, to)
  /\ \E native \in BOOLEAN :
       /\ native => from[1] = to[1] /\ kind \in {"copy", "rename"}
       /\ op' = [kind |-> kind, from |-> from, to |-> to, old |-> store[from[1]][from[2]],
                 pc |-> CASE native -> "native"
                          [] ~native /\ kind \in {"copy", "rename"} -> "read"
                          [] OTHER -> kind]
  /\ UNCHANGED <<phase, configVars, store>>

Put(at, c) == store' = [store EXCEPT ![at[1]][at[2]] = c]
OpGoto(label) == op' = [op EXCEPT !.pc = label]

\* Any call to the backend may fail.
Fail ==
  /\ op.pc \notin {"idle", "done"}
  /\ OpGoto("done")
  /\ UNCHANGED <<phase, configVars, store>>

\* The backend's own copy or rename; the layer denies both.
Native ==
  /\ op.pc = "native" /\ ~Denied(op.from)
  /\ op.old # None
  /\ LET written == [store EXCEPT ![op.to[1]][op.to[2]] = op.old] IN
     store' = IF op.kind = "rename" THEN [written EXCEPT ![op.from[1]][op.from[2]] = None]
              ELSE written
  /\ OpGoto("done")
  /\ UNCHANGED <<phase, configVars>>

\* Mutant: the emulated rename deletes the source before it writes the target.
ReadDeletes ==
  /\ op.pc = "read" /\ op.old # None
  /\ IF op.kind = "rename" THEN Put(op.from, None) ELSE UNCHANGED store
  /\ OpGoto("write")
  /\ UNCHANGED <<phase, configVars>>

\* Reading is allowed on every mount.
Read ==
  /\ op.pc = "read" /\ op.old # None
  /\ OpGoto("write")
  /\ UNCHANGED <<phase, configVars, store>>

\* The write: done, or torn; the layer denies it.
Write ==
  /\ op.pc = "write" /\ ~Denied(op.to)
  /\ \/ /\ Put(op.to, IF op.kind = "write" THEN "new" ELSE op.old)
        /\ OpGoto(IF op.kind = "rename" THEN "delete" ELSE "done")
     \/ /\ Put(op.to, "torn")
        /\ OpGoto("done")
  /\ UNCHANGED <<phase, configVars>>

\* The delete, of its own or at the end of an emulated rename.
Delete ==
  /\ op.pc = "delete" /\ ~Denied(op.from)
  /\ Put(op.from, None)
  /\ OpGoto("done")
  /\ UNCHANGED <<phase, configVars>>

EndOp ==
  /\ op.pc = "done"
  /\ op' = NoOp
  /\ UNCHANGED <<phase, configVars, store>>

Next ==
  \/ \E name \in SentNames : Reject(name) \/ \E kind \in Kinds : Accept(name, kind)
  \/ Commit
  \/ \E loaded \in SUBSET Range(Ids) : Build(loaded)
  \/ Serve
  \/ \E kind \in {"write", "delete", "copy", "rename"}, from, to \in Locations :
       StartOp(kind, from, to)
  \/ Fail \/ Native \/ Read \/ Write \/ Delete \/ EndOp

Spec == Init /\ [][Next]_vars

-----------------------------------------------------------------------------
(* Properties *)

TypeOK ==
  /\ phase \in {"draft", "accepted", "built", "serving", "build_failed"}
  /\ \A i \in DOMAIN points : points[i].id = Ids[i] /\ points[i].kind \in Kinds
  /\ \A n \in names : n[1] \in BOOLEAN
  /\ points = <<>> => names = {}
  /\ \A m \in DOMAIN mounts : \E i \in DOMAIN points : /\ PointMountPath(points[i]) = m
                                                      /\ mounts[m] = Mount(points[i])
  /\ store \in [Range(Ids) -> [Files -> Range(Ids) \cup {None, "new", "torn"}]]
  /\ op.kind \in {None, "write", "delete", "copy", "rename"}

\* A configuration that normalize_vfs_users accepts always builds: the names it
\* leaves or assigns are different, whatever names clients chose, assigned-looking
\* ones included, and however alike the ids are.  Otherwise one collision would
\* make every request of the user fail.
BuildNeverFails == phase # "build_failed"

\* Spellings of a path that clients send.
Spellings(path) ==
  {path, <<Empty>> \o path, path \o <<Empty>>, <<Dot>> \o path, path \o <<Up>>}
  \cup {<<Head(path), s>> \o Tail(path) : s \in {x \in {Dot, Empty} : path # <<>>}}

Roots == {Seg("points"), Seg("repos")}
Rests == {<<>>} \cup {<<Seg(f)>> : f \in Files}
PointNames == {points[i].name : i \in DOMAIN points}
Raws == (UNION {Spellings(<<r, n>> \o x) : r \in Roots, n \in SentNames \cup PointNames,
                                           x \in Rests})
        \cup (UNION {Spellings(<<r>>) : r \in Roots}) \cup Spellings(<<>>)

\* Read and write handles find a file with resolve_point_path, the mounted tree with
\* resolve_path, backup and restore with resolve_data_file_path, each by other rules.
\* For every spelling of a virtual or indexed path that is not refused: the resolvers
\* reach the same point and the same path in it; a point that did not load is not
\* served by another's mount; and the path, which keys the read handles, is the one
\* canonical path of the file.
RoutesAgree ==
  phase = "built" =>
    \A q \in Requests(Raws, UNION {Spellings(x) : x \in Rests}) :
      ~Refused(q.raw) =>
        LET path == ResolveFilePath(q)
            route == ResolvePointPath(path)
        IN
        /\ ResolvePath(path) = IF route.id \in CanMount THEN route ELSE NoRoute
        /\ route # NoRoute => path = PointMountPath(PointById(route.id)) \o route.rest
        /\ ~q.virtual => route.id = q.id
        /\ q.virtual /\ ResolveDataFilePath(q.raw) # NoRoute => ResolveDataFilePath(q.raw) = route

\* Whoever walks the tree from its root finds every mount that loaded and every file,
\* and nothing else: what a directory lists can be looked up, and what can be looked
\* up is listed by its directory.
TreeIsWalkable ==
  phase = "built" =>
    LET dirs == {<<>>} \cup {<<r>> : r \in Roots} \cup DOMAIN mounts
        paths == {<<r>> : r \in Roots} \cup {<<r, n>> : r \in Roots, n \in PointNames}
                 \cup {Append(m, Seg(f)) : m \in DOMAIN mounts, f \in Files}
    IN /\ \A d \in dirs : \A e \in List(d) : Stat(e) # "not_found"
       /\ \A e \in paths : Stat(e) # "not_found" <=> e \in List(Front(e))

\* Repositories, remote and read-only points are never changed through the tree, by
\* any operation between any two mounts, whatever a handler believed the user may do.
ReadOnlyKept ==
  \A i \in DOMAIN points :
    ~IsUserWritable(points[i]) => store[points[i].id] = InitStore[points[i].id]

\* A rename the tree emulates keeps the file at one of its two places, wherever
\* it fails.
RenameKeepsData ==
  op.kind = "rename" => op.old \in {store[op.from[1]][op.from[2]], store[op.to[1]][op.to[2]]}
=============================================================================
