---------------------------- MODULE KeyRotation ----------------------------
(***************************************************************************)
(* SetVfs (crates/ipc/src/server.rs set_vfs) and the repository passwords: *)
(* a repo point that keeps its id and storage target and gets a new        *)
(* password has its key rotated inside the repository, in two phases       *)
(* around the commit of the configuration (store.rs add_repo_key,          *)
(* remove_old_repo_key).  Backups and VFS builds open, and create,         *)
(* repositories with the password they read earlier.                       *)
(*                                                                         *)
(* A key is the password it was made for.  What SetVfs does to the caches, *)
(* the handles and the quota counters is in VfsCache, WriteHandles and     *)
(* QuotaEngine.                                                            *)
(***************************************************************************)
EXTENDS FiniteSets

CONSTANTS Points,     \* points, told apart by user and point id
          Targets,    \* storage targets: scheme and config of a repo point
          Passwords,
          Requests,   \* SetVfs requests that may be under way at the same time
          Openers,    \* backup jobs and VFS builds
          Absent      \* no such repo point

ASSUME RotationAssumption ==
  /\ Points # {} /\ Passwords # {} /\ Targets # {}
  /\ Absent \notin [target : Targets, pw : Passwords, writable : BOOLEAN]

Settings == [target : Targets, pw : Passwords, writable : BOOLEAN]
Configs == [Points -> Settings \cup {Absent}]

VARIABLES db,       \* the configuration in the database
          keys,     \* keys[r]: the passwords that open repository r; {}: it does not exist
          loc,      \* loc[t]: where request t is
          old,      \* old[t]: `old_users`
          new,      \* new[t]: the configuration t was sent
          todo,     \* todo[t]: password changes t's current phase has still to handle
          missing,  \* missing[t]: changes whose repository phase 1 did not find
          dropped,  \* dropped[t]: the client is gone, only the blocking call is left
          opening   \* opening[o]: the point settings o works with

requestVars == <<loc, old, new, todo, missing, dropped>>
rotationVars == <<db, keys, loc, old, new, todo, missing, dropped, opening>>

Nothing == [p \in Points |-> Absent]

\* Any configuration, with the repositories as some earlier server left them.
RotationInit ==
  /\ db \in Configs
  /\ keys \in [Targets -> SUBSET Passwords]
  /\ loc = [t \in Requests |-> "idle"]
  /\ old = [t \in Requests |-> Nothing]
  /\ new = [t \in Requests |-> Nothing]
  /\ todo = [t \in Requests |-> {}]
  /\ missing = [t \in Requests |-> {}]
  /\ dropped = [t \in Requests |-> FALSE]
  /\ opening = [o \in Openers |-> Absent]

RotationGoto(t, label) == loc' = [loc EXCEPT ![t] = label]

\* The request is answered; its locals are gone.
Return(t) ==
  /\ RotationGoto(t, "idle")
  /\ old' = [old EXCEPT ![t] = Nothing]
  /\ new' = [new EXCEPT ![t] = Nothing]
  /\ todo' = [todo EXCEPT ![t] = {}]
  /\ missing' = [missing EXCEPT ![t] = {}]
  /\ dropped' = [dropped EXCEPT ![t] = FALSE]

-----------------------------------------------------------------------------
(* set_vfs. *)

\* Points that stay repo points on their storage target, with another password.
Changes(c, d) ==
  {p \in Points : /\ c[p] # Absent /\ d[p] # Absent
                  /\ c[p].target = d[p].target
                  /\ c[p].pw # d[p].pw}

\* The request, valid and normalized, before it reads the configuration.
SetVfs(t, c) ==
  /\ loc[t] = "idle"
  /\ new' = [new EXCEPT ![t] = c]
  /\ RotationGoto(t, "get_users")
  /\ UNCHANGED <<db, keys, old, todo, missing, dropped, opening>>

GetUsers(t) ==
  /\ loc[t] = "get_users"
  /\ old' = [old EXCEPT ![t] = db]
  /\ todo' = [todo EXCEPT ![t] = Changes(db, new[t])]
  /\ RotationGoto(t, "add")
  /\ UNCHANGED <<db, keys, new, missing, dropped, opening>>

\* Mutant: the blocking call of a dropped request does not end it.
HandledAlways(t, p) ==
  /\ todo' = [todo EXCEPT ![t] = @ \ {p}]
  /\ UNCHANGED <<loc, old, new, dropped>>
  /\ dropped[t] => UNCHANGED missing

\* The phase goes on with the other changes, unless the client is gone.
Handled(t, p) ==
  IF dropped[t]
  THEN Return(t)
  ELSE /\ todo' = [todo EXCEPT ![t] = @ \ {p}]
       /\ UNCHANGED <<loc, old, new, dropped>>

\* add_repo_key has nothing to do: the repository does not exist yet, or
\* opens with the new password already.
AddNothing(t, p) ==
  LET r == old[t][p].target IN
  /\ loc[t] = "add" /\ p \in todo[t]
  /\ keys[r] = {} \/ new[t][p].pw \in keys[r]
  /\ Handled(t, p)
  /\ ~ dropped[t] =>
       missing' = [missing EXCEPT ![t] = IF keys[r] = {} THEN @ \cup {p} ELSE @]
  /\ UNCHANGED <<db, keys, opening>>

\* It opens the repository with the old password and adds the new one.
AddKey(t, p) ==
  LET r == old[t][p].target IN
  /\ loc[t] = "add" /\ p \in todo[t]
  /\ keys[r] # {} /\ new[t][p].pw \notin keys[r]
  /\ old[t][p].pw \in keys[r]
  /\ new[t][p].writable
  /\ keys' = [keys EXCEPT ![r] = @ \cup {new[t][p].pw}]
  /\ Handled(t, p)
  /\ ~ dropped[t] => UNCHANGED missing
  /\ UNCHANGED <<db, opening>>

\* Mutant: a change that cannot be made in the repository is skipped.
AddFailsSilently(t, p) ==
  /\ loc[t] = "add" /\ p \in todo[t]
  /\ Handled(t, p)
  /\ ~ dropped[t] => UNCHANGED missing
  /\ UNCHANGED <<db, keys, opening>>

\* Neither password opens it, the point is read-only or the backend fails:
\* the request is rejected.
AddFails(t, p) ==
  /\ loc[t] = "add" /\ p \in todo[t]
  /\ Return(t)
  /\ UNCHANGED <<db, keys, opening>>

\* The one transaction that replaces the configuration ...
SetUsers(t) ==
  /\ loc[t] = "add" /\ todo[t] = {}
  /\ db' = new[t]
  /\ todo' = [todo EXCEPT ![t] = Changes(old[t], new[t])]
  /\ RotationGoto(t, "remove")
  /\ UNCHANGED <<keys, old, new, missing, dropped, opening>>

\* ... or fails.
SetUsersFails(t) ==
  /\ loc[t] = "add" /\ todo[t] = {}
  /\ Return(t)
  /\ UNCHANGED <<db, keys, opening>>

\* remove_old_repo_key: both passwords open the repository, the old key goes.
RemoveKey(t, p) ==
  LET r == old[t][p].target IN
  /\ loc[t] = "remove" /\ p \in todo[t]
  /\ {old[t][p].pw, new[t][p].pw} \subseteq keys[r]
  /\ new[t][p].writable
  /\ keys' = [keys EXCEPT ![r] = @ \ {old[t][p].pw}]
  /\ Handled(t, p)
  /\ ~ dropped[t] => UNCHANGED missing
  /\ UNCHANGED <<db, opening>>

\* There is nothing to remove, or removing fails: a warning.
RemoveNothing(t, p) ==
  /\ loc[t] = "remove" /\ p \in todo[t]
  /\ Handled(t, p)
  /\ ~ dropped[t] => UNCHANGED missing
  /\ UNCHANGED <<db, keys, opening>>

Done(t) ==
  /\ loc[t] = "remove" /\ todo[t] = {}
  /\ Return(t)
  /\ UNCHANGED <<db, keys, opening>>

\* The client goes away and the handler's future is dropped at an await.  A
\* key operation runs on a blocking thread and is not stopped by that.
Drop(t) ==
  /\ loc[t] # "idle" /\ ~ dropped[t]
  /\ \/ Return(t)
     \/ \E p \in todo[t] :
          /\ loc[t] \in {"add", "remove"}
          /\ todo' = [todo EXCEPT ![t] = {p}]
          /\ dropped' = [dropped EXCEPT ![t] = TRUE]
          /\ UNCHANGED <<loc, old, new, missing>>
  /\ UNCHANGED <<db, keys, opening>>

-----------------------------------------------------------------------------
(* Backup jobs (create_for_job) and VFS builds (prepare_repo_unlocked). *)

\* The configuration is read, and the repository found missing.
Open(o, p) ==
  /\ opening[o] = Absent
  /\ db[p] # Absent /\ db[p].writable
  /\ keys[db[p].target] = {}
  /\ opening' = [opening EXCEPT ![o] = db[p]]
  /\ UNCHANGED <<db, keys, requestVars>>

\* It is created with the password read then, unless someone was faster.
InitRepo(o) ==
  LET s == opening[o] IN
  /\ s # Absent
  /\ keys' = IF keys[s.target] = {} THEN [keys EXCEPT ![s.target] = {s.pw}] ELSE keys
  /\ opening' = [opening EXCEPT ![o] = Absent]
  /\ UNCHANGED <<db, requestVars>>

\* The process ends at any point and starts again; database and repositories stay.
RotationCrash ==
  /\ loc # [t \in Requests |-> "idle"] \/ opening # [o \in Openers |-> Absent]
  /\ loc' = [t \in Requests |-> "idle"]
  /\ old' = [t \in Requests |-> Nothing]
  /\ new' = [t \in Requests |-> Nothing]
  /\ todo' = [t \in Requests |-> {}]
  /\ missing' = [t \in Requests |-> {}]
  /\ dropped' = [t \in Requests |-> FALSE]
  /\ opening' = [o \in Openers |-> Absent]
  /\ UNCHANGED <<db, keys>>

RequestStep(t) ==
  \/ \E c \in Configs : SetVfs(t, c)
  \/ GetUsers(t)
  \/ \E p \in Points :
       \/ AddNothing(t, p) \/ AddKey(t, p) \/ AddFails(t, p)
       \/ RemoveKey(t, p) \/ RemoveNothing(t, p)
  \/ SetUsers(t) \/ SetUsersFails(t) \/ Done(t) \/ Drop(t)

RotationNext ==
  \/ \E t \in Requests : RequestStep(t)
  \/ \E o \in Openers : (\E p \in Points : Open(o, p)) \/ InitRepo(o)
  \/ RotationCrash

RotationSpec == RotationInit /\ [][RotationNext]_rotationVars

-----------------------------------------------------------------------------
(* Properties. *)

RotationTypeOK ==
  /\ db \in Configs
  /\ keys \in [Targets -> SUBSET Passwords]
  /\ loc \in [Requests -> {"idle", "get_users", "add", "remove"}]
  /\ old \in [Requests -> Configs] /\ new \in [Requests -> Configs]
  /\ todo \in [Requests -> SUBSET Points]
  /\ missing \in [Requests -> SUBSET Points]
  /\ dropped \in [Requests -> BOOLEAN]
  /\ opening \in [Openers -> Settings \cup {Absent}]
  /\ \A t \in Requests :
       /\ todo[t] \cup missing[t] \subseteq Changes(old[t], new[t])
       /\ dropped[t] => todo[t] # {}

\* Point p is the only one stored at its target.
Sole(p) == \A q \in Points \ {p} : db[q] = Absent \/ db[q].target # db[p].target

\* p's repository exists and opens with the password in the database.
Opens(p) == db[p] # Absent /\ db[p].pw \in keys[db[p].target]

\* If p's repository opens before a step, and p keeps its storage target and
\* shares it with no other point, the repository opens after it.
StaysOpen(p) ==
  /\ Opens(p) /\ Sole(p)
  /\ db'[p] # Absent /\ db'[p].target = db[p].target
  /\ \A t \in Requests : p \notin missing[t]
  => Opens(p)'

\* "the password has to be changed *inside* the repository too, or the point
\* would fail to open with the new one" (server.rs set_vfs).  A repository
\* that opens with the configured password goes on to do so, through every
\* phase of a rotation, its failures, a client that goes away and a crash.
\* Left out: a repository created while its password changes.
KeepsOpening == [][\A p \in Points : StaysOpen(p)]_rotationVars
=============================================================================
