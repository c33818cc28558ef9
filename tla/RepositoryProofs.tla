-------------------------- MODULE RepositoryProofs ---------------------------
(***************************************************************************)
(* Proofs about repositories: the snapshots in them and the keys to them.  *)
(*                                                                         *)
(* Retention, for any groups, jobs, requests and bounds: type correctness, *)
(* that locked snapshots stay and that the newest snapshot of a group      *)
(* stays, although all deletions work from old lists.                      *)
(*                                                                         *)
(* KeyRotation: type correctness for any number of requests, and that a    *)
(* password rotation never locks a point out of its repository while       *)
(* SetVfs requests come one at a time.                                     *)
(***************************************************************************)
EXTENDS Retention, KeyRotation, FiniteSetTheorems, TLAPS

-----------------------------------------------------------------------------
(* Retention *)

Labels == {"idle", "room", "room_delete", "save", "time", "time_delete", "space",
           "space_delete", "forget_check", "forget_delete"}

\* Job j will store a snapshot with the time it has taken.
Pending(j) == pc[j] \in {"room", "room_delete", "save"}

Finite == IsFiniteSet(snaps) /\ \A j \in Jobs : IsFiniteSet(doomed[j])

\* A round is counted after it has deleted.
Rounds ==
  \A j \in Jobs : pc[j] \in {"room_delete", "space_delete"} => round[j] < MaxRounds

\* The time of a backup to come is its own.
Times ==
  /\ \A j \in Jobs : Pending(j) => time[j] \in 1 .. clock
  /\ \A i, j \in Jobs : Pending(i) /\ Pending(j) /\ i # j => time[i] # time[j]
  /\ \A s \in snaps : s.time <= clock /\ \A j \in Jobs : Pending(j) => time[j] # s.time
  /\ \A k \in Lockers : \A s \in file[k] :
       s.time <= clock /\ \A j \in Jobs : Pending(j) => time[j] # s.time

\* Snapshots of an untouched group differ in their times.
Unique ==
  \A s, u \in snaps : s.group = u.group /\ s.time = u.time => s = u \/ s.group \in touched

\* No id is given out twice.
Ids ==
  /\ \A s \in snaps : s.id <= ids
  /\ \A j \in Jobs : \A i \in args[j].ids : i <= ids

\* The lists of snapshots to delete hold none that is locked ...
Unlocked ==
  /\ \A j \in Jobs : \A s \in doomed[j] : ~ s.locked
  /\ \A j \in Jobs : pc[j] = "forget_delete" /\ ~ args[j].include =>
       \A s \in snaps : s.id \in args[j].ids => ~ s.locked

\* n is the newest snapshot of its group.
IsNewest(n) == n \in snaps /\ \A u \in snaps : u.group = n.group => u.time <= n.time

\* ... and in an untouched group none that is the newest now.
Superseded ==
  \A j \in Jobs : \A s \in doomed[j] :
    s.group \in touched \/ \E n \in snaps : IsNewest(n) /\ n.group = s.group /\ n.time > s.time

\* A request works on one snapshot, and once it has written its copy it has
\* touched the group.
ByHand ==
  \A k \in Lockers :
    /\ \A s, u \in file[k] : s = u
    /\ op[k] \in {"find", "delete"} => \A s \in file[k] : s.group \in touched

Inv ==
  /\ TypeOK /\ Finite /\ Rounds /\ Times /\ Unique /\ Ids /\ Unlocked /\ Superseded /\ ByHand

-----------------------------------------------------------------------------
(* What single steps do. *)

LEMMA NoArgsType == NoArgs \in Args /\ NoArgs.ids = {}
BY RetentionAssumption DEF NoArgs, Args

\* A snapshot's fields.
LEMMA SnapshotParts ==
  ASSUME NEW s \in Snapshots
  PROVE  s.id \in Int /\ s.time \in Int /\ s.group \in Groups /\ s.locked \in BOOLEAN
BY RetentionAssumption DEF Snapshots

\* The end of a job, or of its first retention run.
LEMMA EndEffect ==
  ASSUME TypeOK, NEW j \in Jobs, Finish(j) \/ EndRun(j)
  PROVE  /\ pc' = [pc EXCEPT ![j] = pc'[j]] /\ pc'[j] \in {"idle", "save"}
         /\ pc'[j] = "save" => Pending(j)
         /\ time' = [time EXCEPT ![j] = time'[j]] /\ time'[j] \in {0, time[j]}
         /\ pc'[j] = "save" => time'[j] = time[j]
         /\ args' = [args EXCEPT ![j] = args'[j]] /\ args'[j] \in {NoArgs, args[j]}
         /\ doomed' = [doomed EXCEPT ![j] = {}]
         /\ round' = [round EXCEPT ![j] = 0]
         /\ empty' = [empty EXCEPT ![j] = 0]
         /\ batch' = [batch EXCEPT ![j] = 1]
<1>1. CASE Finish(j)
  BY <1>1 DEF Finish, Goto, TypeOK
<1>2. CASE EndRun(j) /\ pc[j] \in {"room", "room_delete"}
  BY <1>2 DEF EndRun, Goto, TypeOK, Pending
<1>3. CASE EndRun(j) /\ pc[j] \notin {"room", "room_delete"}
  BY <1>1, <1>3 DEF EndRun
<1> QED BY <1>1, <1>2, <1>3

\* It leaves the job's variables in their types.
LEMMA EndType ==
  ASSUME TypeOK, NEW j \in Jobs, Finish(j) \/ EndRun(j)
  PROVE  /\ pc' \in [Jobs -> Labels] /\ args' \in [Jobs -> Args]
         /\ time' \in [Jobs -> 0 .. MaxTime] /\ doomed' \in [Jobs -> SUBSET Snapshots]
         /\ round' \in [Jobs -> 0 .. MaxRounds] /\ empty' \in [Jobs -> 0 .. 1]
         /\ batch' \in [Jobs -> Nat]
<1>1. 0 \in 0 .. MaxTime /\ 0 \in 0 .. MaxRounds /\ 0 \in 0 .. 1 /\ 1 \in Nat
  BY RetentionAssumption
<1> QED BY <1>1, EndEffect, NoArgsType DEF TypeOK, Labels

-----------------------------------------------------------------------------
(* Type correctness. *)

\* The lists deletions work from are lists of snapshots, and finite.
LEMMA ListsFinite ==
  ASSUME TypeOK, Finite, NEW D \in SUBSET snaps
  PROVE  D \in SUBSET Snapshots /\ IsFiniteSet(D)
BY FS_Subset DEF TypeOK, Finite

LEMMA BatchType ==
  ASSUME TypeOK, Finite, NEW j \in Jobs
  PROVE  Cardinality(doomed[j]) \in Nat
BY FS_CardinalityType DEF Finite

LEMMA TypeStep == Inv /\ [Next]_vars => TypeOK'
<1> SUFFICES ASSUME Inv, [Next]_vars PROVE TypeOK'
  OBVIOUS
<1>0. TypeOK /\ Finite /\ Rounds /\ Times
  BY DEF Inv
<1> USE RetentionAssumption, NoArgsType
<1>1. ASSUME NEW j \in Jobs, NEW g \in Groups, NEW t \in BOOLEAN, NEW s \in BOOLEAN,
             Backup(j, g, t, s)
      PROVE  TypeOK'
  <2>1. [NoArgs EXCEPT !.kind = "backup", !.group = g, !.time = t, !.space = s] \in Args
    BY DEF NoArgs, Args
  <2>2. clock + 1 \in 0 .. MaxTime
    BY <1>0, <1>1 DEF TypeOK, Backup
  <2> QED BY <1>0, <1>1, <2>1, <2>2 DEF TypeOK, Backup, Goto, lockVars
<1>2. ASSUME NEW j \in Jobs, NEW t \in BOOLEAN, NEW s \in BOOLEAN, NEW dry \in BOOLEAN,
             ApplyRetention(j, t, s, dry)
      PROVE  TypeOK'
  <2>1. [NoArgs EXCEPT !.time = t, !.space = s, !.dry = dry] \in Args
    BY DEF NoArgs, Args
  <2> QED BY <1>0, <1>2, <2>1 DEF TypeOK, ApplyRetention, Goto, lockVars
<1>3. ASSUME NEW j \in Jobs, NEW s \in snaps, NEW include \in BOOLEAN, Forget(j, {s}, include)
      PROVE  TypeOK'
  <2>1. s.id \in 1 .. MaxId
    BY <1>0 DEF TypeOK, Snapshots
  <2>2. [NoArgs EXCEPT !.kind = "forget", !.ids = {u.id : u \in {s}}, !.include = include] \in Args
    BY <2>1 DEF NoArgs, Args
  <2> QED BY <1>0, <1>3, <2>2 DEF TypeOK, Forget, Goto, lockVars
<1>4. ASSUME NEW j \in Jobs, Save(j) PROVE TypeOK'
  <2>1. args[j].group \in Groups
    BY <1>0 DEF TypeOK, Args
  <2>2. time[j] \in 1 .. MaxTime /\ ids + 1 \in 1 .. MaxId /\ ids + 1 \in 0 .. MaxId
    BY <1>0, <1>4 DEF TypeOK, Times, Pending, Save
  <2>3. [id |-> ids + 1, time |-> time[j], group |-> args[j].group, locked |-> FALSE] \in Snapshots
    BY <2>1, <2>2 DEF Snapshots
  <2>4. snaps' \subseteq Snapshots /\ ids' \in 0 .. MaxId
    BY <1>0, <1>4, <2>2, <2>3 DEF TypeOK, Save
  <2>5. CASE args[j].time \/ args[j].space
    BY <1>0, <1>4, <2>4, <2>5 DEF TypeOK, Save, Goto, lockVars
  <2>6. CASE Finish(j)
    BY <1>0, <1>4, <2>4, <2>6, EndType DEF TypeOK, Save, Labels, lockVars
  <2> QED BY <1>4, <2>5, <2>6 DEF Save
<1>5. ASSUME NEW j \in Jobs, SaveFails(j) \/ EndSpace(j) PROVE TypeOK'
  BY <1>0, <1>5, EndType DEF TypeOK, SaveFails, EndSpace, Labels, lockVars
<1>6. ASSUME NEW j \in Jobs, NEW D \in SUBSET snaps, TimeList(j, D) PROVE TypeOK'
  <2>1. D \in SUBSET Snapshots
    BY <1>0, ListsFinite
  <2>2. doomed' \in [Jobs -> SUBSET Snapshots]
    BY <1>0, <1>6, <2>1 DEF TypeOK, TimeList
  <2> QED BY <1>0, <1>6, <2>2 DEF TypeOK, TimeList, Goto, lockVars
<1>7. ASSUME NEW j \in Jobs, TimeDelete(j) PROVE TypeOK'
  <2>1. snaps' \subseteq Snapshots
    BY <1>0, <1>7 DEF TypeOK, TimeDelete
  <2>2. CASE Finish(j)
    BY <1>0, <1>7, <2>1, <2>2, EndType DEF TypeOK, TimeDelete, Labels, lockVars
  <2>3. CASE ~ Finish(j)
    BY <1>0, <1>7, <2>1, <2>3 DEF TypeOK, TimeDelete, Goto, lockVars
  <2> QED BY <2>2, <2>3
<1>8. ASSUME NEW j \in Jobs, NEW K \in SUBSET snaps, NEW D \in SUBSET snaps, SpaceList(j, K, D)
      PROVE  TypeOK'
  <2>1. D \in SUBSET Snapshots
    BY <1>0, ListsFinite
  <2>2. CASE args[j].dry
    BY <1>0, <1>8, <2>2, EndType DEF TypeOK, SpaceList, Labels, lockVars
  <2>3. CASE ~ args[j].dry
    BY <1>0, <1>8, <2>1, <2>3 DEF TypeOK, SpaceList, Goto, lockVars
  <2> QED BY <2>2, <2>3
<1>9. ASSUME NEW j \in Jobs, NEW freed \in {"nothing", "less", "enough"}, SpaceDelete(j, freed)
      PROVE  TypeOK'
  <2> DEFINE zero == IF freed = "nothing" THEN empty[j] + 1 ELSE 0
             n == Cardinality(doomed[j])
  <2>1. snaps' \subseteq Snapshots
    BY <1>0, <1>9 DEF TypeOK, SpaceDelete
  <2>2. CASE Stops(zero)
    BY <1>0, <1>9, <2>1, <2>2, EndType DEF TypeOK, SpaceDelete, Labels, lockVars
  <2>3. CASE ~ Stops(zero)
    <3>1. zero \in 0 .. 1
      BY <1>0, <2>3 DEF TypeOK, Stops
    <3>2. round[j] + 1 \in 0 .. MaxRounds
      BY <1>0, <1>9 DEF TypeOK, Rounds, SpaceDelete
    <3>3. n \in Nat /\ 2 * batch[j] \in Nat
      BY <1>0, BatchType DEF TypeOK
    <3>4. (IF freed = "enough" THEN batch[j] ELSE IF 2 * batch[j] < n THEN n ELSE 2 * batch[j]) \in Nat
      BY <1>0, <3>3 DEF TypeOK
    <3>5. /\ empty' = [empty EXCEPT ![j] = zero]
          /\ round' = [round EXCEPT ![j] = @ + 1]
          /\ batch' = [batch EXCEPT ![j] = IF freed = "enough" THEN @
                                           ELSE IF 2 * @ < n THEN n ELSE 2 * @]
          /\ doomed' = [doomed EXCEPT ![j] = {}]
          /\ Goto(j, IF pc[j] = "room_delete" THEN "room" ELSE "space")
          /\ UNCHANGED <<args, time>>
      BY <1>9, <2>3 DEF SpaceDelete
    <3>6. /\ empty' \in [Jobs -> 0 .. 1] /\ round' \in [Jobs -> 0 .. MaxRounds]
          /\ batch' \in [Jobs -> Nat]
      BY <1>0, <3>1, <3>2, <3>4, <3>5 DEF TypeOK
    <3> HIDE DEF zero, n
    <3> QED BY <1>0, <1>9, <2>1, <3>5, <3>6 DEF TypeOK, SpaceDelete, Goto, lockVars
  <2> QED BY <2>2, <2>3
<1>10. ASSUME NEW j \in Jobs, SpaceFails(j) PROVE TypeOK'
  <2>1. snaps' \subseteq Snapshots
    BY <1>0, <1>10 DEF TypeOK, SpaceFails
  <2> QED BY <1>0, <1>10, <2>1, EndType DEF TypeOK, SpaceFails, Labels, lockVars
<1>11. ASSUME NEW j \in Jobs, ForgetCheck(j) PROVE TypeOK'
  <2>1. CASE Finish(j)
    BY <1>0, <1>11, <2>1, EndType DEF TypeOK, ForgetCheck, Labels, lockVars
  <2>2. CASE ~ Finish(j)
    BY <1>0, <1>11, <2>2 DEF TypeOK, ForgetCheck, Goto, lockVars
  <2> QED BY <2>1, <2>2
<1>12. ASSUME NEW j \in Jobs, ForgetDelete(j) PROVE TypeOK'
  <2>1. snaps' \subseteq Snapshots /\ touched' \subseteq Groups
    BY <1>0, <1>12, SnapshotParts DEF TypeOK, ForgetDelete, Forgotten
  <2> QED BY <1>0, <1>12, <2>1, EndType DEF TypeOK, ForgetDelete, Labels, lockVars
<1>13. ASSUME NEW k \in Lockers, NEW s \in snaps, LockList(k, s) PROVE TypeOK'
  BY <1>0, <1>13 DEF TypeOK, LockList, jobVars
<1>14. ASSUME NEW k \in Lockers, LockSave(k) PROVE TypeOK'
  <2>1. PICK s \in file[k] : /\ snaps' = snaps \cup {[s EXCEPT !.id = ids + 1, !.locked = ~ s.locked]}
                             /\ touched' = touched \cup {s.group}
    BY <1>14 DEF LockSave
  <2>2. s \in Snapshots
    BY <1>0 DEF TypeOK
  <2>3. ids + 1 \in 1 .. MaxId /\ ids' = ids + 1
    BY <1>0, <1>14 DEF TypeOK, LockSave
  <2>4. [s EXCEPT !.id = ids + 1, !.locked = ~ s.locked] \in Snapshots /\ s.group \in Groups
    BY <2>2, <2>3 DEF Snapshots
  <2> QED BY <1>0, <1>14, <2>1, <2>3, <2>4 DEF TypeOK, LockSave, jobVars
<1>15. ASSUME NEW k \in Lockers, LockFind(k) \/ LockDelete(k) \/ LockFails(k) \/ LockDrop(k)
       PROVE  TypeOK'
  BY <1>0, <1>15 DEF TypeOK, LockFind, LockDelete, LockFails, LockDrop, LockEnd, jobVars
<1>16. CASE Crash
  BY <1>0, <1>16 DEF TypeOK, Crash
<1>17. CASE UNCHANGED vars
  BY <1>0, <1>17 DEF TypeOK, vars
<1>18. ASSUME NEW j \in Jobs, JobStep(j) PROVE TypeOK'
  BY <1>1, <1>2, <1>3, <1>4, <1>5, <1>6, <1>7, <1>8, <1>9, <1>10, <1>11, <1>12, <1>18 DEF JobStep
<1>19. ASSUME NEW k \in Lockers, LockStep(k) PROVE TypeOK'
  BY <1>13, <1>14, <1>15, <1>19 DEF LockStep
<1> QED BY <1>16, <1>17, <1>18, <1>19 DEF Next

-----------------------------------------------------------------------------
(* What steps do to the snapshots, the lists and the pending backups. *)

\* A step of one job leaves the others alone.
LEMMA OtherJobs ==
  ASSUME TypeOK, NEW j \in Jobs, JobStep(j), NEW i \in Jobs, i # j
  PROVE  /\ pc'[i] = pc[i] /\ time'[i] = time[i] /\ args'[i] = args[i]
         /\ doomed'[i] = doomed[i] /\ round'[i] = round[i]
<1>1. CASE Finish(j) \/ EndRun(j)
  BY <1>1, EndEffect DEF TypeOK
<1>2. CASE ~ (Finish(j) \/ EndRun(j))
  <2> DEFINE Same == /\ pc'[i] = pc[i] /\ time'[i] = time[i] /\ args'[i] = args[i]
                     /\ doomed'[i] = doomed[i] /\ round'[i] = round[i]
  <2>1. ASSUME \/ \E g \in Groups, t, s \in BOOLEAN : Backup(j, g, t, s)
               \/ \E t, s, dry \in BOOLEAN : ApplyRetention(j, t, s, dry)
               \/ \E s \in snaps, include \in BOOLEAN : Forget(j, {s}, include)
        PROVE  Same
    BY <2>1 DEF Backup, ApplyRetention, Forget, Goto, TypeOK
  <2>2. ASSUME Save(j) \/ SaveFails(j) PROVE Same
    BY <1>2, <2>2 DEF Save, SaveFails, Goto, TypeOK
  <2>3. ASSUME (\E D \in SUBSET snaps : TimeList(j, D)) \/ TimeDelete(j) \/ EndSpace(j)
        PROVE  Same
    BY <1>2, <2>3 DEF TimeList, TimeDelete, EndSpace, Goto, TypeOK
  <2>4. ASSUME \E K, D \in SUBSET snaps : SpaceList(j, K, D)
        PROVE  Same
    BY <1>2, <2>4 DEF SpaceList, Goto, TypeOK
  <2>5. ASSUME (\E freed \in {"nothing", "less", "enough"} : SpaceDelete(j, freed)) \/ SpaceFails(j)
        PROVE  Same
    BY <1>2, <2>5 DEF SpaceDelete, SpaceFails, Goto, TypeOK
  <2>6. ASSUME ForgetCheck(j) \/ ForgetDelete(j) PROVE Same
    BY <1>2, <2>6 DEF ForgetCheck, ForgetDelete, Goto, TypeOK
  <2> HIDE DEF Same
  <2>7. Same
    BY <2>1, <2>2, <2>3, <2>4, <2>5, <2>6 DEF JobStep
  <2> QED BY <2>7 DEF Same
<1> QED BY <1>1, <1>2

\* Requests for locks leave the jobs alone.
LEMMA LockersAndJobs ==
  ASSUME NEW k \in Lockers, LockStep(k)
  PROVE  UNCHANGED jobVars
BY DEF LockStep, LockList, LockSave, LockFind, LockDelete, LockFails, LockDrop

\* Jobs leave the requests alone.
LEMMA JobsAndLockers ==
  ASSUME NEW j \in Jobs, JobStep(j)
  PROVE  UNCHANGED lockVars
BY DEF JobStep, Backup, ApplyRetention, Forget, Save, SaveFails, TimeList, TimeDelete, EndSpace,
       SpaceList, SpaceDelete, SpaceFails, ForgetCheck, ForgetDelete

\* What a list of snapshots to delete is when it is made.
Listed(D) == D \subseteq {s \in snaps : ~ s.locked} /\ KeepRules(D)

\* A list shrinks, or is made in a step that deletes nothing.
LEMMA DoomedStep ==
  ASSUME TypeOK, [Next]_vars, NEW j \in Jobs
  PROVE  \/ doomed'[j] \subseteq doomed[j]
         \/ snaps' = snaps /\ touched' = touched /\ Listed(doomed'[j])
<1> DEFINE G == \/ doomed'[j] \subseteq doomed[j]
                \/ snaps' = snaps /\ touched' = touched /\ Listed(doomed'[j])
<1>1. ASSUME Finish(j) \/ EndRun(j) PROVE G
  BY <1>1, EndEffect DEF TypeOK
<1>2. ASSUME UNCHANGED doomed PROVE G
  BY <1>2
<1>3. ASSUME NEW D \in SUBSET snaps, TimeList(j, D) PROVE G
  <2>1. snaps' = snaps /\ touched' = touched /\ doomed'[j] \in {{}, D} /\ Listed(D)
    BY <1>3 DEF TimeList, TypeOK, Listed
  <2> QED BY <2>1
<1>4. ASSUME NEW K \in SUBSET snaps, NEW D \in SUBSET snaps, SpaceList(j, K, D) PROVE G
  <2>1. CASE args[j].dry
    BY <1>1, <1>4, <2>1 DEF SpaceList
  <2>2. CASE ~ args[j].dry
    <3>1. snaps' = snaps /\ touched' = touched /\ doomed'[j] = D
      BY <1>4, <2>2 DEF SpaceList, TypeOK
    <3>2. Newest(K) /\ D \subseteq Candidates(K)
      BY <1>4 DEF SpaceList
    <3>3. Listed(D)
      BY <3>2 DEF Listed, KeepRules, Candidates
    <3> QED BY <3>1, <3>3
  <2> QED BY <2>1, <2>2
<1>5. ASSUME TimeDelete(j) \/ \E freed \in {"nothing", "less", "enough"} : SpaceDelete(j, freed)
      PROVE  G
  <2>1. CASE Finish(j) \/ EndRun(j)
    BY <1>1, <2>1
  <2>2. CASE ~ (Finish(j) \/ EndRun(j))
    BY <1>5, <2>2 DEF TimeDelete, SpaceDelete, TypeOK
  <2> QED BY <2>1, <2>2
<1>6. ASSUME JobStep(j) PROVE G
  <2>1. CASE Finish(j) \/ EndRun(j)
    BY <1>1, <2>1
  <2>2. CASE ~ (Finish(j) \/ EndRun(j))
    <3>1. \/ UNCHANGED doomed
          \/ \E D \in SUBSET snaps : TimeList(j, D)
          \/ \E K, D \in SUBSET snaps : SpaceList(j, K, D)
          \/ TimeDelete(j) \/ \E freed \in {"nothing", "less", "enough"} : SpaceDelete(j, freed)
      BY <1>6, <2>2 DEF JobStep, Backup, ApplyRetention, Forget, Save, SaveFails, EndSpace,
                        SpaceFails, ForgetCheck, ForgetDelete
    <3> QED BY <1>2, <1>3, <1>4, <1>5, <3>1
  <2> QED BY <2>1, <2>2
<1>7. ASSUME NEW i \in Jobs, i # j, JobStep(i) PROVE G
  BY <1>7, OtherJobs
<1>8. ASSUME NEW k \in Lockers, LockStep(k) PROVE G
  BY <1>8, LockersAndJobs DEF jobVars
<1>9. CASE Crash
  BY <1>9 DEF Crash
<1>10. CASE UNCHANGED vars
  BY <1>10 DEF vars
<1> QED BY <1>6, <1>7, <1>8, <1>9, <1>10 DEF Next

\* What disappears was on a list, or in a group touched by hand.
LEMMA Removal ==
  ASSUME TypeOK, ByHand, [Next]_vars, NEW s \in snaps, s \notin snaps'
  PROVE  (\E j \in Jobs : s \in doomed[j]) \/ s.group \in touched'
<1>1. ASSUME NEW j \in Jobs, JobStep(j)
      PROVE  s \in doomed[j] \/ s.group \in touched'
  BY <1>1 DEF JobStep, Backup, ApplyRetention, Forget, Save, SaveFails, TimeList, TimeDelete,
              EndSpace, SpaceList, SpaceDelete, SpaceFails, ForgetCheck, ForgetDelete
<1>2. ASSUME NEW k \in Lockers, LockStep(k)
      PROVE  s.group \in touched'
  BY <1>2 DEF LockStep, LockList, LockSave, LockFind, LockDelete, LockFails, LockDrop, ByHand
<1> QED BY <1>1, <1>2 DEF Next, Crash, vars

\* What appears was backed up, or copied by hand.
LEMMA Addition ==
  ASSUME TypeOK, [Next]_vars, NEW s \in snaps', s \notin snaps
  PROVE  /\ snaps' = snaps \cup {s}
         /\ ids' = ids + 1 /\ s.id = ids + 1
         /\ \/ \E j \in Jobs : Save(j) /\ s.time = time[j] /\ s.locked = FALSE
            \/ \E k \in Lockers : \E f \in file[k] :
                 /\ s.time = f.time /\ s.group = f.group
                 /\ s.group \in touched'
<1> DEFINE One == snaps' = snaps \cup {s} /\ ids' = ids + 1 /\ s.id = ids + 1
<1>1. ASSUME NEW j \in Jobs, JobStep(j)
      PROVE  One /\ Save(j) /\ s.time = time[j] /\ s.locked = FALSE
  <2>1. snaps' \subseteq snaps \/ Save(j)
    BY <1>1 DEF JobStep, Backup, ApplyRetention, Forget, SaveFails, TimeList, TimeDelete,
                EndSpace, SpaceList, SpaceDelete, SpaceFails, ForgetCheck, ForgetDelete
  <2>2. Save(j)
    BY <2>1
  <2>3. /\ ids' = ids + 1
        /\ snaps' = snaps \cup
          {[id |-> ids + 1, time |-> time[j], group |-> args[j].group, locked |-> FALSE]}
    BY <2>2 DEF Save
  <2>4. s = [id |-> ids + 1, time |-> time[j], group |-> args[j].group, locked |-> FALSE]
    BY <2>3
  <2>5. s.id = ids + 1 /\ s.time = time[j] /\ s.locked = FALSE
    BY <2>4
  <2>6. snaps' = snaps \cup {s}
    BY <2>3, <2>4
  <2> QED BY <2>2, <2>3, <2>5, <2>6
<1>2. ASSUME NEW k \in Lockers, LockStep(k)
      PROVE  One /\ \E f \in file[k] :
                      /\ s.time = f.time /\ s.group = f.group
                      /\ s.group \in touched'
  <2>1. snaps' \subseteq snaps \/ LockSave(k)
    BY <1>2 DEF LockStep, LockList, LockFind, LockDelete, LockFails, LockDrop
  <2>2. LockSave(k)
    BY <2>1
  <2>3. PICK f \in file[k] :
          /\ snaps' = snaps \cup {[f EXCEPT !.id = ids + 1, !.locked = ~ f.locked]}
          /\ touched' = touched \cup {f.group}
    BY <2>2 DEF LockSave
  <2>4. ids' = ids + 1
    BY <2>2 DEF LockSave
  <2>5. f \in Snapshots
    BY DEF TypeOK
  <2>6. s = [f EXCEPT !.id = ids + 1, !.locked = ~ f.locked]
    BY <2>3
  <2>7. s.id = ids + 1 /\ s.time = f.time /\ s.group = f.group
    BY <2>5, <2>6 DEF Snapshots
  <2>8. snaps' = snaps \cup {s}
    BY <2>3, <2>6
  <2>9. s.group \in touched'
    <3>1. touched' = touched \cup {f.group}
      BY <2>3
    <3> QED BY <2>7, <3>1
  <2> QED BY <2>4, <2>7, <2>8, <2>9
<1>3. Crash \/ UNCHANGED vars => snaps' = snaps
  BY DEF Crash, vars
<1> QED BY <1>1, <1>2, <1>3 DEF Next

\* Time, ids and touched groups only grow.
LEMMA Monotone ==
  ASSUME TypeOK, [Next]_vars
  PROVE  clock <= clock' /\ ids <= ids' /\ touched \subseteq touched'
<1>0. clock \in Int /\ ids \in Int
  BY RetentionAssumption DEF TypeOK
<1> DEFINE Grows == /\ clock' \in {clock, clock + 1} /\ ids' \in {ids, ids + 1}
                    /\ touched \subseteq touched'
<1>1. ASSUME NEW j \in Jobs, JobStep(j) PROVE Grows
  <2>1. ASSUME \/ \E g \in Groups, t, s \in BOOLEAN : Backup(j, g, t, s)
               \/ \E t, s, dry \in BOOLEAN : ApplyRetention(j, t, s, dry)
               \/ \E s \in snaps, include \in BOOLEAN : Forget(j, {s}, include)
        PROVE  Grows
    BY <2>1 DEF Backup, ApplyRetention, Forget
  <2>2. ASSUME Save(j) \/ SaveFails(j) PROVE Grows
    BY <2>2 DEF Save, SaveFails
  <2>3. ASSUME (\E D \in SUBSET snaps : TimeList(j, D)) \/ TimeDelete(j) \/ EndSpace(j)
        PROVE  Grows
    BY <2>3 DEF TimeList, TimeDelete, EndSpace
  <2>4. ASSUME \/ \E K, D \in SUBSET snaps : SpaceList(j, K, D)
               \/ \E freed \in {"nothing", "less", "enough"} : SpaceDelete(j, freed)
               \/ SpaceFails(j)
        PROVE  Grows
    BY <2>4 DEF SpaceList, SpaceDelete, SpaceFails
  <2>5. ASSUME ForgetCheck(j) \/ ForgetDelete(j) PROVE Grows
    BY <2>5 DEF ForgetCheck, ForgetDelete
  <2> HIDE DEF Grows
  <2> QED BY <1>1, <2>1, <2>2, <2>3, <2>4, <2>5 DEF JobStep
<1>2. ASSUME NEW k \in Lockers, LockStep(k) PROVE Grows
  <2>1. ASSUME (\E s \in snaps : LockList(k, s)) \/ LockSave(k) \/ LockFind(k) PROVE Grows
    BY <2>1 DEF LockList, LockSave, LockFind
  <2>2. ASSUME LockDelete(k) \/ LockFails(k) \/ LockDrop(k) PROVE Grows
    BY <2>2 DEF LockDelete, LockFails, LockDrop
  <2> HIDE DEF Grows
  <2> QED BY <1>2, <2>1, <2>2 DEF LockStep
<1>3. Crash \/ UNCHANGED vars => Grows
  BY DEF Crash, vars
<1> QED BY <1>0, <1>1, <1>2, <1>3 DEF Next

\* A backup to come keeps its time, or has just taken it.
LEMMA PendingStep ==
  ASSUME TypeOK, [Next]_vars, NEW i \in Jobs, Pending(i)'
  PROVE  \/ Pending(i) /\ time'[i] = time[i] /\ ~ Save(i)
         \/ /\ ~ Pending(i)
            /\ clock' = clock + 1 /\ time'[i] = clock + 1 /\ snaps' = snaps /\ file' = file
            /\ \A j \in Jobs : j # i => pc'[j] = pc[j] /\ time'[j] = time[j]
<1>1. ASSUME JobStep(i), Finish(i) \/ EndRun(i)
      PROVE  Pending(i) /\ time'[i] = time[i] /\ ~ Save(i)
  <2>1. Pending(i) /\ time'[i] = time[i]
    BY <1>1, EndEffect DEF Pending
  <2>2. CASE Finish(i)
    BY <2>2 DEF Finish, Goto, Pending, TypeOK
  <2>3. CASE ~ Finish(i)
    BY <1>1, <2>3 DEF EndRun, Save, Goto, Pending, TypeOK
  <2> QED BY <2>1, <2>2, <2>3
<1>2. ASSUME JobStep(i), ~ (Finish(i) \/ EndRun(i))
      PROVE  \/ Pending(i) /\ time'[i] = time[i] /\ ~ Save(i)
             \/ \E g \in Groups, t, s \in BOOLEAN : Backup(i, g, t, s)
  BY <1>2 DEF JobStep, ApplyRetention, Forget, Save, SaveFails, TimeList, TimeDelete, EndSpace,
              SpaceList, SpaceDelete, SpaceFails, ForgetCheck, ForgetDelete, Goto, Pending, TypeOK
<1>3. ASSUME NEW g \in Groups, NEW t \in BOOLEAN, NEW s \in BOOLEAN, Backup(i, g, t, s)
      PROVE  /\ ~ Pending(i)
             /\ clock' = clock + 1 /\ time'[i] = clock + 1 /\ snaps' = snaps /\ file' = file
             /\ \A j \in Jobs : j # i => pc'[j] = pc[j] /\ time'[j] = time[j]
  BY <1>3 DEF Backup, Goto, TypeOK, lockVars, Pending
<1>4. ASSUME NEW j \in Jobs, j # i, JobStep(j)
      PROVE  Pending(i) /\ time'[i] = time[i] /\ ~ Save(i)
  <2>1. Pending(i) /\ time'[i] = time[i]
    BY <1>4, OtherJobs DEF Pending
  <2>2. Save(i) => ~ Pending(i)'
    BY DEF Save, Finish, Goto, Pending, TypeOK
  <2> QED BY <2>1, <2>2
<1>5. ASSUME UNCHANGED <<pc, time>>
      PROVE  Pending(i) /\ time'[i] = time[i] /\ ~ Save(i)
  <2>1. Save(i) => ~ Pending(i)'
    BY DEF Save, Finish, Goto, Pending, TypeOK
  <2> QED BY <1>5, <2>1 DEF Pending
<1>6. ASSUME NEW k \in Lockers, LockStep(k) PROVE UNCHANGED <<pc, time>>
  BY <1>6, LockersAndJobs DEF jobVars
<1>7. ~ Crash
  BY DEF Crash, Pending
<1>8. UNCHANGED vars => UNCHANGED <<pc, time>>
  BY DEF vars
<1> QED BY <1>1, <1>2, <1>3, <1>4, <1>5, <1>6, <1>7, <1>8 DEF Next

\* A snapshot a request works on was found in the repository.
LEMMA FileStep ==
  ASSUME TypeOK, [Next]_vars, NEW k \in Lockers, NEW s \in file'[k]
  PROVE  s \in file[k] \/ (s \in snaps /\ op'[k] = "save" /\ \E u \in snaps : LockList(k, u))
<1>1. ASSUME NEW j \in Jobs, JobStep(j) PROVE s \in file[k]
  BY <1>1, JobsAndLockers DEF lockVars
<1>2. ASSUME NEW l \in Lockers, LockStep(l)
      PROVE  s \in file[k] \/ (s \in snaps /\ op'[k] = "save" /\ \E u \in snaps : LockList(k, u))
  <2>1. CASE \E u \in snaps : LockList(l, u)
    <3>1. PICK u \in snaps : LockList(l, u)
      BY <2>1
    <3>2. /\ file' = [file EXCEPT ![l] = {u}]
          /\ op' = [op EXCEPT ![l] = "save"]
      BY <3>1 DEF LockList
    <3>3. CASE l = k
      BY <3>1, <3>2, <3>3 DEF TypeOK
    <3>4. CASE l # k
      BY <3>2, <3>4 DEF TypeOK
    <3> QED BY <3>3, <3>4
  <2>2. CASE ~ \E u \in snaps : LockList(l, u)
    <3>1. UNCHANGED file \/ file' = [file EXCEPT ![l] = {}]
      BY <1>2, <2>2 DEF LockStep, LockSave, LockFind, LockDelete, LockFails, LockDrop, LockEnd
    <3> QED BY <3>1 DEF TypeOK
  <2> QED BY <2>1, <2>2
<1>3. ~ Crash
  BY DEF Crash
<1> QED BY <1>1, <1>2, <1>3 DEF Next, vars

\* The ids to forget are ids of snapshots.
LEMMA ArgsStep ==
  ASSUME TypeOK, [Next]_vars, NEW j \in Jobs, NEW i \in args'[j].ids
  PROVE  i \in args[j].ids \/ \E s \in snaps : i = s.id
<1>1. ASSUME JobStep(j), Finish(j) \/ EndRun(j) PROVE i \in args[j].ids
  BY <1>1, EndEffect, NoArgsType DEF TypeOK
<1>2. ASSUME JobStep(j), ~ (Finish(j) \/ EndRun(j))
      PROVE  i \in args[j].ids \/ \E s \in snaps : i = s.id
  <2>1. \/ UNCHANGED args
        \/ \E g \in Groups, t, s \in BOOLEAN : Backup(j, g, t, s)
        \/ \E t, s, dry \in BOOLEAN : ApplyRetention(j, t, s, dry)
        \/ \E s \in snaps, include \in BOOLEAN : Forget(j, {s}, include)
    BY <1>2 DEF JobStep, Save, SaveFails, TimeList, TimeDelete, EndSpace,
                SpaceList, SpaceDelete, SpaceFails, ForgetCheck, ForgetDelete
  <2>2. ASSUME NEW g \in Groups, NEW t \in BOOLEAN, NEW s \in BOOLEAN, Backup(j, g, t, s) PROVE FALSE
    BY <2>2 DEF Backup, NoArgs, TypeOK
  <2>3. ASSUME NEW t \in BOOLEAN, NEW s \in BOOLEAN, NEW dry \in BOOLEAN, ApplyRetention(j, t, s, dry)
        PROVE  FALSE
    BY <2>3 DEF ApplyRetention, NoArgs, TypeOK
  <2>4. ASSUME NEW s \in snaps, NEW include \in BOOLEAN, Forget(j, {s}, include) PROVE i = s.id
    BY <2>4 DEF Forget, NoArgs, TypeOK
  <2> QED BY <2>1, <2>2, <2>3, <2>4
<1>3. ASSUME NEW l \in Jobs, l # j, JobStep(l) PROVE i \in args[j].ids
  BY <1>3, OtherJobs
<1>4. ASSUME NEW k \in Lockers, LockStep(k) PROVE i \in args[j].ids
  BY <1>4, LockersAndJobs DEF jobVars
<1>5. ~ Crash
  BY NoArgsType DEF Crash
<1> QED BY <1>1, <1>2, <1>3, <1>4, <1>5 DEF Next, vars

-----------------------------------------------------------------------------
(* The inductive invariant. *)

LEMMA FiniteStep == Inv /\ [Next]_vars => Finite'
<1> SUFFICES ASSUME Inv, [Next]_vars PROVE Finite'
  OBVIOUS
<1> USE DEF Inv
<1>1. IsFiniteSet(snaps')
  <2>1. CASE snaps' \subseteq snaps
    BY <2>1, FS_Subset DEF Finite
  <2>2. CASE ~ (snaps' \subseteq snaps)
    <3>1. PICK s \in snaps' : s \notin snaps
      BY <2>2
    <3>2. snaps' = snaps \cup {s}
      BY <3>1, Addition
    <3> QED BY <3>2, FS_AddElement DEF Finite
  <2> QED BY <2>1, <2>2
<1>2. ASSUME NEW j \in Jobs PROVE IsFiniteSet(doomed'[j])
  <2>1. doomed'[j] \subseteq doomed[j] \/ doomed'[j] \subseteq snaps
    BY DoomedStep DEF Listed
  <2> QED BY <2>1, FS_Subset DEF Finite
<1> QED BY <1>1, <1>2 DEF Finite

LEMMA RoundsStep == Inv /\ [Next]_vars => Rounds'
<1> SUFFICES ASSUME Inv, [Next]_vars, NEW j \in Jobs, pc'[j] \in {"room_delete", "space_delete"}
             PROVE  round'[j] < MaxRounds
  BY DEF Rounds
<1> USE DEF Inv
<1>1. CASE pc'[j] = pc[j] /\ round'[j] = round[j]
  BY <1>1 DEF Rounds
<1>2. ASSUME JobStep(j) PROVE round'[j] < MaxRounds
  <2>1. ~ (Finish(j) \/ EndRun(j))
    BY EndEffect
  <2>2. \E K, D \in SUBSET snaps : SpaceList(j, K, D)
    BY <1>2, <2>1 DEF JobStep, Backup, ApplyRetention, Forget, Save, SaveFails, TimeList,
       TimeDelete, EndSpace, SpaceDelete, SpaceFails, ForgetCheck, ForgetDelete, Goto, TypeOK
  <2> QED BY <2>1, <2>2 DEF SpaceList
<1>3. ASSUME NEW i \in Jobs, i # j, JobStep(i) PROVE pc'[j] = pc[j] /\ round'[j] = round[j]
  BY <1>3, OtherJobs
<1>4. ASSUME NEW k \in Lockers, LockStep(k) PROVE pc'[j] = pc[j] /\ round'[j] = round[j]
  BY <1>4, LockersAndJobs DEF jobVars
<1>5. ~ Crash
  BY DEF Crash
<1> QED BY <1>1, <1>2, <1>3, <1>4, <1>5 DEF Next, vars

LEMMA TimesStep == Inv /\ [Next]_vars => Times'
<1> SUFFICES ASSUME Inv, [Next]_vars PROVE Times'
  OBVIOUS
<1> USE DEF Inv
<1>0. /\ clock \in Int /\ clock' \in Int /\ clock <= clock'
      /\ \A j \in Jobs : time[j] \in Int
  <2>1. TypeOK'
    BY TypeStep
  <2> QED BY <2>1, Monotone, RetentionAssumption DEF TypeOK
<1>1. ASSUME NEW j \in Jobs, Pending(j)' PROVE time'[j] \in 1 .. clock'
  <2>1. CASE Pending(j) /\ time'[j] = time[j]
    BY <1>0, <2>1 DEF Times
  <2>2. CASE clock' = clock + 1 /\ time'[j] = clock + 1
    BY <1>0, <2>2, RetentionAssumption DEF TypeOK
  <2> QED BY <1>1, <2>1, <2>2, PendingStep
<1>2. ASSUME NEW i \in Jobs, NEW j \in Jobs, Pending(i)', Pending(j)', i # j
      PROVE  time'[i] # time'[j]
  <2>1. CASE Pending(i) /\ time'[i] = time[i] /\ Pending(j) /\ time'[j] = time[j]
    BY <1>2, <2>1 DEF Times
  <2>2. ASSUME NEW a \in Jobs, NEW b \in Jobs, a # b, Pending(b)',
               time'[a] = clock + 1, pc'[b] = pc[b], time'[b] = time[b]
        PROVE  time'[a] # time'[b]
    <3>1. Pending(b)
      BY <2>2 DEF Pending
    <3>2. time[b] <= clock
      BY <1>0, <3>1 DEF Times
    <3> QED BY <1>0, <2>2, <3>2
  <2> QED BY <1>2, <2>1, <2>2, PendingStep
<1>3. ASSUME NEW s, s \in snaps \/ \E k \in Lockers : s \in file[k]
      PROVE  s.time <= clock /\ s.time <= clock' /\ s.time \in Int
  <2>1. s \in Snapshots /\ s.time <= clock
    BY <1>3 DEF TypeOK, Times
  <2> QED BY <1>0, <2>1, SnapshotParts
<1>4. ASSUME NEW s, s \in snaps \/ \E k \in Lockers : s \in file[k], NEW j \in Jobs, Pending(j)'
      PROVE  time'[j] # s.time
  <2>1. CASE Pending(j) /\ time'[j] = time[j]
    BY <1>4, <2>1 DEF Times
  <2>2. CASE time'[j] = clock + 1
    BY <1>0, <1>3, <1>4, <2>2
  <2> QED BY <1>4, <2>1, <2>2, PendingStep
<1>5. ASSUME NEW s \in snaps'
      PROVE  s.time <= clock' /\ \A j \in Jobs : Pending(j)' => time'[j] # s.time
  <2>1. CASE s \in snaps
    BY <1>3, <1>4, <2>1
  <2>2. ASSUME NEW i \in Jobs, Save(i), s.time = time[i], s \notin snaps
        PROVE  s.time <= clock' /\ \A j \in Jobs : Pending(j)' => time'[j] # s.time
    <3>1. Pending(i)
      BY <2>2 DEF Save, Pending
    <3>2. time[i] <= clock
      BY <1>0, <3>1 DEF Times
    <3>3. ASSUME NEW j \in Jobs, Pending(j)' PROVE time'[j] # s.time
      <4>1. Pending(j) /\ time'[j] = time[j] /\ ~ Save(j)
        BY <2>2, <3>3, PendingStep
      <4> QED BY <2>2, <3>1, <4>1 DEF Times
    <3> QED BY <1>0, <2>2, <3>2, <3>3
  <2>3. ASSUME NEW k \in Lockers, NEW f \in file[k], s.time = f.time
        PROVE  s.time <= clock' /\ \A j \in Jobs : Pending(j)' => time'[j] # s.time
    BY <1>3, <1>4, <2>3
  <2> QED BY <2>1, <2>2, <2>3, Addition
<1>6. ASSUME NEW k \in Lockers, NEW s \in file'[k]
      PROVE  s.time <= clock' /\ \A j \in Jobs : Pending(j)' => time'[j] # s.time
  BY <1>3, <1>4, FileStep
<1> QED BY <1>1, <1>2, <1>5, <1>6 DEF Times

LEMMA UniqueStep == Inv /\ [Next]_vars => Unique'
<1> SUFFICES ASSUME Inv, [Next]_vars, NEW s \in snaps', NEW u \in snaps',
                    s.group = u.group, s.time = u.time, s # u
             PROVE  s.group \in touched'
  BY DEF Unique
<1> USE DEF Inv
<1>1. CASE s \in snaps /\ u \in snaps
  BY <1>1, Monotone DEF Unique
<1>2. ASSUME NEW a \in snaps', NEW b \in snaps', a # b, a.group = b.group, a.time = b.time,
             a \notin snaps
      PROVE  a.group \in touched'
  <2>1. ASSUME NEW j \in Jobs, Save(j), snaps' = snaps \cup {a}, a.time = time[j] PROVE FALSE
    <3>1. Pending(j) /\ b \in snaps
      BY <1>2, <2>1 DEF Save, Pending
    <3> QED BY <1>2, <2>1, <3>1 DEF Times
  <2> QED BY <1>2, <2>1, Addition
<1> QED BY <1>1, <1>2

LEMMA IdsStep == Inv /\ [Next]_vars => Ids'
<1> SUFFICES ASSUME Inv, [Next]_vars PROVE Ids'
  OBVIOUS
<1> USE DEF Inv
<1>0. ids \in Int /\ ids' \in Int /\ ids <= ids'
  <2>1. TypeOK'
    BY TypeStep
  <2> QED BY <2>1, Monotone, RetentionAssumption DEF TypeOK
<1>1. ASSUME NEW s \in snaps PROVE s.id <= ids'
  <2>1. s.id \in Int /\ s.id <= ids
    BY SnapshotParts DEF TypeOK, Ids
  <2> QED BY <1>0, <2>1
<1>2. ASSUME NEW s \in snaps', s \notin snaps PROVE s.id <= ids'
  <2>1. s.id = ids'
    BY <1>2, Addition
  <2> QED BY <1>0, <2>1
<1>3. ASSUME NEW j \in Jobs, NEW i \in args'[j].ids PROVE i <= ids'
  <2>1. CASE i \in args[j].ids
    <3>1. i \in Int /\ i <= ids
      BY <2>1, RetentionAssumption DEF TypeOK, Args, Ids
    <3> QED BY <1>0, <3>1
  <2>2. CASE \E s \in snaps : i = s.id
    BY <1>1, <2>2
  <2> QED BY <2>1, <2>2, ArgsStep
<1> QED BY <1>1, <1>2, <1>3 DEF Ids

\* A forget job about to delete has been checked just now, or was before.
LEMMA ForgetStep ==
  ASSUME TypeOK, [Next]_vars, NEW j \in Jobs, pc'[j] = "forget_delete"
  PROVE  /\ args'[j] = args[j]
         /\ \/ pc[j] = "forget_delete"
            \/ /\ snaps' = snaps
               /\ args[j].include \/ \A s \in snaps : s.id \in args[j].ids => ~ s.locked
<1>1. ASSUME JobStep(j)
      PROVE  /\ args'[j] = args[j] /\ snaps' = snaps
             /\ args[j].include \/ \A s \in snaps : s.id \in args[j].ids => ~ s.locked
  <2>1. ~ (Finish(j) \/ EndRun(j))
    BY EndEffect
  <2>2. ForgetCheck(j)
    BY <1>1, <2>1 DEF JobStep, Backup, ApplyRetention, Forget, Save, SaveFails, TimeList,
       TimeDelete, EndSpace, SpaceList, SpaceDelete, SpaceFails, ForgetDelete, Goto, TypeOK
  <2> QED BY <2>1, <2>2 DEF ForgetCheck
<1>2. ASSUME NEW i \in Jobs, i # j, JobStep(i) PROVE pc'[j] = pc[j] /\ args'[j] = args[j]
  BY <1>2, OtherJobs
<1>3. ASSUME NEW k \in Lockers, LockStep(k) PROVE pc'[j] = pc[j] /\ args'[j] = args[j]
  BY <1>3, LockersAndJobs DEF jobVars
<1>4. ~ Crash
  BY DEF Crash
<1> QED BY <1>1, <1>2, <1>3, <1>4 DEF Next, vars

LEMMA UnlockedStep == Inv /\ [Next]_vars => Unlocked'
<1> SUFFICES ASSUME Inv, [Next]_vars PROVE Unlocked'
  OBVIOUS
<1> USE DEF Inv
<1>1. ASSUME NEW j \in Jobs, NEW s \in doomed'[j] PROVE ~ s.locked
  BY DoomedStep DEF Listed, Unlocked
<1>2. ASSUME NEW j \in Jobs, pc'[j] = "forget_delete", ~ args'[j].include,
             NEW s \in snaps', s.id \in args'[j].ids
      PROVE  ~ s.locked
  <2>1. args'[j] = args[j] /\ ~ args[j].include
    BY <1>2, ForgetStep
  <2>2. CASE s \in snaps
    <3>1. CASE pc[j] = "forget_delete"
      BY <1>2, <2>1, <2>2, <3>1 DEF Unlocked
    <3>2. CASE pc[j] # "forget_delete"
      BY <1>2, <2>1, <2>2, <3>2, ForgetStep
    <3> QED BY <3>1, <3>2
  <2>3. CASE s \notin snaps
    <3>1. s.id = ids + 1
      BY <2>3, Addition
    <3>2. s.id <= ids /\ ids \in Int
      BY <1>2, <2>1, RetentionAssumption DEF Ids, TypeOK
    <3> QED BY <3>1, <3>2
  <2> QED BY <2>2, <2>3
<1> QED BY <1>1, <1>2 DEF Unlocked

\* The newest snapshot of an untouched group is on nobody's list.
LEMMA NewestIsSafe ==
  ASSUME Inv, [Next]_vars, NEW n \in snaps, IsNewest(n), n.group \notin touched'
  PROVE  n \in snaps'
<1> SUFFICES ASSUME n \notin snaps' PROVE FALSE
  OBVIOUS
<1> USE DEF Inv
<1>1. n.group \notin touched
  BY Monotone
<1>2. PICK j \in Jobs : n \in doomed[j]
  BY Removal
<1>3. PICK m \in snaps : m.group = n.group /\ m.time > n.time
  BY <1>1, <1>2 DEF Superseded
<1>4. m.time <= n.time
  BY <1>3 DEF IsNewest
<1>5. m.time \in Int /\ n.time \in Int
  BY SnapshotParts DEF TypeOK
<1> QED BY <1>3, <1>4, <1>5

\* So an untouched group that has a snapshot newer than s keeps one.
LEMMA NewerStays ==
  ASSUME Inv, [Next]_vars, NEW s \in Snapshots, s.group \notin touched',
         NEW n \in snaps, IsNewest(n), n.group = s.group, n.time > s.time
  PROVE  \E m \in snaps' : IsNewest(m)' /\ m.group = s.group /\ m.time > s.time
<1> USE DEF Inv
<1>1. n \in snaps'
  BY NewestIsSafe
<1>2. TypeOK'
  BY TypeStep
<1>3. s.time \in Int /\ \A u \in snaps' : u.time \in Int
  BY <1>2, SnapshotParts DEF TypeOK
<1>4. CASE \A u \in snaps' : u.group = n.group => u.time <= n.time
  BY <1>1, <1>4 DEF IsNewest
<1>5. CASE \E u \in snaps' : u.group = n.group /\ ~ (u.time <= n.time)
  <2>1. PICK u \in snaps' : u.group = n.group /\ ~ (u.time <= n.time)
    BY <1>5
  <2>2. u \notin snaps
    BY <2>1 DEF IsNewest
  <2>3. snaps' = snaps \cup {u}
    BY <2>2, Addition
  <2>4. u.time > n.time /\ u.time > s.time
    BY <1>1, <1>3, <2>1
  <2>5. ASSUME NEW v \in snaps', v.group = u.group PROVE v.time <= u.time
    <3>1. CASE v = u
      BY <1>3, <3>1
    <3>2. CASE v \in snaps
      <4>1. v.time <= n.time
        BY <2>1, <2>5, <3>2 DEF IsNewest
      <4> QED BY <1>1, <1>3, <2>4, <4>1
    <3> QED BY <2>3, <3>1, <3>2
  <2>6. IsNewest(u)'
    BY <2>5 DEF IsNewest
  <2> QED BY <2>1, <2>4, <2>6
<1> QED BY <1>4, <1>5

\* What the keep rules and the space rule put on a list has a newer snapshot.
LEMMA ListedIsSuperseded ==
  ASSUME TypeOK, Unique, NEW D, Listed(D), NEW s \in D, s.group \notin touched
  PROVE  \E n \in snaps : IsNewest(n) /\ n.group = s.group /\ n.time > s.time
<1>1. PICK K \in SUBSET snaps : Newest(K) /\ D \cap K = {}
  BY DEF Listed, KeepRules
<1>2. s \in snaps
  BY DEF Listed
<1>3. PICK n \in K : n.group = s.group /\ n.time >= s.time
  BY <1>1, <1>2 DEF Newest
<1>4. n \in snaps /\ n # s
  BY <1>1, <1>3
<1>5. n.time # s.time
  BY <1>2, <1>3, <1>4 DEF Unique
<1>6. n.time \in Int /\ s.time \in Int
  BY <1>2, <1>4, SnapshotParts DEF TypeOK
<1>7. ASSUME NEW u \in snaps, u.group = n.group PROVE u.time <= n.time
  <2>1. PICK m \in K : m.group = u.group /\ m.time >= u.time
    BY <1>1 DEF Newest
  <2>2. m = n
    BY <1>1, <1>7, <2>1 DEF Newest
  <2>3. u.time \in Int
    BY SnapshotParts DEF TypeOK
  <2> QED BY <1>6, <2>1, <2>2, <2>3
<1>8. IsNewest(n)
  BY <1>4, <1>7 DEF IsNewest
<1> QED BY <1>3, <1>4, <1>5, <1>6, <1>8

LEMMA SupersededStep == Inv /\ [Next]_vars => Superseded'
<1> SUFFICES ASSUME Inv, [Next]_vars, NEW j \in Jobs, NEW s \in doomed'[j],
                    s.group \notin touched'
             PROVE  \E n \in snaps' : IsNewest(n)' /\ n.group = s.group /\ n.time > s.time
  BY DEF Superseded
<1> USE DEF Inv
<1>0. s.group \notin touched
  BY Monotone
<1>1. CASE s \in doomed[j]
  <2>1. PICK n \in snaps : IsNewest(n) /\ n.group = s.group /\ n.time > s.time
    BY <1>0, <1>1 DEF Superseded
  <2>2. s \in Snapshots
    BY <1>1 DEF TypeOK
  <2> QED BY <2>1, <2>2, NewerStays
<1>2. CASE snaps' = snaps /\ touched' = touched /\ Listed(doomed'[j])
  <2>1. PICK n \in snaps : IsNewest(n) /\ n.group = s.group /\ n.time > s.time
    BY <1>0, <1>2, ListedIsSuperseded
  <2>2. IsNewest(n)'
    BY <1>2, <2>1 DEF IsNewest
  <2> QED BY <1>2, <2>1, <2>2
<1> QED BY <1>1, <1>2, DoomedStep

LEMMA ByHandStep == Inv /\ [Next]_vars => ByHand'
<1> SUFFICES ASSUME Inv, [Next]_vars, NEW k \in Lockers
             PROVE  /\ \A s, u \in file'[k] : s = u
                    /\ op'[k] \in {"find", "delete"} => \A s \in file'[k] : s.group \in touched'
  BY DEF ByHand
<1> USE DEF Inv
<1>1. \A s, u \in file'[k] : s = u
  <2>1. CASE \E u \in snaps : LockList(k, u)
    BY <2>1 DEF LockList, TypeOK
  <2>2. CASE ~ \E u \in snaps : LockList(k, u)
    <3>1. file'[k] \subseteq file[k]
      BY <2>2, FileStep
    <3> QED BY <3>1 DEF ByHand
  <2> QED BY <2>1, <2>2
<1>2. ASSUME op'[k] \in {"find", "delete"}, NEW s \in file'[k] PROVE s.group \in touched'
  <2>1. s \in file[k]
    BY <1>2, FileStep
  <2>2. CASE op[k] \in {"find", "delete"}
    BY <2>1, <2>2, Monotone DEF ByHand
  <2>3. CASE op[k] \notin {"find", "delete"}
    <3>1. ASSUME NEW j \in Jobs, JobStep(j) PROVE FALSE
      BY <1>2, <2>3, <3>1, JobsAndLockers DEF lockVars
    <3>2. ASSUME NEW l \in Lockers, LockStep(l) PROVE LockSave(k)
      BY <1>2, <2>3, <3>2 DEF LockStep, LockList, LockSave, LockFind, LockDelete, LockFails,
                              LockDrop, LockEnd, TypeOK
    <3>3. LockSave(k)
      BY <1>2, <2>3, <3>1, <3>2 DEF Next, Crash, vars
    <3>4. PICK f \in file[k] : touched' = touched \cup {f.group}
      BY <3>3 DEF LockSave
    <3>5. f = s
      BY <2>1 DEF ByHand
    <3> QED BY <3>4, <3>5
  <2> QED BY <2>2, <2>3
<1> QED BY <1>1, <1>2

LEMMA InvStep == Inv /\ [Next]_vars => Inv'
BY TypeStep, FiniteStep, RoundsStep, TimesStep, UniqueStep, IdsStep, UnlockedStep,
   SupersededStep, ByHandStep DEF Inv

LEMMA InvInit == Init => Inv
<1> SUFFICES ASSUME Init PROVE Inv
  OBVIOUS
<1>1. TypeOK
  BY RetentionAssumption, NoArgsType DEF Init, TypeOK
<1>2. Finite
  BY FS_EmptySet DEF Init, Finite
<1>3. Rounds /\ Times /\ Unique /\ Ids /\ Unlocked /\ Superseded /\ ByHand
  BY NoArgsType DEF Init, Rounds, Times, Pending, Unique, Ids, Unlocked, Superseded, ByHand
<1> QED BY <1>1, <1>2, <1>3 DEF Inv

\* Backups, retention runs, forgets and lock requests keep the state in its
\* types; in particular the circuit breaker of space_step ends a run before
\* its count of empty rounds reaches two, and no run exceeds its rounds.
THEOREM TypeCorrect == Spec => []TypeOK
<1>1. Inv => TypeOK
  BY DEF Inv
<1>2. QED
  BY <1>1, InvInit, InvStep, PTL DEF Spec

\* However old the lists are that jobs and requests act upon, a locked
\* snapshot disappears only when it is unlocked or when its deletion is
\* asked for with include_locked (retention.rs, server.rs forget).
THEOREM LockedSafe == Spec => LockedStays
<1> DEFINE Stay == \A s \in snaps : s.locked /\ s \notin snaps' =>
       \/ \E k \in Lockers : op[k] = "delete" /\ s \in file[k]
       \/ \E j \in Jobs : pc[j] = "forget_delete" /\ args[j].include /\ s.id \in args[j].ids
<1>1. ASSUME Inv, [Next]_vars, NEW s \in snaps, s.locked, s \notin snaps'
      PROVE  \/ \E k \in Lockers : op[k] = "delete" /\ s \in file[k]
             \/ \E j \in Jobs : pc[j] = "forget_delete" /\ args[j].include /\ s.id \in args[j].ids
  <2>1. ASSUME NEW j \in Jobs, JobStep(j)
        PROVE  pc[j] = "forget_delete" /\ args[j].include /\ s.id \in args[j].ids
    <3>1. s \notin doomed[j]
      BY <1>1 DEF Inv, Unlocked
    <3>2. ForgetDelete(j)
      BY <1>1, <2>1, <3>1 DEF JobStep, Backup, ApplyRetention, Forget, Save, SaveFails, TimeList,
         TimeDelete, EndSpace, SpaceList, SpaceDelete, SpaceFails, ForgetCheck
    <3>3. pc[j] = "forget_delete" /\ s.id \in args[j].ids
      BY <1>1, <3>2 DEF ForgetDelete, Forgotten
    <3>4. args[j].include
      BY <1>1, <3>3 DEF Inv, Unlocked
    <3> QED BY <3>3, <3>4
  <2>2. ASSUME NEW k \in Lockers, LockStep(k)
        PROVE  op[k] = "delete" /\ s \in file[k]
    <3>1. snaps \subseteq snaps' \/ LockDelete(k)
      BY <2>2 DEF LockStep, LockList, LockSave, LockFind, LockFails, LockDrop
    <3>2. LockDelete(k)
      BY <1>1, <3>1
    <3> QED BY <1>1, <3>2 DEF LockDelete
  <2> QED BY <1>1, <2>1, <2>2 DEF Next, Crash, vars
<1>2. Inv /\ [Next]_vars => [Stay]_vars
  BY <1>1
<1>3. QED
  BY <1>2, InvInit, InvStep, PTL DEF Spec, LockedStays

\* For any number of jobs, groups and requests: the newest snapshot of a
\* group nobody touched by hand stays until the group has a newer one
\* (retention.rs fifo_candidates and time_step).
THEOREM NewestSafe == Spec => NewestKept
<1> DEFINE Kept == \A s \in snaps : s \notin snaps' /\ s.group \notin touched' =>
       \E n \in snaps' : n.group = s.group /\ n.time > s.time
<1>1. ASSUME Inv, [Next]_vars, NEW s \in snaps, s \notin snaps', s.group \notin touched'
      PROVE  \E n \in snaps' : n.group = s.group /\ n.time > s.time
  <2>1. PICK j \in Jobs : s \in doomed[j]
    BY <1>1, Removal DEF Inv
  <2>2. s.group \notin touched /\ s \in Snapshots
    BY <1>1, Monotone DEF Inv, TypeOK
  <2>3. PICK n \in snaps : IsNewest(n) /\ n.group = s.group /\ n.time > s.time
    BY <1>1, <2>1, <2>2 DEF Inv, Superseded
  <2> QED BY <1>1, <2>2, <2>3, NewerStays
<1>2. Inv /\ [Next]_vars => [Kept]_vars
  BY <1>1
<1>3. QED
  BY <1>2, InvInit, InvStep, PTL DEF Spec, NewestKept

-----------------------------------------------------------------------------
(* KeyRotation *)

\* A request that has not read the configuration has no changes to handle.
Fresh ==
  \A t \in Requests :
    loc[t] \in {"idle", "get_users"} => todo[t] = {} /\ missing[t] = {}

\* SetVfs requests come one at a time.
OneRequest == \A t, u \in Requests : t = u

\* What a request read is still in the database until it commits, and what
\* it committed until it is over.
Current ==
  \A t \in Requests :
    /\ loc[t] = "add" => old[t] = db
    /\ loc[t] = "remove" => db = new[t]

\* A change phase 1 is through with is made in the repository, if there is one.
Added ==
  \A t \in Requests :
    loc[t] = "add" /\ ~ dropped[t] =>
      \A p \in Changes(old[t], new[t]) \ (todo[t] \cup missing[t]) :
        new[t][p].pw \in keys[old[t][p].target]

RotationInv == RotationTypeOK /\ Fresh
SafeInv == RotationInv /\ Current /\ Added

-----------------------------------------------------------------------------

LEMMA NothingIsConfig == Nothing \in Configs
BY DEF Nothing, Configs

LEMMA ChangesAreSettings ==
  ASSUME NEW c \in Configs, NEW d \in Configs, NEW p \in Changes(c, d)
  PROVE  /\ p \in Points
         /\ c[p] \in Settings /\ d[p] \in Settings
         /\ c[p].target \in Targets /\ c[p].target = d[p].target
         /\ c[p].pw \in Passwords /\ d[p].pw \in Passwords /\ c[p].pw # d[p].pw
BY DEF Changes, Configs, Settings

\* The end of a request, whatever it was doing.
LEMMA ReturnKeepsInv ==
  ASSUME RotationInv, NEW t \in Requests, Return(t), UNCHANGED <<db, opening>>,
         keys' \in [Targets -> SUBSET Passwords]
  PROVE  RotationInv'
<1>1. RotationTypeOK'
  <2>1. /\ db' \in Configs /\ opening' \in [Openers -> Settings \cup {Absent}]
        /\ loc' \in [Requests -> {"idle", "get_users", "add", "remove"}]
        /\ old' \in [Requests -> Configs] /\ new' \in [Requests -> Configs]
        /\ todo' \in [Requests -> SUBSET Points] /\ missing' \in [Requests -> SUBSET Points]
        /\ dropped' \in [Requests -> BOOLEAN]
    BY NothingIsConfig DEF RotationInv, RotationTypeOK, Return, RotationGoto
  <2>2. ASSUME NEW u \in Requests
        PROVE  /\ todo'[u] \cup missing'[u] \subseteq Changes(old'[u], new'[u])
               /\ dropped'[u] => todo'[u] # {}
    <3>1. CASE u = t
      BY <3>1 DEF RotationInv, RotationTypeOK, Return
    <3>2. CASE u # t
      BY <3>2 DEF RotationInv, RotationTypeOK, Return
    <3> QED BY <3>1, <3>2
  <2> QED BY <2>1, <2>2 DEF RotationTypeOK
<1>2. Fresh'
  BY DEF RotationInv, RotationTypeOK, Fresh, Return, RotationGoto
<1> QED BY <1>1, <1>2 DEF RotationInv

\* A key operation that ends: its change is handled, or its request is over.
LEMMA HandledKeepsInv ==
  ASSUME RotationInv, NEW t \in Requests, NEW p \in todo[t], Handled(t, p),
         loc[t] \in {"add", "remove"},
         ~ dropped[t] => missing' \in {missing, [missing EXCEPT ![t] = @ \cup {p}]},
         UNCHANGED <<db, opening>>, keys' \in [Targets -> SUBSET Passwords]
  PROVE  RotationInv'
<1>1. CASE dropped[t]
  BY <1>1, ReturnKeepsInv DEF Handled
<1>2. CASE ~ dropped[t]
  <2>1. /\ todo' = [todo EXCEPT ![t] = @ \ {p}]
        /\ UNCHANGED <<loc, old, new, dropped>>
        /\ missing' \in {missing, [missing EXCEPT ![t] = @ \cup {p}]}
    BY <1>2 DEF Handled
  <2>2. p \in Points /\ p \in Changes(old[t], new[t])
    BY DEF RotationInv, RotationTypeOK
  <2>3. missing' \in [Requests -> SUBSET Points]
    BY <2>1, <2>2 DEF RotationInv, RotationTypeOK
  <2>4. ASSUME NEW u \in Requests
        PROVE  /\ todo'[u] \cup missing'[u] \subseteq Changes(old'[u], new'[u])
               /\ dropped'[u] => todo'[u] # {}
    <3>1. CASE u = t
      BY <1>2, <2>1, <2>2, <3>1 DEF RotationInv, RotationTypeOK
    <3>2. CASE u # t
      BY <2>1, <3>2 DEF RotationInv, RotationTypeOK
    <3> QED BY <3>1, <3>2
  <2>5. RotationTypeOK'
    BY <2>1, <2>3, <2>4 DEF RotationInv, RotationTypeOK
  <2>6. Fresh'
    BY <2>1 DEF RotationInv, RotationTypeOK, Fresh
  <2> QED BY <2>5, <2>6 DEF RotationInv
<1> QED BY <1>1, <1>2

\* A request that goes on without its client has its key operation left.
LEMMA DropKeepsInv ==
  ASSUME RotationInv, NEW t \in Requests, Drop(t)
  PROVE  RotationInv'
<1>0. keys' \in [Targets -> SUBSET Passwords] /\ UNCHANGED <<db, opening>>
  BY DEF RotationInv, RotationTypeOK, Drop
<1>1. CASE Return(t)
  BY <1>0, <1>1, ReturnKeepsInv
<1>2. CASE \E p \in todo[t] :
             /\ loc[t] \in {"add", "remove"}
             /\ todo' = [todo EXCEPT ![t] = {p}]
             /\ dropped' = [dropped EXCEPT ![t] = TRUE]
             /\ UNCHANGED <<loc, old, new, missing>>
  <2>1. PICK p \in todo[t] :
          /\ loc[t] \in {"add", "remove"}
          /\ todo' = [todo EXCEPT ![t] = {p}]
          /\ dropped' = [dropped EXCEPT ![t] = TRUE]
          /\ UNCHANGED <<loc, old, new, missing>>
    BY <1>2
  <2>2. ASSUME NEW u \in Requests
        PROVE  /\ todo'[u] \cup missing'[u] \subseteq Changes(old'[u], new'[u])
               /\ dropped'[u] => todo'[u] # {}
    <3>1. CASE u = t
      BY <2>1, <3>1 DEF RotationInv, RotationTypeOK
    <3>2. CASE u # t
      BY <2>1, <3>2 DEF RotationInv, RotationTypeOK
    <3> QED BY <3>1, <3>2
  <2>3. RotationTypeOK'
    BY <1>0, <2>1, <2>2 DEF RotationInv, RotationTypeOK
  <2>4. Fresh'
    BY <2>1 DEF RotationInv, RotationTypeOK, Fresh
  <2> QED BY <2>3, <2>4 DEF RotationInv
<1> QED BY <1>1, <1>2 DEF Drop

LEMMA RotationInvStep == RotationInv /\ [RotationNext]_rotationVars => RotationInv'
<1> SUFFICES ASSUME RotationInv, [RotationNext]_rotationVars PROVE RotationInv'
  OBVIOUS
<1>0. keys \in [Targets -> SUBSET Passwords]
  BY DEF RotationInv, RotationTypeOK
<1>1. ASSUME NEW t \in Requests, NEW c \in Configs, SetVfs(t, c) PROVE RotationInv'
  <2>1. ASSUME NEW u \in Requests
        PROVE  /\ todo'[u] \cup missing'[u] \subseteq Changes(old'[u], new'[u])
               /\ dropped'[u] => todo'[u] # {}
    <3>1. CASE u = t
      BY <1>1, <3>1 DEF SetVfs, RotationInv, RotationTypeOK, Fresh
    <3>2. CASE u # t
      BY <1>1, <3>2 DEF SetVfs, RotationInv, RotationTypeOK
    <3> QED BY <3>1, <3>2
  <2>2. RotationTypeOK'
    BY <1>1, <2>1 DEF SetVfs, RotationGoto, RotationInv, RotationTypeOK
  <2>3. Fresh'
    BY <1>1 DEF SetVfs, RotationGoto, RotationInv, RotationTypeOK, Fresh
  <2> QED BY <2>2, <2>3 DEF RotationInv
<1>2. ASSUME NEW t \in Requests, GetUsers(t) PROVE RotationInv'
  <2>1. Changes(db, new[t]) \in SUBSET Points
    BY DEF Changes
  <2>2. ASSUME NEW u \in Requests
        PROVE  /\ todo'[u] \cup missing'[u] \subseteq Changes(old'[u], new'[u])
               /\ dropped'[u] => todo'[u] # {}
    <3>1. CASE u = t
      BY <1>2, <2>1, <3>1 DEF GetUsers, RotationInv, RotationTypeOK, Fresh
    <3>2. CASE u # t
      BY <1>2, <3>2 DEF GetUsers, RotationInv, RotationTypeOK
    <3> QED BY <3>1, <3>2
  <2>3. RotationTypeOK'
    BY <1>2, <2>1, <2>2 DEF GetUsers, RotationGoto, RotationInv, RotationTypeOK
  <2>4. Fresh'
    BY <1>2 DEF GetUsers, RotationGoto, RotationInv, RotationTypeOK, Fresh
  <2> QED BY <2>3, <2>4 DEF RotationInv
<1>3. ASSUME NEW t \in Requests, NEW p \in Points, AddNothing(t, p) PROVE RotationInv'
  <2>1. ~ dropped[t] => missing' \in {missing, [missing EXCEPT ![t] = @ \cup {p}]}
    <3>1. ASSUME ~ dropped[t], keys[old[t][p].target] = {}
          PROVE  missing' = [missing EXCEPT ![t] = @ \cup {p}]
      BY <1>3, <3>1 DEF AddNothing
    <3>2. ASSUME ~ dropped[t], keys[old[t][p].target] # {}
          PROVE  missing' = missing
      BY <1>3, <3>2 DEF AddNothing, RotationInv, RotationTypeOK
    <3> QED BY <3>1, <3>2
  <2> QED BY <1>0, <1>3, <2>1, HandledKeepsInv DEF AddNothing
<1>4. ASSUME NEW t \in Requests, NEW p \in Points, AddKey(t, p) PROVE RotationInv'
  <2>1. p \in Changes(old[t], new[t]) /\ old[t] \in Configs /\ new[t] \in Configs
    BY <1>4 DEF AddKey, RotationInv, RotationTypeOK
  <2>2. keys' \in [Targets -> SUBSET Passwords]
    BY <1>0, <1>4, <2>1, ChangesAreSettings DEF AddKey
  <2> QED BY <1>4, <2>2, HandledKeepsInv DEF AddKey
<1>5. ASSUME NEW t \in Requests, NEW p \in Points, AddFails(t, p) PROVE RotationInv'
  BY <1>0, <1>5, ReturnKeepsInv DEF AddFails
<1>6. ASSUME NEW t \in Requests, SetUsers(t) PROVE RotationInv'
  <2>1. Changes(old[t], new[t]) \in SUBSET Points
    BY DEF Changes
  <2>2. ASSUME NEW u \in Requests
        PROVE  /\ todo'[u] \cup missing'[u] \subseteq Changes(old'[u], new'[u])
               /\ dropped'[u] => todo'[u] # {}
    <3>1. CASE u = t
      BY <1>6, <2>1, <3>1 DEF SetUsers, RotationInv, RotationTypeOK
    <3>2. CASE u # t
      BY <1>6, <3>2 DEF SetUsers, RotationInv, RotationTypeOK
    <3> QED BY <3>1, <3>2
  <2>3. RotationTypeOK'
    BY <1>6, <2>1, <2>2 DEF SetUsers, RotationGoto, RotationInv, RotationTypeOK
  <2>4. Fresh'
    BY <1>6 DEF SetUsers, RotationGoto, RotationInv, RotationTypeOK, Fresh
  <2> QED BY <2>3, <2>4 DEF RotationInv
<1>7. ASSUME NEW t \in Requests, SetUsersFails(t) \/ Done(t) PROVE RotationInv'
  BY <1>0, <1>7, ReturnKeepsInv DEF SetUsersFails, Done
<1>8. ASSUME NEW t \in Requests, NEW p \in Points, RemoveKey(t, p) PROVE RotationInv'
  <2>1. p \in Changes(old[t], new[t]) /\ old[t] \in Configs /\ new[t] \in Configs
    BY <1>8 DEF RemoveKey, RotationInv, RotationTypeOK
  <2>2. keys' \in [Targets -> SUBSET Passwords]
    BY <1>0, <1>8, <2>1, ChangesAreSettings DEF RemoveKey
  <2> QED BY <1>8, <2>2, HandledKeepsInv DEF RemoveKey
<1>9. ASSUME NEW t \in Requests, NEW p \in Points, RemoveNothing(t, p) PROVE RotationInv'
  BY <1>0, <1>9, HandledKeepsInv DEF RemoveNothing
<1>10. ASSUME NEW o \in Openers, NEW p \in Points, Open(o, p) PROVE RotationInv'
  <2>1. db[p] \in Settings
    BY <1>10 DEF Open, RotationInv, RotationTypeOK, Configs
  <2> QED BY <1>10, <2>1 DEF Open, requestVars, RotationInv, RotationTypeOK, Fresh
<1>11. ASSUME NEW o \in Openers, InitRepo(o) PROVE RotationInv'
  <2>1. opening[o].target \in Targets /\ opening[o].pw \in Passwords
    BY <1>11 DEF InitRepo, RotationInv, RotationTypeOK, Settings
  <2> QED BY <1>11, <2>1 DEF InitRepo, requestVars, RotationInv, RotationTypeOK, Fresh
<1>12. CASE RotationCrash
  BY <1>12, NothingIsConfig DEF RotationCrash, RotationInv, RotationTypeOK, Fresh
<1>13. CASE UNCHANGED rotationVars
  BY <1>13 DEF rotationVars, RotationInv, RotationTypeOK, Fresh
<1> QED
  BY <1>1, <1>2, <1>3, <1>4, <1>5, <1>6, <1>7, <1>8, <1>9, <1>10, <1>11, <1>12, <1>13,
     DropKeepsInv DEF RotationNext, RequestStep

LEMMA RotationInvInit == RotationInit => RotationInv
BY NothingIsConfig DEF RotationInit, RotationInv, RotationTypeOK, Fresh

LEMMA InvHolds == RotationSpec => []RotationInv
<1>1. QED
  BY RotationInvInit, RotationInvStep, PTL DEF RotationSpec

\* set_vfs keeps its types for any number of overlapping requests: a phase
\* handles only the request's own password changes, and a request whose
\* client has left still has its blocking key operation to finish.
THEOREM RotationTypeCorrect == RotationSpec => []RotationTypeOK
<1>1. RotationInv => RotationTypeOK
  BY DEF RotationInv
<1>2. QED
  BY <1>1, InvHolds, PTL

-----------------------------------------------------------------------------
(* One request at a time. *)

\* Keys are only added, unless an old one is removed in phase 2.
LEMMA KeysGrow ==
  ASSUME RotationInv, [RotationNext]_rotationVars,
         ~ \E t \in Requests, p \in Points : RemoveKey(t, p)
  PROVE  \A r \in Targets : keys[r] \subseteq keys'[r]
<1>0. keys \in [Targets -> SUBSET Passwords]
  BY DEF RotationInv, RotationTypeOK
<1>1. ASSUME NEW t \in Requests, NEW p \in Points, AddKey(t, p)
      PROVE  \A r \in Targets : keys[r] \subseteq keys'[r]
  BY <1>0, <1>1 DEF AddKey
<1>2. ASSUME NEW o \in Openers, InitRepo(o)
      PROVE  \A r \in Targets : keys[r] \subseteq keys'[r]
  BY <1>0, <1>2 DEF InitRepo
<1>3. ASSUME keys' = keys
      PROVE  \A r \in Targets : keys[r] \subseteq keys'[r]
  BY <1>3
<1>4. \/ keys' = keys
      \/ \E t \in Requests, p \in Points : AddKey(t, p)
      \/ \E o \in Openers : InitRepo(o)
  BY DEF RotationNext, RequestStep, SetVfs, GetUsers, AddNothing, AddFails, RemoveNothing,
         SetUsers, SetUsersFails, Done, Drop, Open, RotationCrash, rotationVars
<1> QED BY <1>1, <1>2, <1>3, <1>4

LEMMA CurrentStep ==
  ASSUME OneRequest, SafeInv, [RotationNext]_rotationVars
  PROVE  Current'
<1> USE DEF SafeInv, RotationInv
<1>1. ASSUME NEW t \in Requests, Return(t), db' = db PROVE Current'
  BY <1>1 DEF OneRequest, RotationTypeOK, Return, RotationGoto, Current
<1>2. ASSUME UNCHANGED <<db, loc, old, new>> PROVE Current'
  BY <1>2 DEF Current
<1>3. ASSUME NEW t \in Requests, NEW p \in Points, Handled(t, p), db' = db PROVE Current'
  BY <1>1, <1>2, <1>3 DEF Handled
<1>4. ASSUME NEW t \in Requests, NEW c \in Configs, SetVfs(t, c) PROVE Current'
  BY <1>4 DEF OneRequest, RotationTypeOK, SetVfs, RotationGoto, Current
<1>5. ASSUME NEW t \in Requests, GetUsers(t) PROVE Current'
  BY <1>5 DEF OneRequest, RotationTypeOK, GetUsers, RotationGoto, Current
<1>6. ASSUME NEW t \in Requests, SetUsers(t) PROVE Current'
  BY <1>6 DEF OneRequest, RotationTypeOK, SetUsers, RotationGoto, Current
<1>7. ASSUME NEW t \in Requests, NEW p \in Points,
             AddNothing(t, p) \/ AddKey(t, p) \/ RemoveKey(t, p) \/ RemoveNothing(t, p)
      PROVE  Current'
  BY <1>3, <1>7 DEF AddNothing, AddKey, RemoveKey, RemoveNothing
<1>8. ASSUME NEW t \in Requests, NEW p \in Points, AddFails(t, p) PROVE Current'
  BY <1>1, <1>8 DEF AddFails
<1>9. ASSUME NEW t \in Requests, SetUsersFails(t) \/ Done(t) PROVE Current'
  BY <1>1, <1>9 DEF SetUsersFails, Done
<1>10. ASSUME NEW t \in Requests, Drop(t) PROVE Current'
  BY <1>1, <1>2, <1>10 DEF Drop
<1>11. ASSUME NEW o \in Openers, NEW p \in Points, Open(o, p) PROVE Current'
  BY <1>2, <1>11 DEF Open, requestVars
<1>12. ASSUME NEW o \in Openers, InitRepo(o) PROVE Current'
  BY <1>2, <1>12 DEF InitRepo, requestVars
<1>13. CASE RotationCrash
  BY <1>13 DEF RotationCrash, Current
<1>14. CASE UNCHANGED rotationVars
  BY <1>2, <1>14 DEF rotationVars
<1> QED
  BY <1>4, <1>5, <1>6, <1>7, <1>8, <1>9, <1>10, <1>11, <1>12, <1>13, <1>14
     DEF RotationNext, RequestStep

\* Every password change of a request is a change between configurations.
LEMMA RequestChanges ==
  ASSUME RotationTypeOK, NEW t \in Requests, NEW p \in Changes(old[t], new[t])
  PROVE  /\ p \in Points /\ old[t][p].target \in Targets
         /\ old[t][p].target = new[t][p].target
         /\ new[t][p].pw # old[t][p].pw
BY ChangesAreSettings DEF RotationTypeOK

LEMMA AddedStep ==
  ASSUME OneRequest, SafeInv, [RotationNext]_rotationVars
  PROVE  Added'
<1> USE DEF SafeInv, RotationInv
<1>1. ASSUME NEW t \in Requests, Return(t) PROVE Added'
  BY <1>1 DEF OneRequest, RotationTypeOK, Return, RotationGoto, Added
<1>2. ASSUME \A r \in Targets : keys[r] \subseteq keys'[r],
             UNCHANGED <<loc, old, new, todo, missing, dropped>>
      PROVE  Added'
  BY <1>2, RequestChanges DEF Added
<1>3. ASSUME NEW t \in Requests, loc'[t] # "add" PROVE Added'
  BY <1>3 DEF OneRequest, Added
<1>4. ASSUME NEW t \in Requests, NEW p \in todo[t], ~ dropped[t], Handled(t, p),
             \A r \in Targets : keys[r] \subseteq keys'[r],
             missing'[t] = missing[t] \cup {p}
               \/ (missing'[t] = missing[t] /\ new[t][p].pw \in keys'[old[t][p].target])
      PROVE  Added'
  <2>1. /\ todo'[t] = todo[t] \ {p}
        /\ UNCHANGED <<loc, old, new, dropped>>
    BY <1>4 DEF Handled, RotationTypeOK
  <2>2. SUFFICES ASSUME loc[t] = "add", NEW q \in Changes(old[t], new[t]),
                        q \notin todo'[t] \cup missing'[t]
                 PROVE  new[t][q].pw \in keys'[old[t][q].target]
    BY <2>1 DEF OneRequest, Added
  <2>3. CASE q = p
    BY <1>4, <2>2, <2>3
  <2>4. CASE q # p
    <3>1. q \in Changes(old[t], new[t]) \ (todo[t] \cup missing[t])
      BY <1>4, <2>1, <2>2, <2>4
    <3>2. new[t][q].pw \in keys[old[t][q].target]
      BY <1>4, <2>2, <3>1 DEF Added
    <3> QED BY <1>4, <2>2, <3>2, RequestChanges
  <2> QED BY <2>3, <2>4
<1>5. ASSUME NEW t \in Requests, NEW p \in Points, AddNothing(t, p) PROVE Added'
  <2>0. \A r \in Targets : keys[r] \subseteq keys'[r]
    BY <1>5 DEF AddNothing
  <2>1. CASE dropped[t]
    BY <1>1, <1>5, <2>1 DEF AddNothing, Handled
  <2>2. CASE ~ dropped[t] /\ keys[old[t][p].target] = {}
    <3>1. missing'[t] = missing[t] \cup {p}
      BY <1>5, <2>2 DEF AddNothing, RotationTypeOK
    <3> QED BY <1>4, <1>5, <2>0, <2>2, <3>1 DEF AddNothing
  <2>3. CASE ~ dropped[t] /\ keys[old[t][p].target] # {}
    <3>1. missing'[t] = missing[t]
      BY <1>5, <2>3 DEF AddNothing, RotationTypeOK
    <3>2. new[t][p].pw \in keys'[old[t][p].target]
      BY <1>5, <2>3 DEF AddNothing
    <3> QED BY <1>4, <1>5, <2>0, <2>3, <3>1, <3>2 DEF AddNothing
  <2> QED BY <2>1, <2>2, <2>3
<1>6. ASSUME NEW t \in Requests, NEW p \in Points, AddKey(t, p) PROVE Added'
  <2>1. CASE dropped[t]
    BY <1>1, <1>6, <2>1 DEF AddKey, Handled
  <2>2. CASE ~ dropped[t]
    <3>1. p \in todo[t] /\ old[t][p].target \in Targets
      BY <1>6, RequestChanges DEF AddKey, RotationTypeOK
    <3>2. /\ \A r \in Targets : keys[r] \subseteq keys'[r]
          /\ new[t][p].pw \in keys'[old[t][p].target]
      BY <1>6, <3>1 DEF AddKey, RotationTypeOK
    <3>3. missing'[t] = missing[t]
      BY <1>6, <2>2 DEF AddKey
    <3> QED BY <1>4, <1>6, <2>2, <3>1, <3>2, <3>3 DEF AddKey
  <2> QED BY <2>1, <2>2
<1>7. ASSUME NEW t \in Requests, NEW p \in Points,
             AddFails(t, p) \/ SetUsersFails(t) \/ Done(t)
      PROVE  Added'
  BY <1>1, <1>7 DEF AddFails, SetUsersFails, Done
<1>8. ASSUME NEW t \in Requests, NEW p \in Points, RemoveKey(t, p) \/ RemoveNothing(t, p)
      PROVE  Added'
  BY <1>1, <1>3, <1>8 DEF RemoveKey, RemoveNothing, Handled
<1>9. ASSUME NEW t \in Requests, NEW c \in Configs, SetVfs(t, c) \/ SetUsers(t)
      PROVE  Added'
  BY <1>3, <1>9 DEF SetVfs, SetUsers, RotationGoto, RotationTypeOK
<1>10. ASSUME NEW t \in Requests, GetUsers(t) PROVE Added'
  BY <1>10 DEF OneRequest, GetUsers, RotationTypeOK, Added
<1>11. ASSUME NEW t \in Requests, Drop(t) PROVE Added'
  <2>1. CASE Return(t)
    BY <1>1, <2>1
  <2>2. CASE ~ Return(t)
    <3>1. dropped'[t]
      BY <1>11, <2>2 DEF Drop, RotationTypeOK
    <3> QED BY <3>1 DEF OneRequest, Added
  <2> QED BY <2>1, <2>2
<1>12. ASSUME NEW o \in Openers, NEW p \in Points, Open(o, p) PROVE Added'
  BY <1>2, <1>12 DEF Open, requestVars
<1>13. ASSUME NEW o \in Openers, InitRepo(o) PROVE Added'
  <2>1. \A r \in Targets : keys[r] \subseteq keys'[r]
    BY <1>13 DEF InitRepo, RotationTypeOK
  <2> QED BY <1>2, <1>13, <2>1 DEF InitRepo, requestVars
<1>14. CASE RotationCrash
  BY <1>14 DEF RotationCrash, Added
<1>15. CASE UNCHANGED rotationVars
  BY <1>2, <1>15 DEF rotationVars
<1>16. Points # {}
  BY RotationAssumption
<1>17. Configs # {}
  BY NothingIsConfig
<1> QED
  BY <1>5, <1>6, <1>7, <1>8, <1>9, <1>10, <1>11, <1>12, <1>13, <1>14, <1>15, <1>16, <1>17
     DEF RotationNext, RequestStep

LEMMA SafeInvStep ==
  ASSUME OneRequest
  PROVE  SafeInv /\ [RotationNext]_rotationVars => SafeInv'
BY RotationInvStep, CurrentStep, AddedStep DEF SafeInv

\* The database is written by SetUsers only.
LEMMA OnlyCommit ==
  ASSUME [RotationNext]_rotationVars, ~ \E t \in Requests : SetUsers(t)
  PROVE  db' = db
<1>1. ASSUME NEW t \in Requests, RequestStep(t), ~ SetUsers(t) PROVE db' = db
  <2>1. ASSUME \/ \E c \in Configs : SetVfs(t, c)
               \/ GetUsers(t) \/ SetUsersFails(t) \/ Done(t) \/ Drop(t)
        PROVE  db' = db
    BY <2>1 DEF SetVfs, GetUsers, SetUsersFails, Done, Drop
  <2>2. ASSUME NEW p \in Points, AddNothing(t, p) \/ AddKey(t, p) \/ AddFails(t, p)
        PROVE  db' = db
    BY <2>2 DEF AddNothing, AddKey, AddFails
  <2>3. ASSUME NEW p \in Points, RemoveKey(t, p) \/ RemoveNothing(t, p) PROVE db' = db
    BY <2>3 DEF RemoveKey, RemoveNothing
  <2> QED BY <1>1, <2>1, <2>2, <2>3 DEF RequestStep
<1>2. ASSUME NEW o \in Openers, (\E p \in Points : Open(o, p)) \/ InitRepo(o) PROVE db' = db
  BY <1>2 DEF Open, InitRepo
<1>3. RotationCrash \/ UNCHANGED rotationVars => db' = db
  BY DEF RotationCrash, rotationVars
<1> QED BY <1>1, <1>2, <1>3 DEF RotationNext

LEMMA OpeningStep ==
  ASSUME SafeInv, [RotationNext]_rotationVars, NEW p \in Points
  PROVE  StaysOpen(p)
<1> SUFFICES ASSUME Opens(p), Sole(p), db'[p] # Absent, db'[p].target = db[p].target,
                    \A t \in Requests : p \notin missing[t]
             PROVE  Opens(p)'
  BY DEF StaysOpen
<1> USE DEF SafeInv, RotationInv
<1>0. db[p] # Absent /\ db[p].target \in Targets /\ db[p].pw \in keys[db[p].target]
  BY DEF Opens, RotationTypeOK, Configs, Settings
<1>1. ASSUME NEW t \in Requests, SetUsers(t) PROVE Opens(p)'
  <2>1. db' = new[t] /\ keys' = keys /\ old[t] = db /\ todo[t] = {} /\ loc[t] = "add"
    BY <1>1 DEF SetUsers, Current
  <2>2. CASE db[p].pw = new[t][p].pw
    BY <1>0, <2>1, <2>2 DEF Opens
  <2>3. CASE db[p].pw # new[t][p].pw
    <3>1. p \in Changes(old[t], new[t]) \ (todo[t] \cup missing[t])
      BY <1>0, <2>1, <2>3 DEF Changes
    <3>2. ~ dropped[t]
      BY <2>1 DEF RotationTypeOK
    <3>3. new[t][p].pw \in keys[old[t][p].target]
      BY <2>1, <3>1, <3>2 DEF Added
    <3> QED BY <2>1, <3>3 DEF Opens
  <2> QED BY <2>2, <2>3
<1>2. ASSUME NEW t \in Requests, NEW q \in Points, RemoveKey(t, q) PROVE Opens(p)'
  <2>1. db' = db /\ db = new[t] /\ q \in Changes(old[t], new[t])
    BY <1>2 DEF RemoveKey, Current, RotationTypeOK
  <2>2. /\ db[q] # Absent /\ db[q].target = old[t][q].target
        /\ db[q].pw # old[t][q].pw /\ old[t][q].target \in Targets
    BY <2>1, RequestChanges DEF Changes
  <2>3. keys' = [keys EXCEPT ![old[t][q].target] = @ \ {old[t][q].pw}]
    BY <1>2 DEF RemoveKey
  <2>4. CASE q = p
    BY <1>0, <2>1, <2>2, <2>3, <2>4 DEF Opens, RotationTypeOK
  <2>5. CASE q # p
    <3>1. db[q].target # db[p].target
      BY <2>2, <2>5 DEF Sole
    <3> QED BY <1>0, <2>1, <2>2, <2>3, <3>1 DEF Opens, RotationTypeOK
  <2> QED BY <2>4, <2>5
<1>3. CASE /\ ~ \E t \in Requests : SetUsers(t)
           /\ ~ \E t \in Requests, q \in Points : RemoveKey(t, q)
  <2>1. keys[db[p].target] \subseteq keys'[db[p].target]
    BY <1>0, <1>3, KeysGrow
  <2> QED BY <1>0, <1>3, <2>1, OnlyCommit DEF Opens
<1> QED BY <1>1, <1>2, <1>3

\* set_vfs with one request at a time: a repository that opens with the
\* configured password goes on to do so when its password is rotated, when a
\* phase fails half way, when the client leaves during a key operation and
\* when the process crashes between the phases.
THEOREM KeyRotationSafe ==
  ASSUME OneRequest
  PROVE  RotationSpec => KeepsOpening
<1>1. RotationInit => SafeInv
  BY RotationInvInit DEF RotationInit, SafeInv, Current, Added
<1>2. SafeInv /\ [RotationNext]_rotationVars => SafeInv'
  BY SafeInvStep
<1>3. SafeInv /\ [RotationNext]_rotationVars => [\A p \in Points : StaysOpen(p)]_rotationVars
  BY OpeningStep
<1>4. QED
  BY <1>1, <1>2, <1>3, PTL DEF RotationSpec, KeepsOpening
=============================================================================
