------------------------------- MODULE Update -------------------------------
(***************************************************************************)
(* The self-update (src/src/update.rs): what run_update_stream does to the *)
(* downloaded file and to the installed binary, one task per agent.update  *)
(* request.  A task belongs to no connection once it runs, so two of them  *)
(* can be at work at once; both use the one TMP_PATH and INSTALL_PATH.     *)
(*                                                                         *)
(* A path names an inode.  curl writes the inode it opened even when the   *)
(* path has been renamed since, and truncates whatever the path named.     *)
(* What an inode holds is the set of builds whose bytes are in it and      *)
(* whether the writer that truncated it last has come to its end.  The     *)
(* release server changes its files while updates run.  Restarting the     *)
(* service kills every task and its children (the unit's control group).   *)
(***************************************************************************)
EXTENDS Naturals, FiniteSets

CONSTANTS
  Task,        \* update tasks that may run at once
  Inode,       \* inodes of the two paths and of their writers
  Version,     \* release versions, a set of naturals
  Batches,     \* sets of files a release replaces at once, of ServerFiles
  Damages,     \* {Damaged} if a download may be damaged on its way, or {}
  Rollbacks,   \* the server may go back to an older release
  SameFs,      \* TMP_PATH and INSTALL_PATH are on one file system
  Sudo,        \* the sudoers rule for the restart is installed
  MaxCrashes,  \* bound on crashes
  NoInode, NoTask, NoVersion, Damaged, Down

ServerFiles == {"version", "binary", "sum"}

ASSUME UpdateAssumption ==
  /\ Version \subseteq Nat
  /\ Batches \subseteq SUBSET ServerFiles
  /\ Damages \subseteq {Damaged}
  /\ Rollbacks \in BOOLEAN /\ SameFs \in BOOLEAN /\ Sudo \in BOOLEAN
  /\ MaxCrashes \in Nat
  /\ NoInode \notin Inode /\ NoTask \notin Task
  \* Enough for the two paths and for the children of all tasks but one: a
  \* file system does not run out of inodes here.
  /\ IsFiniteSet(Task) /\ IsFiniteSet(Inode)
  /\ Cardinality(Inode) > 2 * Cardinality(Task)
  /\ {NoVersion, Damaged, Down} \cap Version = {}

VARIABLES
  offer,      \* what the server serves under each of its files
  tmp, bin,   \* the inodes TMP_PATH and INSTALL_PATH name
  content,    \* the builds in an inode, and whether they are whole
  opener,     \* the task whose curl or mv truncated an inode last
  task,       \* where a task stands in run_update_stream: see Progressing
  restartDue, \* a detached shell is about to restart the service
  running,    \* the version of the agent process
  crashes,
  \* History for the properties; no action reads it.
  unchecked   \* the binary in place was installed without verification

inodes      == <<content, opener>>
serviceVars == <<restartDue, running, crashes>>
vars == <<offer, tmp, bin, inodes, task, serviceVars, unchecked>>

-----------------------------------------------------------------------------
Builds == Version \cup {Damaged}

\* A task's step, the build its curl is receiving, the inode its child writes
\* and the one its mv reads, the checksum it fetched (that of a version),
\* whether its download passed it, and, idle again, what it returned.
Progressing ==
  [step : {"idle", "checking", "fetching", "downloading", "summing",
           "comparing", "preparing", "moving", "copying", "scheduling"},
   build : Builds \cup {NoVersion},
   out : Inode \cup {NoInode}, inp : Inode \cup {NoInode},
   want : Version \cup {NoVersion}, checked : BOOLEAN,
   outcome : {"none", "up_to_date", "failed", "updated", "restarting"}]

Idle == [step |-> "idle", build |-> NoVersion, out |-> NoInode, inp |-> NoInode,
         want |-> NoVersion, checked |-> FALSE, outcome |-> "none"]

Empty == [builds |-> {}, whole |-> FALSE]

\* One undamaged build, complete: what the release meant to ship.
Intact(i) ==
  i # NoInode /\ content[i].whole /\ \E v \in Version : content[i].builds = {v}

VersionOf(i) == CHOOSE v \in Version : content[i].builds = {v}

\* The inodes a path names or a child has open: the others are gone.
InUse == {tmp, bin} \cup UNION {{task[t].out, task[t].inp} : t \in Task}

\* An inode for a new file.  Which one does not matter.
Fresh == CHOOSE i \in Inode : i \notin InUse

\* What systemd gets by starting INSTALL_PATH.
Launch == IF Intact(bin) THEN VersionOf(bin) ELSE Down

TypeOK ==
  /\ offer \in [ServerFiles -> Version]
  /\ tmp \in Inode \cup {NoInode} /\ bin \in Inode
  /\ content \in [Inode -> [builds : SUBSET Builds, whole : BOOLEAN]]
  /\ opener \in [Inode -> Task \cup {NoTask}]
  /\ task \in [Task -> Progressing]
  /\ \A t \in Task :
       task[t].out # NoInode <=> task[t].step \in {"downloading", "copying"}
  /\ restartDue \in BOOLEAN
  /\ running \in Version \cup {Down}
  /\ crashes \in 0 .. MaxCrashes
  /\ unchecked \in BOOLEAN

\* A whole binary is installed and running; the server's files agree.
Init ==
  /\ \E v \in Version : offer = [f \in ServerFiles |-> v]
  /\ running \in Version
  /\ tmp = NoInode
  /\ bin = CHOOSE i \in Inode : TRUE
  /\ content = [i \in Inode |->
       IF i = bin THEN [builds |-> {running}, whole |-> TRUE] ELSE Empty]
  /\ opener = [i \in Inode |-> NoTask]
  /\ task = [t \in Task |-> Idle]
  /\ restartDue = FALSE
  /\ crashes = 0
  /\ unchecked = FALSE

-----------------------------------------------------------------------------
\* The inodes hold c and were opened by o, but for those this step frees.
Keep(c, o) ==
  /\ content' = [i \in Inode |-> IF i \in InUse' THEN c[i] ELSE Empty]
  /\ opener' = [i \in Inode |-> IF i \in InUse' THEN o[i] ELSE NoTask]

(* The release server and the service manager.                             *)

\* Some of the files are replaced by those of another release.
Publish(files, v) ==
  /\ Rollbacks \/ \A f \in files : offer[f] < v
  /\ offer' = [f \in ServerFiles |-> IF f \in files THEN v ELSE offer[f]]
  /\ UNCHANGED <<tmp, bin, inodes, task, serviceVars, unchecked>>

\* Every task dies with the process, and so do the children it started.
Relaunch ==
  /\ task' = [t \in Task |-> Idle]
  /\ restartDue' = FALSE
  /\ running' = Launch
  /\ UNCHANGED <<offer, tmp, bin, unchecked>>
  /\ Keep(content, opener)

\* sleep 3 && sudo systemctl restart nulnet
Restart ==
  /\ restartDue /\ Sudo
  /\ Relaunch
  /\ UNCHANGED crashes

\* The process, or the host, dies and the service is started again.
Crash ==
  /\ running # Down /\ crashes < MaxCrashes
  /\ crashes' = crashes + 1
  /\ Relaunch

-----------------------------------------------------------------------------
(* run_update_stream, one await at a time.                                 *)

At(t, s)   == task[t].step = s
Goto(t, s) == task' = [task EXCEPT ![t].step = s]

NoSideEffect == UNCHANGED <<offer, tmp, bin, inodes, serviceVars, unchecked>>

\* Mutant of Return: the child goes on without the task.
ReturnLeavesChild(t, o) ==
  task' = [task EXCEPT ![t].step = "idle", ![t].outcome = o]

\* The task returns: its children are gone, its locals with it.
Return(t, o) == task' = [task EXCEPT ![t] = [Idle EXCEPT !.outcome = o]]

Start(t) ==
  /\ running # Down /\ At(t, "idle")
  /\ task' = [task EXCEPT ![t] = [Idle EXCEPT !.step = "checking"]]
  /\ NoSideEffect

\* No version could be fetched.
CheckFails(t) == At(t, "checking") /\ Return(t, "failed") /\ NoSideEffect

\* An empty answer counts as up to date; a version must be strictly newer.
CheckUpToDate(t) == At(t, "checking") /\ Return(t, "up_to_date") /\ NoSideEffect

\* Mutant of Newer: an equal version is taken for a newer one.
NotOlder(v) == v >= running

Newer(v) == v > running

\* The version, fetched by one request, is newer: another one, for the binary,
\* is to follow.
CheckNewer(t) ==
  At(t, "checking") /\ Newer(offer["version"]) /\ Goto(t, "fetching") /\ NoSideEffect

\* curl -o TMP_PATH opens the file the path names, or creates it.
Truncate(t, i, b) ==
  /\ task' = [task EXCEPT ![t].step = "downloading", ![t].out = i,
                          ![t].build = b]
  /\ opener' = [opener EXCEPT ![i] = t]
  /\ content' = [content EXCEPT ![i] =
       [builds |-> {b} \cup {task[u].build : u \in {u \in Task : task[u].out = i}},
        whole |-> FALSE]]

\* curl is started, and is sent the binary of the moment.
Download(t) ==
  /\ At(t, "fetching")
  /\ tmp' = IF tmp = NoInode THEN Fresh ELSE tmp
  /\ \E b \in {offer["binary"]} \cup Damages : Truncate(t, tmp', b)
  /\ UNCHANGED <<offer, bin, serviceVars, unchecked>>

\* curl has its last byte.  The file is whole if nobody truncated it since.
Downloaded(t) ==
  LET i == task[t].out
  IN  /\ At(t, "downloading")
      /\ task' = [task EXCEPT ![t].step = "summing", ![t].out = NoInode,
                              ![t].build = NoVersion]
      /\ UNCHANGED <<offer, tmp, bin, serviceVars, unchecked>>
      /\ Keep([content EXCEPT ![i].whole = @ \/ opener[i] = t], opener)

\* Whatever was received stays at TMP_PATH.
DownloadFails(t) ==
  /\ At(t, "downloading")
  /\ Return(t, "failed")
  /\ UNCHANGED <<offer, tmp, bin, serviceVars, unchecked>>
  /\ Keep(content, opener)

FetchSum(t) ==
  /\ At(t, "summing")
  /\ task' = [task EXCEPT ![t].step = "comparing", ![t].want = offer["sum"]]
  /\ NoSideEffect

\* A malformed or unavailable checksum skips the verification.
SkipSum(t) == At(t, "summing") /\ Goto(t, "preparing") /\ NoSideEffect

\* Mutant of SumMatches: any complete download will do.
SumNotCompared(t) == tmp # NoInode /\ content[tmp].whole

SumMatches(t) == Intact(tmp) /\ VersionOf(tmp) = task[t].want

Verify(t) ==
  /\ At(t, "comparing")
  /\ SumMatches(t)
  /\ task' = [task EXCEPT ![t].step = "preparing", ![t].checked = TRUE]
  /\ NoSideEffect

\* The update is given up; TMP_PATH is removed, whoever wrote it.
Abort(t) ==
  /\ tmp' = NoInode
  /\ Return(t, "failed")
  /\ UNCHANGED <<offer, bin, serviceVars, unchecked>>
  /\ Keep(content, opener)

Mismatch(t) ==
  At(t, "comparing") /\ tmp # NoInode /\ ~SumMatches(t) /\ Abort(t)

\* The file to verify is gone.
NothingToVerify(t) ==
  At(t, "comparing") /\ tmp = NoInode /\ Return(t, "failed") /\ NoSideEffect

\* chmod +x of the file, mkdir -p of the install directory.
Prepare(t) ==
  At(t, "preparing") /\ tmp # NoInode /\ Goto(t, "moving") /\ NoSideEffect

\* Mutant of PrepareFails: the task waits for a file that is not there.
PrepareWaits(t) == At(t, "preparing") /\ tmp # NoInode /\ Abort(t)

PrepareFails(t) == At(t, "preparing") /\ Abort(t)

\* curl, chmod, mkdir or mv cannot be run at all: TMP_PATH is left as it is.
CannotRun(t) ==
  /\ At(t, "fetching") \/ At(t, "preparing") \/ At(t, "moving")
  /\ Return(t, "failed")
  /\ NoSideEffect

\* mv on one file system: rename(2).
Rename(t) ==
  /\ SameFs
  /\ At(t, "moving") /\ tmp # NoInode
  /\ bin' = tmp /\ tmp' = NoInode
  /\ unchecked' = ~task[t].checked
  /\ Goto(t, "scheduling")
  /\ UNCHANGED <<offer, serviceVars>>
  /\ Keep(content, opener)

\* mv across file systems: the old binary is unlinked, the new one copied.
CopyBegins(t) ==
  /\ ~SameFs
  /\ At(t, "moving") /\ tmp # NoInode
  /\ bin' = Fresh
  /\ task' = [task EXCEPT ![t].step = "copying", ![t].out = Fresh,
                          ![t].inp = tmp]
  /\ unchecked' = ~task[t].checked
  /\ UNCHANGED <<offer, tmp, serviceVars>>
  /\ Keep(content, opener)

CopyEnds(t) ==
  /\ At(t, "copying")
  /\ tmp' = NoInode
  /\ task' = [task EXCEPT ![t].step = "scheduling", ![t].out = NoInode,
                          ![t].inp = NoInode]
  /\ UNCHANGED <<offer, bin, serviceVars, unchecked>>
  /\ Keep([content EXCEPT ![task[t].out] = content[task[t].inp]], opener)

MoveFails(t) == (At(t, "moving") \/ At(t, "copying")) /\ Abort(t)

\* Mutant of ScheduleRestart: the shell dies with the task that spawned it.
ScheduleAttached(t) ==
  At(t, "scheduling") /\ Return(t, "restarting") /\ NoSideEffect

ScheduleRestart(t) ==
  /\ At(t, "scheduling")
  /\ restartDue' = TRUE
  /\ Return(t, "restarting")
  /\ UNCHANGED <<offer, tmp, bin, inodes, running, crashes, unchecked>>

\* setsid could not be spawned: the client is told to restart by hand.
ScheduleFails(t) == At(t, "scheduling") /\ Return(t, "updated") /\ NoSideEffect

-----------------------------------------------------------------------------
Fetching(t) ==
  \/ CheckFails(t) \/ CheckUpToDate(t) \/ CheckNewer(t)
  \/ Download(t) \/ Downloaded(t) \/ DownloadFails(t)

Verifying(t) ==
  \/ FetchSum(t) \/ SkipSum(t) \/ Verify(t) \/ Mismatch(t) \/ NothingToVerify(t)

Installing(t) ==
  \/ Prepare(t) \/ PrepareFails(t)
  \/ Rename(t) \/ CopyBegins(t) \/ CopyEnds(t) \/ MoveFails(t)
  \/ ScheduleRestart(t) \/ ScheduleFails(t)

\* Start is the client's request; Progress what then runs by itself.  That a
\* command cannot be run (CannotRun) is nothing a task can count on.
Progress(t) == Fetching(t) \/ Verifying(t) \/ Installing(t)

Next ==
  \/ Restart \/ Crash
  \/ \E files \in Batches, v \in Version : Publish(files, v)
  \/ \E t \in Task : Start(t) \/ Progress(t) \/ CannotRun(t)

Spec == Init /\ [][Next]_vars

-----------------------------------------------------------------------------
(* Safety.                                                                 *)

\* update.rs:174, "Verify SHA-256 checksum before touching the filesystem":
\* a binary installed by an update that verified it is one whole, undamaged
\* build, whatever other updates, crashes and new releases come in between.
VerifiedBinary == ~unchecked => Intact(bin)

\* With a server that replaces its files together, and by later releases only,
\* an update only ever makes the service start a version newer than the one
\* running, although version, binary and checksum are fetched one after another
\* and a release may appear before each of them.  The version is not looked at
\* again: a server that goes back to an older release between two of them has it
\* installed, which is why Rollbacks is excluded here.
InstallsOnlyNewer ==
  [][Launch' \notin {Launch, Down} => Launch' > running]_vars

-----------------------------------------------------------------------------
(* Liveness.  Every child the task waits for ends by itself: curl has      *)
(* --max-time, chmod, mkdir and mv are local.  The detached shell runs.    *)

FairSpec == Spec /\ WF_vars(Restart) /\ \A t \in Task : WF_vars(Progress(t))

\* An update always returns, though another one may remove or move away the
\* file it is working on.
EveryUpdateEnds == \A t \in Task : ~At(t, "idle") ~> At(t, "idle")

\* A client told that the agent is restarting gets the binary that is in place
\* (given the sudoers rule).
UpdateTakesEffect ==
  \A t \in Task : task[t].outcome = "restarting" ~> running = Launch
=============================================================================
