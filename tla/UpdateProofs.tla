---------------------------- MODULE UpdateProofs ----------------------------
(***************************************************************************)
(* Theorems about Update, for any number of tasks and versions, enough     *)
(* inodes, and any number of crashes.                                      *)
(***************************************************************************)
EXTENDS Update, FunctionTheorems, FiniteSetTheorems, TLAPS

\* Only a copying mv has a file to read from, and it does not write the
\* temporary file.
Typed ==
  /\ TypeOK
  /\ \A t \in Task :
       /\ task[t].inp # NoInode <=> task[t].step = "copying"
       /\ task[t].step = "downloading" => task[t].build \in Builds
       /\ task[t].step = "copying" => task[t].out # tmp

\* One task at a time, with a mv that renames, works on the temporary file
\* alone, and nobody touches that file once it has been verified.
OwnsTheFile ==
  /\ tmp # bin
  /\ \A t \in Task :
       /\ task[t].step # "copying"
       /\ task[t].step = "downloading" => task[t].out = tmp
       /\ task[t].checked =>
            task[t].step \in {"preparing", "moving", "scheduling"}
       /\ task[t].checked /\ task[t].step \in {"preparing", "moving"} =>
            Intact(tmp)

\* The builds that an update may be handling while this process runs.
NewBuilds ==
  {b \in Builds \cup {NoVersion} : b \in Version => b > running}

\* The server's files are those of one release.
OneRelease == \A f, g \in ServerFiles : offer[f] = offer[g]

\* A task that has found a newer version fetches a binary at least as new.
FetchesNewer == \A t \in Task : At(t, "fetching") => offer["version"] > running

\* What the tasks write and read holds new builds only, and so does the
\* temporary file from the first download of this process on.
HandlesNewBuilds ==
  /\ tmp # bin
  /\ \A t \in Task : task[t].step # "idle" =>
       /\ running # Down
       /\ task[t].build \in NewBuilds
       /\ \A i \in {task[t].out, task[t].inp} \ {NoInode} :
            content[i].builds \subseteq NewBuilds
       /\ task[t].step \notin {"checking", "fetching"} /\ tmp # NoInode =>
            content[tmp].builds \subseteq NewBuilds

\* An inode nothing refers to holds nothing.
FreeIsEmpty == \A i \in Inode \ InUse : content[i] = Empty

-----------------------------------------------------------------------------
(* Inodes.                                                                 *)

LEMMA ImageSize ==
  ASSUME NEW S, IsFiniteSet(S), NEW f
  PROVE  IsFiniteSet({f[x] : x \in S}) /\ Cardinality({f[x] : x \in S}) <= Cardinality(S)
<1> DEFINE T == {f[x] : x \in S}
           g == [x \in S |-> f[x]]
<1>1. g \in Surjection(S, T)
  BY DEF Surjection
<1> QED
  BY <1>1, FS_Surjection

LEMMA UnionSize ==
  ASSUME NEW S, NEW T, IsFiniteSet(S), IsFiniteSet(T)
  PROVE  /\ IsFiniteSet(S \cup T)
         /\ Cardinality(S \cup T) <= Cardinality(S) + Cardinality(T)
<1>1. /\ IsFiniteSet(S \cup T)
      /\ Cardinality(S \cup T) =
           Cardinality(S) + Cardinality(T) - Cardinality(S \cap T)
  BY FS_Union
<1>2. IsFiniteSet(S \cap T)
  BY FS_Intersection
<1>3. /\ Cardinality(S) \in Nat /\ Cardinality(T) \in Nat
      /\ Cardinality(S \cap T) \in Nat
  BY <1>2, FS_CardinalityType
<1> QED
  BY <1>1, <1>3

LEMMA PairSize ==
  ASSUME NEW a, NEW b
  PROVE  IsFiniteSet({a, b}) /\ Cardinality({a, b}) <= 2
<1>1. IsFiniteSet({a}) /\ Cardinality({a}) = 1
  BY FS_Singleton
<1>2. IsFiniteSet({b}) /\ Cardinality({b}) = 1
  BY FS_Singleton
<1>3. {a, b} = {a} \cup {b}
  OBVIOUS
<1>4. /\ IsFiniteSet({a} \cup {b})
      /\ Cardinality({a} \cup {b}) <= Cardinality({a}) + Cardinality({b})
  BY <1>1, <1>2, UnionSize
<1>5. Cardinality({a} \cup {b}) \in Nat
  BY <1>4, FS_CardinalityType
<1> QED
  BY <1>1, <1>2, <1>3, <1>4, <1>5

\* A task whose children have ended always finds an unused inode: the paths and
\* the children of the other tasks refer to 2 + 2 (|Task| - 1) at the most.
LEMMA FreshIsFree ==
  ASSUME Typed, NEW t \in Task, task[t].out = NoInode, task[t].inp = NoInode
  PROVE  Fresh \in Inode /\ Fresh \notin InUse
<1> DEFINE Others == Task \ {t}
           outs == [u \in Others |-> task[u].out]
           inps == [u \in Others |-> task[u].inp]
           O == {outs[u] : u \in Others}
           I == {inps[u] : u \in Others}
           P == {tmp, bin}
<1>1. /\ IsFiniteSet(Task) /\ IsFiniteSet(Inode)
      /\ Cardinality(Inode) > 2 * Cardinality(Task)
      /\ NoInode \notin Inode
  BY UpdateAssumption
<1>2. /\ Cardinality(Task) \in Nat /\ Cardinality(Inode) \in Nat
      /\ IsFiniteSet(Others) /\ Cardinality(Others) = Cardinality(Task) - 1
  BY <1>1, FS_CardinalityType, FS_RemoveElement
<1>3. /\ IsFiniteSet(O) /\ Cardinality(O) <= Cardinality(Others)
      /\ IsFiniteSet(I) /\ Cardinality(I) <= Cardinality(Others)
  <2> HIDE DEF Others, outs, inps
  <2> QED
    BY <1>2, ImageSize
<1>4. IsFiniteSet(P) /\ Cardinality(P) <= 2
  BY PairSize
<1>5. \A i \in InUse : i = NoInode \/ i \in (O \cup I) \cup P
  <2> TAKE i \in InUse
  <2>1. i \in P \/ \E u \in Task : i = task[u].out \/ i = task[u].inp
    BY DEF InUse
  <2>2. ASSUME NEW u \in Task, i = task[u].out \/ i = task[u].inp
        PROVE  i = NoInode \/ i \in O \/ i \in I
    <3>1. CASE u = t
      BY <2>2, <3>1
    <3>2. CASE u \in Others
      <4>1. outs[u] = task[u].out /\ inps[u] = task[u].inp
        BY <3>2
      <4> QED
        BY <2>2, <3>2, <4>1
    <3> QED
      BY <3>1, <3>2
  <2> QED
    BY <2>1, <2>2
<1> HIDE DEF O, I, P, Others
<1>6. /\ IsFiniteSet((O \cup I) \cup P)
      /\ Cardinality((O \cup I) \cup P) < Cardinality(Inode)
  <2>1. IsFiniteSet(O \cup I) /\ Cardinality(O \cup I) <= Cardinality(O) + Cardinality(I)
    BY <1>3, UnionSize
  <2>2. /\ IsFiniteSet((O \cup I) \cup P)
        /\ Cardinality((O \cup I) \cup P) <= Cardinality(O \cup I) + Cardinality(P)
    BY <2>1, <1>4, UnionSize
  <2>3. /\ Cardinality(O) \in Nat /\ Cardinality(I) \in Nat /\ Cardinality(P) \in Nat
        /\ Cardinality(O \cup I) \in Nat /\ Cardinality((O \cup I) \cup P) \in Nat
    BY <1>3, <1>4, <2>1, <2>2, FS_CardinalityType
  <2> QED
    BY <1>1, <1>2, <1>3, <1>4, <2>1, <2>2, <2>3
<1>7. \E i \in Inode : i \notin (O \cup I) \cup P
  <2>1. SUFFICES ASSUME Inode \subseteq (O \cup I) \cup P PROVE FALSE
    OBVIOUS
  <2>2. Cardinality(Inode) <= Cardinality((O \cup I) \cup P)
    BY <2>1, <1>6, FS_Subset
  <2> QED
    BY <1>1, <1>2, <1>6, <2>2, FS_CardinalityType
<1>8. \E i \in Inode : i \notin InUse
  BY <1>1, <1>5, <1>7
<1> QED
  BY <1>8 DEF Fresh

-----------------------------------------------------------------------------
(* Type correctness.                                                       *)

Contents == [Inode -> [builds : SUBSET Builds, whole : BOOLEAN]]
Openers  == [Inode -> Task \cup {NoTask}]

LEMMA KeepTyped ==
  ASSUME NEW c \in Contents, NEW o \in Openers, Keep(c, o)
  PROVE  content' \in Contents /\ opener' \in Openers
BY DEF Keep, Contents, Openers, Empty

\* What a task's record must satisfy by itself.
WellFormed(r) ==
  /\ r \in Progressing
  /\ r.out # NoInode <=> r.step \in {"downloading", "copying"}
  /\ r.inp # NoInode <=> r.step = "copying"
  /\ r.step = "downloading" => r.build \in Builds

TaskTyped ==
  /\ task \in [Task -> Progressing]
  /\ \A t \in Task : WellFormed(task[t])

CopyElsewhere == \A t \in Task : task[t].step = "copying" => task[t].out # tmp

LEMMA TypedParts ==
  Typed <=> /\ offer \in [ServerFiles -> Version]
            /\ tmp \in Inode \cup {NoInode} /\ bin \in Inode
            /\ content \in Contents /\ opener \in Openers
            /\ TaskTyped /\ CopyElsewhere
            /\ restartDue \in BOOLEAN /\ unchecked \in BOOLEAN
            /\ running \in Version \cup {Down}
            /\ crashes \in 0 .. MaxCrashes
BY DEF Typed, TypeOK, TaskTyped, CopyElsewhere, WellFormed, Contents, Openers

LEMMA IdleWellFormed ==
  ASSUME NEW o \in {"none", "up_to_date", "failed", "updated", "restarting"}
  PROVE  WellFormed([Idle EXCEPT !.outcome = o])
BY DEF WellFormed, Progressing, Idle, Builds

LEMMA IdleTaskTyped ==
  ASSUME task' = [t \in Task |-> Idle]
  PROVE  TaskTyped'
BY DEF TaskTyped, WellFormed, Progressing, Idle, Builds

\* A step of one task that leaves its record well formed.
LEMMA OneTaskTyped ==
  ASSUME TaskTyped, NEW t \in Task, NEW r, WellFormed(r),
         task' = [task EXCEPT ![t] = r]
  PROVE  TaskTyped'
BY DEF TaskTyped, WellFormed

\* A step of one task that does not begin a copy, nor make a temporary file.
LEMMA MoveOn ==
  ASSUME TaskTyped, CopyElsewhere, NEW t \in Task, NEW r, r.step # "copying",
         task' = [task EXCEPT ![t] = r], tmp' \in {tmp, NoInode}
  PROVE  CopyElsewhere'
BY DEF TaskTyped, WellFormed, CopyElsewhere

LEMMA ReturnTyped ==
  ASSUME TaskTyped, NEW t \in Task,
         NEW o \in {"none", "up_to_date", "failed", "updated", "restarting"},
         Return(t, o)
  PROVE  /\ TaskTyped'
         /\ CopyElsewhere /\ tmp' \in {tmp, NoInode} => CopyElsewhere'
<1> DEFINE r == [Idle EXCEPT !.outcome = o]
<1>1. WellFormed(r) /\ r.step # "copying"
  BY IdleWellFormed DEF Idle
<1>2. task' = [task EXCEPT ![t] = r]
  BY DEF Return
<1> HIDE DEF r
<1> QED
  BY <1>1, <1>2, OneTaskTyped, MoveOn

LEMMA LaunchTyped == Launch \in Version \cup {Down}
BY DEF Launch, Intact, VersionOf

LEMMA InitTyped == Init => Typed
<1> SUFFICES ASSUME Init PROVE Typed
  OBVIOUS
<1>1. \E i \in Inode : TRUE
  <2>1. Cardinality(Inode) # 0
    BY UpdateAssumption, FS_CardinalityType
  <2> QED
    BY <2>1, FS_EmptySet
<1>2. bin \in Inode
  BY <1>1 DEF Init
<1>3. offer \in [ServerFiles -> Version]
  BY DEF Init
<1>4. content \in Contents
  BY <1>2 DEF Init, Contents, Empty, Builds
<1>5. opener \in Openers
  BY DEF Init, Openers
<1>6. TaskTyped /\ CopyElsewhere
  BY DEF Init, TaskTyped, CopyElsewhere, WellFormed, Progressing, Idle, Builds
<1>7. /\ tmp \in Inode \cup {NoInode}
      /\ restartDue \in BOOLEAN /\ unchecked \in BOOLEAN
      /\ running \in Version \cup {Down}
  BY DEF Init
<1>8. crashes \in 0 .. MaxCrashes
  BY UpdateAssumption DEF Init
<1> QED
  BY <1>2, <1>3, <1>4, <1>5, <1>6, <1>7, <1>8, TypedParts

\* The steps that move a task on and nothing else.
LEMMA QuietTyped ==
  ASSUME Typed, NoSideEffect, TaskTyped', CopyElsewhere'
  PROVE  Typed'
BY TypedParts DEF NoSideEffect, inodes, serviceVars, Typed, TypeOK, TaskTyped,
   CopyElsewhere, WellFormed

LEMMA GotoTyped ==
  ASSUME Typed, NEW t \in Task, NEW s \in {"fetching", "preparing", "moving", "scheduling"},
         task[t].step \in {"checking", "summing", "comparing", "preparing", "moving"},
         Goto(t, s)
  PROVE  TaskTyped' /\ (tmp' = tmp => CopyElsewhere')
<1> DEFINE r == [task[t] EXCEPT !.step = s]
<1>1. WellFormed(task[t])
  BY TypedParts DEF TaskTyped
<1>2. WellFormed(r)
  BY <1>1 DEF WellFormed, Progressing
<1>3. task' = [task EXCEPT ![t] = r]
  BY DEF Goto
<1>4. r.step # "copying"
  BY <1>1 DEF WellFormed, Progressing
<1> HIDE DEF r
<1> QED
  BY <1>2, <1>3, <1>4, OneTaskTyped, MoveOn, TypedParts

LEMMA DownloadTyped ==
  ASSUME Typed, NEW t \in Task, Download(t)
  PROVE  Typed'
<1>1. PICK b \in {offer["binary"]} \cup Damages : Truncate(t, tmp', b)
  BY DEF Download
<1>2. offer["binary"] \in Version /\ b \in Builds
  BY <1>1, UpdateAssumption DEF Typed, TypeOK, ServerFiles, Builds
<1>3. WellFormed(task[t]) /\ TaskTyped /\ task[t].step = "fetching"
  BY TypedParts DEF Download, At, TaskTyped
<1>4. task[t].out = NoInode /\ task[t].inp = NoInode
  BY <1>3 DEF WellFormed
<1>5. tmp' \in Inode
  BY <1>4, FreshIsFree DEF Download, Typed, TypeOK
<1>6. TaskTyped'
  <2> DEFINE r == [[[task[t] EXCEPT !.step = "downloading"] EXCEPT !.out = tmp']
                    EXCEPT !.build = b]
  <2>1. WellFormed(r)
    BY <1>2, <1>3, <1>4, <1>5, UpdateAssumption DEF WellFormed, Progressing
  <2>2. task' = [task EXCEPT ![t] = r]
    BY <1>1, <1>3 DEF Truncate, TaskTyped, WellFormed
  <2> HIDE DEF r
  <2> QED
    BY <1>3, <2>1, <2>2, OneTaskTyped
<1>7. content' \in Contents
  <2> DEFINE B == {b} \cup {task[u].build : u \in {u \in Task : task[u].out = tmp'}}
             c == [builds |-> B, whole |-> FALSE]
  <2>1. \A u \in Task : task[u].out = tmp' => task[u].step = "downloading"
    <3> SUFFICES ASSUME NEW u \in Task, task[u].out = tmp', task[u].step = "copying"
                 PROVE  FALSE
      BY <1>3, <1>5, UpdateAssumption DEF TaskTyped, WellFormed
    <3>1. CASE tmp' = tmp
      BY <3>1, TypedParts DEF CopyElsewhere
    <3>2. CASE tmp' = Fresh
      BY <3>2, <1>4, FreshIsFree DEF InUse
    <3> QED
      BY <3>1, <3>2 DEF Download
  <2>2. B \subseteq Builds
    BY <1>2, <1>3, <2>1 DEF TaskTyped, WellFormed
  <2>3. content' = [content EXCEPT ![tmp'] = c]
    BY <1>1 DEF Truncate
  <2>4. c \in [builds : SUBSET Builds, whole : BOOLEAN]
    BY <2>2
  <2> HIDE DEF c
  <2> QED
    BY <2>3, <2>4, TypedParts DEF Contents
<1>8. opener' \in Openers
  BY <1>1, TypedParts DEF Truncate, Openers
<1>9. CopyElsewhere'
  <2> SUFFICES ASSUME NEW u \in Task, task'[u].step = "copying"
               PROVE  task'[u].out # tmp'
    BY DEF CopyElsewhere
  <2>1. u # t /\ task'[u] = task[u]
    BY <1>1, <1>3 DEF Truncate, TaskTyped, WellFormed, Progressing
  <2>2. CASE tmp' = tmp
    BY <2>1, <2>2, TypedParts DEF CopyElsewhere
  <2>3. CASE tmp' = Fresh
    BY <2>1, <2>3, <1>4, FreshIsFree DEF InUse
  <2> QED
    BY <2>2, <2>3 DEF Download
<1> QED
  BY <1>5, <1>6, <1>7, <1>8, <1>9, TypedParts DEF Download, serviceVars, Typed,
     TypeOK, TaskTyped, CopyElsewhere, WellFormed, Contents, Openers

\* How a task's own record moves on with its download.
LEMMA DownloadedTask ==
  ASSUME Typed, NEW t \in Task, Downloaded(t)
  PROVE  TaskTyped' /\ CopyElsewhere'
<1> DEFINE r == [[[task[t] EXCEPT !.step = "summing"] EXCEPT !.out = NoInode]
                  EXCEPT !.build = NoVersion]
<1>1. WellFormed(task[t]) /\ TaskTyped /\ task[t].step = "downloading"
  BY TypedParts DEF Downloaded, At, TaskTyped
<1>2. WellFormed(r) /\ r.step # "copying"
  BY <1>1 DEF WellFormed, Progressing
<1>3. task' = [task EXCEPT ![t] = r]
  BY <1>1 DEF Downloaded, TaskTyped, WellFormed
<1> HIDE DEF r
<1> QED
  BY <1>1, <1>2, <1>3, OneTaskTyped, MoveOn, TypedParts DEF Downloaded

LEMMA DownloadedTyped ==
  ASSUME Typed, NEW t \in Task, Downloaded(t)
  PROVE  Typed'
<1> DEFINE i == task[t].out
           c == [content EXCEPT ![i].whole = @ \/ opener[i] = t]
<1>1. i \in Inode
  BY TypedParts DEF Downloaded, At, TaskTyped, WellFormed, Progressing
<1>2. Keep(c, opener)
  BY DEF Downloaded
<1>3. content[i] \in [builds : SUBSET Builds, whole : BOOLEAN]
  BY <1>1, TypedParts DEF Contents
<1>4. [content[i] EXCEPT !.whole = @ \/ opener[i] = t]
        \in [builds : SUBSET Builds, whole : BOOLEAN]
  <2>1. (content[i].whole \/ opener[i] = t) \in BOOLEAN
    OBVIOUS
  <2> QED
    BY <1>3, <2>1
<1>5. c \in Contents
  <2> DEFINE x == [content[i] EXCEPT !.whole = @ \/ opener[i] = t]
  <2>1. c = [content EXCEPT ![i] = x]
    OBVIOUS
  <2> HIDE DEF x, c
  <2> QED
    BY <1>4, <2>1, TypedParts DEF x, Contents
<1> HIDE DEF c
<1>6. content' \in Contents /\ opener' \in Openers
  BY <1>2, <1>5, KeepTyped, TypedParts
<1>7. /\ offer' = offer /\ tmp' = tmp /\ bin' = bin /\ restartDue' = restartDue
      /\ running' = running /\ crashes' = crashes /\ unchecked' = unchecked
  BY DEF Downloaded, serviceVars
<1> QED
  BY <1>6, <1>7, DownloadedTask, TypedParts DEF Typed, TypeOK, TaskTyped,
     CopyElsewhere, WellFormed, Contents, Openers

\* A task gives up, with or without removing the temporary file.
LEMMA GivingUpTyped ==
  ASSUME Typed, NEW t \in Task,
         DownloadFails(t) \/ Abort(t)
  PROVE  Typed'
<1>1. Return(t, "failed") /\ tmp' \in {tmp, NoInode}
  BY DEF DownloadFails, Abort
<1>2. TaskTyped' /\ CopyElsewhere'
  BY <1>1, ReturnTyped, TypedParts
<1>3. Keep(content, opener)
  BY DEF DownloadFails, Abort
<1>4. content' \in Contents /\ opener' \in Openers
  BY <1>3, KeepTyped, TypedParts
<1>5. /\ offer' = offer /\ bin' = bin /\ restartDue' = restartDue
      /\ running' = running /\ crashes' = crashes /\ unchecked' = unchecked
  BY DEF DownloadFails, Abort, serviceVars
<1> QED
  BY <1>1, <1>2, <1>4, <1>5, TypedParts DEF Typed, TypeOK, TaskTyped,
     CopyElsewhere, WellFormed, Contents, Openers

LEMMA RenameTyped ==
  ASSUME Typed, NEW t \in Task, Rename(t)
  PROVE  Typed'
<1>1. TaskTyped'
  BY GotoTyped DEF Rename, At
<1>2. content' \in Contents /\ opener' \in Openers
  BY KeepTyped, TypedParts DEF Rename
<1>3. bin' \in Inode /\ tmp' = NoInode /\ unchecked' \in BOOLEAN
  BY TypedParts DEF Rename
<1>4. CopyElsewhere'
  BY <1>1, <1>3 DEF TaskTyped, WellFormed, CopyElsewhere
<1>5. /\ offer' = offer /\ restartDue' = restartDue
      /\ running' = running /\ crashes' = crashes
  BY DEF Rename, serviceVars
<1> QED
  BY <1>1, <1>2, <1>3, <1>4, <1>5, TypedParts DEF Typed, TypeOK, TaskTyped,
     CopyElsewhere, WellFormed, Contents, Openers

LEMMA CopyBeginsTyped ==
  ASSUME Typed, NEW t \in Task, CopyBegins(t)
  PROVE  Typed'
<1> DEFINE r == [[[task[t] EXCEPT !.step = "copying"] EXCEPT !.out = Fresh]
                  EXCEPT !.inp = tmp]
<1>1. WellFormed(task[t]) /\ TaskTyped /\ task[t].step = "moving"
  BY TypedParts DEF CopyBegins, At, TaskTyped
<1>2. Fresh \in Inode /\ Fresh \notin InUse
  BY <1>1, FreshIsFree DEF WellFormed
<1>3. tmp \in Inode /\ Fresh # tmp
  BY <1>2, TypedParts DEF CopyBegins, InUse
<1>4. WellFormed(r)
  BY <1>1, <1>2, <1>3, UpdateAssumption DEF WellFormed, Progressing
<1>5. task' = [task EXCEPT ![t] = r]
  BY <1>1 DEF CopyBegins, TaskTyped, WellFormed
<1>6. CopyElsewhere'
  <2> SUFFICES ASSUME NEW u \in Task, task'[u].step = "copying"
               PROVE  task'[u].out # tmp
    BY DEF CopyElsewhere, CopyBegins
  <2>1. CASE u = t
    BY <1>1, <1>3, <1>5, <2>1 DEF TaskTyped, WellFormed, Progressing
  <2>2. CASE u # t
    BY <1>5, <2>2, TypedParts DEF CopyElsewhere
  <2> QED
    BY <2>1, <2>2
<1> HIDE DEF r
<1>7. TaskTyped'
  BY <1>1, <1>4, <1>5, OneTaskTyped
<1>8. content' \in Contents /\ opener' \in Openers
  BY KeepTyped, TypedParts DEF CopyBegins
<1>9. /\ offer' = offer /\ tmp' = tmp /\ bin' = Fresh /\ restartDue' = restartDue
      /\ running' = running /\ crashes' = crashes /\ unchecked' \in BOOLEAN
  BY DEF CopyBegins, serviceVars
<1> QED
  BY <1>2, <1>6, <1>7, <1>8, <1>9, TypedParts DEF Typed, TypeOK, TaskTyped,
     CopyElsewhere, WellFormed, Contents, Openers

LEMMA CopyEndsTyped ==
  ASSUME Typed, NEW t \in Task, CopyEnds(t)
  PROVE  Typed'
<1> DEFINE r == [[[task[t] EXCEPT !.step = "scheduling"] EXCEPT !.out = NoInode]
                  EXCEPT !.inp = NoInode]
           c == [content EXCEPT ![task[t].out] = content[task[t].inp]]
<1>1. WellFormed(task[t]) /\ TaskTyped /\ task[t].step = "copying"
  BY TypedParts DEF CopyEnds, At, TaskTyped
<1>2. WellFormed(r) /\ r.step # "copying"
  BY <1>1 DEF WellFormed, Progressing
<1>3. task' = [task EXCEPT ![t] = r]
  BY <1>1 DEF CopyEnds, TaskTyped, WellFormed
<1> HIDE DEF r
<1>4. TaskTyped' /\ CopyElsewhere'
  BY <1>1, <1>2, <1>3, OneTaskTyped, MoveOn, TypedParts DEF CopyEnds
<1>5. c \in Contents
  BY <1>1, TypedParts DEF WellFormed, Progressing, Contents
<1>6. Keep(c, opener)
  BY DEF CopyEnds
<1> HIDE DEF c
<1>7. content' \in Contents /\ opener' \in Openers
  BY <1>5, <1>6, KeepTyped, TypedParts
<1>8. /\ offer' = offer /\ tmp' = NoInode /\ bin' = bin
      /\ restartDue' = restartDue /\ running' = running
      /\ crashes' = crashes /\ unchecked' = unchecked
  BY DEF CopyEnds, serviceVars
<1> QED
  BY <1>4, <1>7, <1>8, TypedParts DEF Typed, TypeOK, TaskTyped,
     CopyElsewhere, WellFormed, Contents, Openers

LEMMA RelaunchTyped ==
  ASSUME Typed, Relaunch, crashes' \in 0 .. MaxCrashes
  PROVE  Typed'
<1>1. TaskTyped' /\ CopyElsewhere'
  <2>1. Idle.step # "copying"
    BY DEF Idle
  <2> QED
    BY <2>1, IdleTaskTyped DEF Relaunch, CopyElsewhere
<1>2. content' \in Contents /\ opener' \in Openers
  BY KeepTyped, TypedParts DEF Relaunch
<1>3. /\ offer' = offer /\ tmp' = tmp /\ bin' = bin /\ unchecked' = unchecked
      /\ restartDue' = FALSE /\ running' \in Version \cup {Down}
  BY LaunchTyped DEF Relaunch
<1> QED
  BY <1>1, <1>2, <1>3, TypedParts DEF Typed, TypeOK, TaskTyped,
     CopyElsewhere, WellFormed, Contents, Openers

LEMMA PublishTyped ==
  ASSUME Typed, NEW files \in Batches, NEW v \in Version, Publish(files, v)
  PROVE  Typed'
<1>1. offer' \in [ServerFiles -> Version]
  BY TypedParts DEF Publish
<1> QED
  BY <1>1, TypedParts DEF Publish, inodes, serviceVars, Typed, TypeOK, TaskTyped,
     CopyElsewhere, WellFormed, Contents, Openers

\* A task that moves on, or returns, and changes nothing else.
LEMMA QuietStepTyped ==
  ASSUME Typed, NEW t \in Task, NoSideEffect,
         NEW r, WellFormed(r), r.step # "copying", task' = [task EXCEPT ![t] = r]
  PROVE  Typed'
<1>1. TaskTyped' /\ CopyElsewhere'
  BY OneTaskTyped, MoveOn, TypedParts DEF NoSideEffect
<1> QED
  BY <1>1, QuietTyped

LEMMA QuietReturnTyped ==
  ASSUME Typed, NEW t \in Task, NoSideEffect,
         NEW o \in {"none", "up_to_date", "failed", "updated", "restarting"},
         Return(t, o)
  PROVE  Typed'
<1>1. TaskTyped' /\ CopyElsewhere'
  BY ReturnTyped, TypedParts DEF NoSideEffect
<1> QED
  BY <1>1, QuietTyped

LEMMA StartTyped ==
  ASSUME Typed, NEW t \in Task, Start(t)
  PROVE  Typed'
<1> DEFINE r == [Idle EXCEPT !.step = "checking"]
<1>1. WellFormed(r) /\ r.step # "copying"
  BY DEF WellFormed, Progressing, Idle, Builds
<1>2. task' = [task EXCEPT ![t] = r] /\ NoSideEffect
  BY DEF Start
<1> HIDE DEF r
<1> QED
  BY <1>1, <1>2, QuietStepTyped

LEMMA VerifyingTyped ==
  ASSUME Typed, NEW t \in Task, Verifying(t)
  PROVE  Typed'
<1>1. CASE FetchSum(t)
  <2> DEFINE r == [[task[t] EXCEPT !.step = "comparing"] EXCEPT !.want = offer["sum"]]
  <2>1. WellFormed(task[t]) /\ offer["sum"] \in Version /\ task[t].step = "summing"
    BY <1>1, TypedParts DEF TaskTyped, ServerFiles, FetchSum, At
  <2>2. WellFormed(r) /\ r.step # "copying"
    BY <2>1 DEF WellFormed, Progressing
  <2>3. task' = [task EXCEPT ![t] = r] /\ NoSideEffect
    BY <1>1, TypedParts DEF FetchSum, TaskTyped, WellFormed
  <2> HIDE DEF r
  <2> QED
    BY <2>2, <2>3, QuietStepTyped
<1>2. CASE Verify(t)
  <2> DEFINE r == [[task[t] EXCEPT !.step = "preparing"] EXCEPT !.checked = TRUE]
  <2>1. WellFormed(task[t]) /\ task[t].step = "comparing"
    BY <1>2, TypedParts DEF TaskTyped, Verify, At
  <2>2. WellFormed(r) /\ r.step # "copying"
    BY <2>1 DEF WellFormed, Progressing
  <2>3. task' = [task EXCEPT ![t] = r] /\ NoSideEffect
    BY <1>2, TypedParts DEF Verify, TaskTyped, WellFormed
  <2> HIDE DEF r
  <2> QED
    BY <2>2, <2>3, QuietStepTyped
<1>3. CASE SkipSum(t)
  <2>1. Goto(t, "preparing") /\ task[t].step = "summing" /\ NoSideEffect
    BY <1>3 DEF SkipSum, At
  <2>2. tmp' = tmp
    BY <2>1 DEF NoSideEffect
  <2> QED
    BY <2>1, <2>2, GotoTyped, QuietTyped
<1>4. CASE Mismatch(t)
  BY <1>4, GivingUpTyped DEF Mismatch
<1>5. CASE NothingToVerify(t)
  BY <1>5, QuietReturnTyped DEF NothingToVerify
<1> QED
  BY <1>1, <1>2, <1>3, <1>4, <1>5 DEF Verifying

LEMMA FetchingTyped ==
  ASSUME Typed, NEW t \in Task, Fetching(t)
  PROVE  Typed'
<1>1. CASE CheckFails(t) \/ CheckUpToDate(t)
  BY <1>1, QuietReturnTyped DEF CheckFails, CheckUpToDate
<1>2. CASE CheckNewer(t)
  <2>1. Goto(t, "fetching") /\ task[t].step = "checking" /\ NoSideEffect
    BY <1>2 DEF CheckNewer, At
  <2>2. tmp' = tmp
    BY <2>1 DEF NoSideEffect
  <2> QED
    BY <2>1, <2>2, GotoTyped, QuietTyped
<1> QED
  BY <1>1, <1>2, DownloadTyped, DownloadedTyped, GivingUpTyped DEF Fetching

LEMMA InstallingTyped ==
  ASSUME Typed, NEW t \in Task, Installing(t)
  PROVE  Typed'
<1>1. CASE Prepare(t)
  <2>1. Goto(t, "moving") /\ task[t].step = "preparing" /\ NoSideEffect
    BY <1>1 DEF Prepare, At
  <2>2. tmp' = tmp
    BY <2>1 DEF NoSideEffect
  <2> QED
    BY <2>1, <2>2, GotoTyped, QuietTyped
<1>2. CASE PrepareFails(t) \/ MoveFails(t)
  BY <1>2, GivingUpTyped DEF PrepareFails, MoveFails
<1>3. CASE ScheduleRestart(t)
  <2>1. TaskTyped' /\ CopyElsewhere'
    BY <1>3, ReturnTyped, TypedParts DEF ScheduleRestart
  <2> QED
    BY <1>3, <2>1, TypedParts DEF ScheduleRestart, inodes, Typed, TypeOK,
       TaskTyped, CopyElsewhere, WellFormed, Contents, Openers
<1>4. CASE ScheduleFails(t)
  BY <1>4, QuietReturnTyped DEF ScheduleFails
<1> QED
  BY <1>1, <1>2, <1>3, <1>4, RenameTyped, CopyBeginsTyped, CopyEndsTyped
     DEF Installing

LEMMA StepTyped == Typed /\ [Next]_vars => Typed'
<1> SUFFICES ASSUME Typed, [Next]_vars PROVE Typed'
  OBVIOUS
<1>1. CASE Restart
  <2>1. crashes' \in 0 .. MaxCrashes
    BY <1>1, TypedParts DEF Restart
  <2> QED
    BY <1>1, <2>1, RelaunchTyped DEF Restart
<1>2. CASE Crash
  <2>1. crashes' \in 0 .. MaxCrashes
    BY <1>2, TypedParts, UpdateAssumption DEF Crash
  <2> QED
    BY <1>2, <2>1, RelaunchTyped DEF Crash
<1>3. CASE \E files \in Batches, v \in Version : Publish(files, v)
  BY <1>3, PublishTyped
<1>4. CASE \E t \in Task : Start(t) \/ Progress(t)
  BY <1>4, StartTyped, FetchingTyped, VerifyingTyped, InstallingTyped DEF Progress
<1>5. CASE \E t \in Task : CannotRun(t)
  BY <1>5, QuietReturnTyped DEF CannotRun
<1>6. CASE UNCHANGED vars
  BY <1>6 DEF vars, inodes, serviceVars, Typed, TypeOK
<1> QED
  BY <1>1, <1>2, <1>3, <1>4, <1>5, <1>6 DEF Next

LEMMA AlwaysTyped == Spec => []Typed
BY InitTyped, StepTyped, PTL DEF Spec

\* Every reachable state of the updates is well typed: in particular a task's
\* child has a file open exactly while the task waits for it, and no update
\* leaves the install path without a file.
THEOREM TypeCorrect == Spec => []TypeOK
<1>1. Typed => TypeOK
  BY DEF Typed
<1> QED
  BY <1>1, AlwaysTyped, PTL

-----------------------------------------------------------------------------
(* One update at a time.                                                   *)

\* No second update runs beside one, and mv renames.
OneAtATime == SameFs /\ \A t, u \in Task : t = u

\* What a step keeps, it keeps for the paths that name it afterwards.
LEMMA KeptInPlace ==
  ASSUME Typed', NEW c, NEW o, Keep(c, o)
  PROVE  /\ content'[bin'] = c[bin']
         /\ tmp' # NoInode => content'[tmp'] = c[tmp']
         /\ \A t \in Task, i \in Inode :
              i \in {task'[t].out, task'[t].inp} => content'[i] = c[i]
BY DEF Keep, InUse, Typed, TypeOK

\* What is to be shown of a step of the one task.
LEMMA OneTaskOwns ==
  ASSUME OneAtATime, NEW t \in Task, tmp' # bin', VerifiedBinary',
         task'[t].step # "copying",
         task'[t].step = "downloading" => task'[t].out = tmp',
         task'[t].checked =>
           task'[t].step \in {"preparing", "moving", "scheduling"},
         task'[t].checked /\ task'[t].step \in {"preparing", "moving"} =>
           Intact(tmp)'
  PROVE  OwnsTheFile' /\ VerifiedBinary'
BY DEF OneAtATime, OwnsTheFile

LEMMA InitOwns == Init => OwnsTheFile /\ VerifiedBinary
<1> SUFFICES ASSUME Init PROVE OwnsTheFile /\ VerifiedBinary
  OBVIOUS
<1>1. bin \in Inode /\ tmp = NoInode
  BY InitTyped DEF Init, Typed, TypeOK
<1>2. content[bin] = [builds |-> {running}, whole |-> TRUE] /\ running \in Version
  BY <1>1 DEF Init
<1>3. Intact(bin)
  BY <1>1, <1>2, UpdateAssumption DEF Intact
<1>4. \A t \in Task : task[t].step = "idle" /\ task[t].checked = FALSE
  BY DEF Init, Idle
<1> QED
  BY <1>1, <1>3, <1>4, UpdateAssumption DEF OwnsTheFile, VerifiedBinary

\* The binary in place stays as it is.
LEMMA BinaryStays ==
  ASSUME VerifiedBinary, bin' = bin, content'[bin] = content[bin],
         unchecked' = unchecked
  PROVE  VerifiedBinary'
BY DEF VerifiedBinary, Intact

LEMMA QuietOwns ==
  ASSUME OneAtATime, Typed, OwnsTheFile, VerifiedBinary, NEW t \in Task,
         tmp' = tmp, bin' = bin, content' = content, unchecked' = unchecked,
         task'[t].step \notin {"copying", "downloading"},
         task'[t].checked =>
           /\ task'[t].step \in {"preparing", "moving", "scheduling"}
           /\ task'[t].step \in {"preparing", "moving"} => Intact(tmp)
  PROVE  OwnsTheFile' /\ VerifiedBinary'
<1>1. VerifiedBinary'
  BY BinaryStays
<1>2. Intact(tmp)' <=> Intact(tmp)
  BY DEF Intact
<1> QED
  BY <1>1, <1>2, OneTaskOwns DEF OwnsTheFile

\* The task returns, and the temporary file may be removed.
LEMMA ReturnOwns ==
  ASSUME OneAtATime, Typed, Typed', OwnsTheFile, VerifiedBinary, NEW t \in Task,
         NEW o, Return(t, o), tmp' \in {tmp, NoInode}, bin' = bin,
         content' = content \/ Keep(content, opener), unchecked' = unchecked
  PROVE  OwnsTheFile' /\ VerifiedBinary'
<1>1. content'[bin] = content[bin]
  BY KeptInPlace
<1>2. tmp' # bin'
  BY UpdateAssumption DEF OwnsTheFile, Typed, TypeOK
<1>3. task'[t].step = "idle" /\ task'[t].checked = FALSE
  BY DEF Return, Idle, Typed, TypeOK
<1> QED
  BY <1>1, <1>2, <1>3, BinaryStays, OneTaskOwns

LEMMA DownloadOwns ==
  ASSUME OneAtATime, Typed, OwnsTheFile, VerifiedBinary, NEW t \in Task, Download(t)
  PROVE  OwnsTheFile' /\ VerifiedBinary'
<1>1. PICK b \in {offer["binary"]} \cup Damages : Truncate(t, tmp', b)
  BY DEF Download
<1>2. task[t].step = "fetching" /\ task[t].checked = FALSE
  BY DEF Download, At, OwnsTheFile, Typed, TypeOK, Progressing
<1>3. task[t].out = NoInode /\ task[t].inp = NoInode
  BY <1>2 DEF Typed, TypeOK
<1>4. tmp' \in Inode /\ tmp' # bin
  BY <1>3, FreshIsFree DEF Download, InUse, OwnsTheFile, Typed, TypeOK
<1>5. bin' = bin /\ unchecked' = unchecked /\ content'[bin] = content[bin]
  BY <1>1, <1>4 DEF Download, Truncate, Typed, TypeOK
<1>6. /\ task'[t].step = "downloading" /\ task'[t].out = tmp'
      /\ task'[t].checked = FALSE
  BY <1>1, <1>2 DEF Truncate, Typed, TypeOK, Progressing
<1> QED
  BY <1>4, <1>5, <1>6, BinaryStays, OneTaskOwns

LEMMA DownloadedOwns ==
  ASSUME OneAtATime, Typed, Typed', OwnsTheFile, VerifiedBinary, NEW t \in Task,
         Downloaded(t)
  PROVE  OwnsTheFile' /\ VerifiedBinary'
<1>1. /\ task[t].step = "downloading" /\ task[t].checked = FALSE
      /\ task[t].out = tmp
  BY DEF Downloaded, At, OwnsTheFile, Typed, TypeOK, Progressing
<1>2. bin' = bin /\ tmp' = tmp /\ unchecked' = unchecked
  BY DEF Downloaded
<1>3. content'[bin] = content[bin]
  <2> DEFINE c == [content EXCEPT ![task[t].out].whole = @ \/ opener[task[t].out] = t]
  <2>1. Keep(c, opener)
    BY DEF Downloaded
  <2>2. c[bin] = content[bin]
    BY <1>1 DEF OwnsTheFile, Typed, TypeOK
  <2> HIDE DEF c
  <2> QED
    BY <1>2, <2>1, <2>2, KeptInPlace
<1>4. task'[t].step = "summing" /\ task'[t].checked = FALSE
  BY <1>1 DEF Downloaded, Typed, TypeOK, Progressing
<1> QED
  BY <1>2, <1>3, <1>4, BinaryStays, OneTaskOwns DEF OwnsTheFile

LEMMA RenameOwns ==
  ASSUME OneAtATime, Typed, Typed', OwnsTheFile, NEW t \in Task, Rename(t)
  PROVE  OwnsTheFile' /\ VerifiedBinary'
<1>1. bin' = tmp /\ tmp' = NoInode /\ tmp \in Inode
  BY DEF Rename, Typed, TypeOK
<1>2. task[t].step = "moving" /\ task[t].checked \in BOOLEAN
  BY DEF Rename, At, Typed, TypeOK, Progressing
<1>3. task'[t].step = "scheduling"
  BY DEF Rename, Goto, Typed, TypeOK, Progressing
<1>4. content'[bin'] = content[tmp]
  BY <1>1, KeptInPlace DEF Rename
<1>5. VerifiedBinary'
  <2>1. unchecked' = ~task[t].checked
    BY DEF Rename
  <2>2. task[t].checked => Intact(tmp)
    BY <1>2 DEF OwnsTheFile
  <2>3. Intact(tmp) => Intact(bin)'
    BY <1>1, <1>4 DEF Intact
  <2> QED
    BY <1>2, <2>1, <2>2, <2>3 DEF VerifiedBinary
<1> QED
  BY <1>1, <1>3, <1>5, OneTaskOwns, UpdateAssumption

\* The process is started again: there is no task left to own anything.
LEMMA RelaunchOwns ==
  ASSUME Typed', OwnsTheFile, VerifiedBinary, Relaunch
  PROVE  OwnsTheFile' /\ VerifiedBinary'
<1>1. bin' = bin /\ tmp' = tmp /\ unchecked' = unchecked /\ Keep(content, opener)
  BY DEF Relaunch
<1>2. content'[bin] = content[bin]
  BY <1>1, KeptInPlace
<1>3. \A t \in Task : task'[t].step = "idle" /\ task'[t].checked = FALSE
  BY DEF Relaunch, Idle
<1> QED
  BY <1>1, <1>2, <1>3, BinaryStays DEF OwnsTheFile

\* Steps that leave the task, the paths and their files alone.
LEMMA ElsewhereOwns ==
  ASSUME OwnsTheFile, VerifiedBinary, UNCHANGED <<tmp, bin, content, task, unchecked>>
  PROVE  OwnsTheFile' /\ VerifiedBinary'
BY DEF OwnsTheFile, VerifiedBinary, Intact

LEMMA VerifyingOwns ==
  ASSUME OneAtATime, Typed, Typed', OwnsTheFile, VerifiedBinary, NEW t \in Task,
         Verifying(t)
  PROVE  OwnsTheFile' /\ VerifiedBinary'
<1> DEFINE Quiet == /\ tmp' = tmp /\ bin' = bin /\ content' = content
                    /\ unchecked' = unchecked
<1>1. task[t].step \in {"summing", "comparing"} => task[t].checked = FALSE
  BY DEF OwnsTheFile, Typed, TypeOK, Progressing
<1>2. CASE FetchSum(t)
  <2>1. Quiet /\ task'[t].step = "comparing" /\ task'[t].checked = FALSE
    BY <1>1, <1>2 DEF FetchSum, At, NoSideEffect, inodes, Typed, TypeOK, Progressing
  <2> QED
    BY <2>1, QuietOwns
<1>3. CASE SkipSum(t)
  <2>1. Quiet /\ task'[t].step = "preparing" /\ task'[t].checked = FALSE
    BY <1>1, <1>3 DEF SkipSum, At, Goto, NoSideEffect, inodes, Typed, TypeOK,
       Progressing
  <2> QED
    BY <2>1, QuietOwns
<1>4. CASE Verify(t)
  <2>1. Quiet /\ task'[t].step = "preparing"
    BY <1>4 DEF Verify, NoSideEffect, inodes, Typed, TypeOK, Progressing
  <2>2. Intact(tmp)
    BY <1>4 DEF Verify, SumMatches
  <2> QED
    BY <2>1, <2>2, QuietOwns
<1>5. CASE Mismatch(t) \/ NothingToVerify(t)
  <2>1. /\ Return(t, "failed") /\ tmp' \in {tmp, NoInode} /\ bin' = bin
        /\ content' = content \/ Keep(content, opener)
        /\ unchecked' = unchecked
    BY <1>5 DEF Mismatch, Abort, NothingToVerify, NoSideEffect, inodes
  <2> QED
    BY <2>1, ReturnOwns
<1> QED
  BY <1>2, <1>3, <1>4, <1>5 DEF Verifying

LEMMA ReturningOwns ==
  ASSUME OneAtATime, Typed, Typed', OwnsTheFile, VerifiedBinary, NEW t \in Task,
         \/ CheckFails(t) \/ CheckUpToDate(t) \/ DownloadFails(t)
         \/ CannotRun(t) \/ PrepareFails(t) \/ MoveFails(t)
         \/ ScheduleRestart(t) \/ ScheduleFails(t)
  PROVE  OwnsTheFile' /\ VerifiedBinary'
<1>1. /\ \E o \in {"up_to_date", "failed", "updated", "restarting"} : Return(t, o)
      /\ tmp' \in {tmp, NoInode} /\ bin' = bin
      /\ content' = content \/ Keep(content, opener)
      /\ unchecked' = unchecked
  BY DEF CheckFails, CheckUpToDate, DownloadFails, CannotRun, PrepareFails,
     MoveFails, ScheduleRestart, ScheduleFails, Abort, NoSideEffect, inodes
<1> QED
  BY <1>1, ReturnOwns

LEMMA StepOwns ==
  ASSUME OneAtATime, Typed, Typed', OwnsTheFile, VerifiedBinary, [Next]_vars
  PROVE  OwnsTheFile' /\ VerifiedBinary'
<1>1. CASE Restart \/ Crash
  BY <1>1, RelaunchOwns DEF Restart, Crash
<1>2. CASE \E files \in Batches, v \in Version : Publish(files, v)
  BY <1>2, ElsewhereOwns DEF Publish, inodes
<1>3. ASSUME NEW t \in Task, Start(t)
      PROVE  OwnsTheFile' /\ VerifiedBinary'
  <2>1. /\ tmp' = tmp /\ bin' = bin /\ content' = content /\ unchecked' = unchecked
        /\ task'[t].step = "checking" /\ task'[t].checked = FALSE
    BY <1>3 DEF Start, Idle, NoSideEffect, inodes, Typed, TypeOK
  <2> QED
    BY <2>1, QuietOwns
<1>4. ASSUME NEW t \in Task, Prepare(t)
      PROVE  OwnsTheFile' /\ VerifiedBinary'
  <2>1. /\ tmp' = tmp /\ bin' = bin /\ content' = content /\ unchecked' = unchecked
        /\ task'[t].step = "moving" /\ task'[t].checked = task[t].checked
        /\ task[t].step = "preparing"
    BY <1>4 DEF Prepare, At, Goto, NoSideEffect, inodes, Typed, TypeOK, Progressing
  <2> QED
    BY <2>1, QuietOwns DEF OwnsTheFile
<1>5. ASSUME NEW t \in Task, CheckNewer(t)
      PROVE  OwnsTheFile' /\ VerifiedBinary'
  <2>1. /\ tmp' = tmp /\ bin' = bin /\ content' = content /\ unchecked' = unchecked
        /\ task'[t].step = "fetching" /\ task'[t].checked = task[t].checked
        /\ task[t].step = "checking"
    BY <1>5 DEF CheckNewer, At, Goto, NoSideEffect, inodes, Typed, TypeOK, Progressing
  <2> QED
    BY <2>1, QuietOwns DEF OwnsTheFile
<1>6. ASSUME NEW t \in Task, CopyBegins(t) \/ CopyEnds(t)
      PROVE  FALSE
  BY <1>6 DEF CopyBegins, CopyEnds, At, OneAtATime, OwnsTheFile
<1>7. ASSUME NEW t \in Task, Progress(t) \/ CannotRun(t)
      PROVE  OwnsTheFile' /\ VerifiedBinary'
  BY <1>4, <1>5, <1>6, <1>7, VerifyingOwns, ReturningOwns, DownloadOwns, DownloadedOwns,
     RenameOwns DEF Progress, Fetching, Installing
<1>8. CASE UNCHANGED vars
  BY <1>8, ElsewhereOwns DEF vars, inodes
<1> QED
  BY <1>1, <1>2, <1>3, <1>7, <1>8 DEF Next

\* update.rs:174: what an update installs after verifying it is one whole,
\* undamaged build, through any crash at any step and any number of releases
\* published file by file: as long as no second update runs (two break it: run
\* update_concurrent) and mv renames.
THEOREM VerifiedIsInstalled ==
  ASSUME OneAtATime
  PROVE  Spec => []VerifiedBinary
<1>1. Init => OwnsTheFile /\ VerifiedBinary
  BY InitOwns
<1>2. /\ Typed /\ Typed' /\ OwnsTheFile /\ VerifiedBinary /\ [Next]_vars
      => OwnsTheFile' /\ VerifiedBinary'
  BY OneAtATime, StepOwns
<1> QED
  BY <1>1, <1>2, AlwaysTyped, PTL DEF Spec

-----------------------------------------------------------------------------
(* Releases that appear at once, any number of updates.                    *)

\* A release replaces all of the server's files in one step, and is later than
\* the one before.
ReleasedTogether == Batches \subseteq {ServerFiles}
ReleasesRise     == ~Rollbacks

LaunchesNewer == Launch' \notin {Launch, Down} => Launch' > running

NewIn(i) == content[i].builds \subseteq NewBuilds

\* The service would start what it would have started before ...
LEMMA SameLaunch ==
  ASSUME bin' = bin, content'[bin] = content[bin]
  PROVE  LaunchesNewer
BY DEF LaunchesNewer, Launch, Intact, VersionOf

\* ... or one of the new builds, if it can be started.
LEMMA NewLaunch ==
  ASSUME content'[bin'].builds \subseteq NewBuilds
  PROVE  LaunchesNewer
<1> SUFFICES ASSUME Launch' # Down PROVE Launch' > running
  BY DEF LaunchesNewer
<1> DEFINE B == content'[bin']
           v == CHOOSE x \in Version : B.builds = {x}
<1>1. (\E x \in Version : B.builds = {x}) /\ Launch' = v
  BY DEF Launch, Intact, VersionOf
<1>2. v \in Version /\ B.builds = {v}
  BY <1>1
<1> HIDE DEF v, B
<1>3. v \in NewBuilds
  BY <1>2 DEF B
<1> QED
  BY <1>1, <1>2, <1>3 DEF NewBuilds

\* What is to be shown of a step of task t: that no inode gets an old build, and
\* that t's own inodes and the temporary file have none.
LEMMA OneTaskHandles ==
  ASSUME HandlesNewBuilds, Typed, NEW t \in Task, running' = running,
         tmp' # bin',
         \A u \in Task \ {t} : task'[u] = task[u],
         \A i \in Inode : NewIn(i) => content'[i].builds \subseteq NewBuilds,
         tmp' \notin {tmp, NoInode} => content'[tmp'].builds \subseteq NewBuilds,
         task'[t].step # "idle" =>
           /\ running # Down
           /\ task'[t].build \in NewBuilds
           /\ \A i \in {task'[t].out, task'[t].inp} \ {NoInode} :
                content'[i].builds \subseteq NewBuilds
           /\ task'[t].step \notin {"checking", "fetching"} /\ tmp' # NoInode =>
                content'[tmp'].builds \subseteq NewBuilds
  PROVE  HandlesNewBuilds'
<1>1. NewBuilds' = NewBuilds
  BY DEF NewBuilds
<1>2. ASSUME NEW u \in Task \ {t}, task'[u].step # "idle"
      PROVE  /\ running # Down
             /\ task'[u].build \in NewBuilds
             /\ \A i \in {task'[u].out, task'[u].inp} \ {NoInode} :
                  content'[i].builds \subseteq NewBuilds
             /\ task'[u].step \notin {"checking", "fetching"} /\ tmp' # NoInode =>
                  content'[tmp'].builds \subseteq NewBuilds
  <2>1. task'[u] = task[u] /\ task[u].step # "idle"
    BY <1>2
  <2>2. running # Down /\ task'[u].build \in NewBuilds
    BY <2>1 DEF HandlesNewBuilds
  <2>3. \A i \in {task'[u].out, task'[u].inp} \ {NoInode} : i \in Inode /\ NewIn(i)
    BY <2>1 DEF HandlesNewBuilds, Typed, TypeOK, Progressing, NewIn
  <2>4. task'[u].step \notin {"checking", "fetching"} /\ tmp' # NoInode =>
          content'[tmp'].builds \subseteq NewBuilds
    <3>1. CASE tmp' = tmp
      BY <2>1, <3>1 DEF HandlesNewBuilds, Typed, TypeOK, NewIn
    <3>2. CASE tmp' # tmp
      BY <3>2
    <3> QED
      BY <3>1, <3>2
  <2> QED
    BY <2>2, <2>3, <2>4
<1> HIDE DEF NewBuilds
<1>3. \A u \in Task : task'[u].step # "idle" =>
       /\ running # Down
       /\ task'[u].build \in NewBuilds
       /\ \A i \in {task'[u].out, task'[u].inp} \ {NoInode} :
            content'[i].builds \subseteq NewBuilds
       /\ task'[u].step \notin {"checking", "fetching"} /\ tmp' # NoInode =>
            content'[tmp'].builds \subseteq NewBuilds
  BY <1>2
<1> QED
  BY <1>1, <1>3 DEF HandlesNewBuilds

\* A step after which only the inodes in use hold anything.
LEMMA KeptIsNew ==
  ASSUME NEW c, NEW o, Keep(c, o)
  PROVE  /\ FreeIsEmpty'
         /\ \A i \in Inode : c[i].builds \subseteq NewBuilds =>
              content'[i].builds \subseteq NewBuilds
<1>1. Empty.builds = {} /\ Empty' = Empty
  BY DEF Empty
<1>2. \A i \in Inode : content'[i] = IF i \in InUse' THEN c[i] ELSE Empty
  BY DEF Keep
<1> HIDE DEF Empty
<1>3. FreeIsEmpty'
  BY <1>1, <1>2 DEF FreeIsEmpty
<1> QED
  BY <1>1, <1>2, <1>3

\* A task that refers to no inode before and after changes nobody's use.
LEMMA SameUse ==
  ASSUME FreeIsEmpty, NEW t \in Task, content' = content, tmp' = tmp, bin' = bin,
         \A u \in Task \ {t} : task'[u] = task[u],
         task[t].out = NoInode, task[t].inp = NoInode
  PROVE  FreeIsEmpty'
<1>1. \A i \in Inode : i \in InUse => i \in InUse'
  <2> SUFFICES ASSUME NEW i \in Inode, NEW u \in Task, i \in {task[u].out, task[u].inp}
               PROVE  i \in InUse'
    BY DEF InUse
  <2>1. u # t
    BY UpdateAssumption
  <2> QED
    BY <2>1 DEF InUse
<1>2. Empty' = Empty
  BY DEF Empty
<1> QED
  BY <1>1, <1>2 DEF FreeIsEmpty

LEMMA InitHandles == Init => OneRelease /\ HandlesNewBuilds /\ FreeIsEmpty
<1> SUFFICES ASSUME Init PROVE OneRelease /\ HandlesNewBuilds /\ FreeIsEmpty
  OBVIOUS
<1>1. bin \in Inode /\ tmp = NoInode
  BY InitTyped DEF Init, Typed, TypeOK
<1>2. \A t \in Task : task[t].step = "idle"
  BY DEF Init, Idle
<1>3. HandlesNewBuilds
  BY <1>1, <1>2, UpdateAssumption DEF HandlesNewBuilds
<1>4. FreeIsEmpty
  BY DEF Init, FreeIsEmpty, InUse
<1> QED
  BY <1>3, <1>4 DEF Init, OneRelease

\* What every step is to be shown to do.
NewerStep == HandlesNewBuilds' /\ FreeIsEmpty' /\ LaunchesNewer

\* A step that changes one task's record, which refers to no inode.
LEMMA QuietHandles ==
  ASSUME Typed, HandlesNewBuilds, FreeIsEmpty, NEW t \in Task, running' = running,
         tmp' = tmp, bin' = bin, content' = content,
         \A u \in Task \ {t} : task'[u] = task[u],
         task[t].step \notin {"downloading", "copying"},
         task'[t].step # "idle" =>
           /\ running # Down /\ task'[t].build \in NewBuilds
           /\ task'[t].out = NoInode /\ task'[t].inp = NoInode
           /\ \/ task'[t].step \in {"checking", "fetching"}
              \/ task[t].step \notin {"idle", "checking", "fetching"}
  PROVE  NewerStep
<1>1. task[t].out = NoInode /\ task[t].inp = NoInode
  BY DEF Typed, TypeOK
<1>2. FreeIsEmpty'
  BY <1>1, SameUse
<1>3. LaunchesNewer
  BY SameLaunch
<1>4. \A i \in Inode : NewIn(i) => content'[i].builds \subseteq NewBuilds
  BY DEF NewIn
<1>5. task'[t].step \notin {"idle", "checking", "fetching"} /\ tmp' # NoInode =>
        content'[tmp'].builds \subseteq NewBuilds
  BY DEF HandlesNewBuilds
<1>6. tmp' # bin'
  BY DEF HandlesNewBuilds
<1> HIDE DEF NewBuilds
<1>7. HandlesNewBuilds'
  BY <1>4, <1>5, <1>6, OneTaskHandles
<1> QED
  BY <1>2, <1>3, <1>7 DEF NewerStep

\* The task returns; whatever is freed is empty.
LEMMA ReturnHandles ==
  ASSUME Typed, Typed', HandlesNewBuilds, NEW t \in Task, NEW o, Return(t, o),
         running' = running, tmp' \in {tmp, NoInode}, bin' = bin,
         Keep(content, opener)
  PROVE  NewerStep
<1>1. \A u \in Task \ {t} : task'[u] = task[u]
  BY DEF Return, Typed, TypeOK
<1>2. task'[t].step = "idle"
  BY DEF Return, Idle, Typed, TypeOK
<1>3. /\ FreeIsEmpty'
      /\ \A i \in Inode : NewIn(i) => content'[i].builds \subseteq NewBuilds
  BY KeptIsNew DEF NewIn
<1>4. LaunchesNewer
  BY KeptInPlace, SameLaunch
<1>5. tmp' # bin'
  BY UpdateAssumption DEF HandlesNewBuilds, Typed, TypeOK
<1>6. HandlesNewBuilds'
  BY <1>1, <1>2, <1>3, <1>5, OneTaskHandles
<1> QED
  BY <1>3, <1>4, <1>6 DEF NewerStep

\* The download: the version on offer is newer still, and so are all files of
\* its release.
LEMMA DownloadHandles ==
  ASSUME Typed, Typed', OneRelease, FetchesNewer, HandlesNewBuilds, FreeIsEmpty,
         NEW t \in Task, Download(t)
  PROVE  NewerStep
<1>1. PICK b \in {offer["binary"]} \cup Damages : Truncate(t, tmp', b)
  BY DEF Download
<1>2. b \in NewBuilds
  <2>1. offer["binary"] = offer["version"] /\ offer["version"] \in Version
    BY DEF OneRelease, Typed, TypeOK, ServerFiles
  <2>2. offer["version"] > running
    BY DEF Download, FetchesNewer
  <2> QED
    BY <1>1, <2>1, <2>2, UpdateAssumption DEF NewBuilds, Builds
<1>3. /\ task[t].step = "fetching" /\ running # Down
      /\ task[t].out = NoInode /\ task[t].inp = NoInode
  BY DEF Download, At, HandlesNewBuilds, Typed, TypeOK
<1>4. tmp' \in Inode /\ tmp' # bin /\ bin' = bin /\ running' = running
  BY <1>3, FreshIsFree DEF Download, InUse, HandlesNewBuilds, Typed, TypeOK,
     serviceVars
<1>5. content'[tmp'].builds \subseteq NewBuilds
  <2>1. \A u \in Task : task[u].out = tmp' => task[u].build \in NewBuilds
    BY <1>4, UpdateAssumption DEF HandlesNewBuilds, Typed, TypeOK
  <2>2. content'[tmp'].builds =
          {b} \cup {task[u].build : u \in {u \in Task : task[u].out = tmp'}}
    BY <1>1, <1>4 DEF Truncate, Typed, TypeOK
  <2> QED
    BY <1>2, <2>1, <2>2
<1>6. \A i \in Inode : i # tmp' => content'[i] = content[i]
  BY <1>1 DEF Truncate, Typed, TypeOK
<1>7. \A u \in Task \ {t} : task'[u] = task[u]
  BY <1>1 DEF Truncate, Typed, TypeOK
<1>8. /\ task'[t].step = "downloading" /\ task'[t].build = b
      /\ task'[t].out = tmp' /\ task'[t].inp = NoInode
  BY <1>1, <1>3 DEF Truncate, Typed, TypeOK, Progressing
<1>9. \A i \in Inode : NewIn(i) => content'[i].builds \subseteq NewBuilds
  BY <1>5, <1>6 DEF NewIn
<1>10. HandlesNewBuilds'
  <2> HIDE DEF NewBuilds
  <2> QED
    BY <1>2, <1>3, <1>4, <1>5, <1>7, <1>8, <1>9, OneTaskHandles
<1>11. FreeIsEmpty'
  <2> SUFFICES ASSUME NEW i \in Inode, i \notin InUse'
               PROVE  content'[i] = Empty
    BY DEF FreeIsEmpty, Empty
  <2>1. i # tmp' /\ i # bin
    BY <1>4 DEF InUse
  <2>2. i # tmp
    BY <2>1, UpdateAssumption DEF Download
  <2>3. \A u \in Task \ {t} : i # task[u].out /\ i # task[u].inp
    BY <1>7 DEF InUse
  <2>4. i \notin InUse
    BY <1>3, <2>1, <2>2, <2>3, UpdateAssumption DEF InUse
  <2> QED
    BY <1>6, <2>1, <2>4 DEF FreeIsEmpty
<1>12. LaunchesNewer
  BY <1>4, <1>6, SameLaunch DEF Typed, TypeOK
<1> QED
  BY <1>10, <1>11, <1>12 DEF NewerStep

\* The download ends, maybe of a file that has become the binary meanwhile.
LEMMA DownloadedHandles ==
  ASSUME Typed, Typed', HandlesNewBuilds, NEW t \in Task, Downloaded(t)
  PROVE  NewerStep
<1> DEFINE j == task[t].out
           c == [content EXCEPT ![j].whole = @ \/ opener[j] = t]
<1>1. task[t].step = "downloading" /\ j \in Inode /\ task[t].inp = NoInode
  BY DEF Downloaded, At, Typed, TypeOK, Progressing
<1>2. /\ bin' = bin /\ tmp' = tmp /\ running' = running /\ tmp' # bin'
      /\ running # Down
  BY <1>1 DEF Downloaded, serviceVars, HandlesNewBuilds
<1>3. Keep(c, opener)
  BY DEF Downloaded
<1>4. \A i \in Inode : c[i].builds = content[i].builds
  BY <1>1 DEF Typed, TypeOK
<1>5. \A i \in Inode : i # j => c[i] = content[i]
  BY <1>1 DEF Typed, TypeOK
<1> HIDE DEF c
<1>6. /\ FreeIsEmpty'
      /\ \A i \in Inode : NewIn(i) => content'[i].builds \subseteq NewBuilds
  BY <1>3, <1>4, KeptIsNew DEF NewIn
<1>7. \A u \in Task \ {t} : task'[u] = task[u]
  BY DEF Downloaded, Typed, TypeOK
<1>8. /\ task'[t].step = "summing" /\ task'[t].build = NoVersion
      /\ task'[t].out = NoInode /\ task'[t].inp = NoInode
  BY <1>1 DEF Downloaded, Typed, TypeOK, Progressing
<1>9. NoVersion \in NewBuilds
  BY UpdateAssumption DEF NewBuilds
<1>10. tmp # NoInode => content'[tmp].builds \subseteq NewBuilds
  BY <1>1, <1>6 DEF HandlesNewBuilds, NewIn, Typed, TypeOK
<1>11. LaunchesNewer
  <2>1. CASE bin = j
    <3>1. NewIn(j)
      BY <1>1, UpdateAssumption DEF HandlesNewBuilds, NewIn
    <3> QED
      BY <1>1, <1>2, <1>6, <2>1, <3>1, NewLaunch
  <2>2. CASE bin # j
    BY <1>2, <1>3, <1>5, <2>2, KeptInPlace, SameLaunch DEF Typed, TypeOK
  <2> QED
    BY <2>1, <2>2
<1>12. HandlesNewBuilds'
  <2> HIDE DEF NewBuilds
  <2> QED
    BY <1>2, <1>6, <1>7, <1>8, <1>9, <1>10, OneTaskHandles
<1> QED
  BY <1>6, <1>11, <1>12 DEF NewerStep

LEMMA RenameHandles ==
  ASSUME Typed, Typed', HandlesNewBuilds, NEW t \in Task, Rename(t)
  PROVE  NewerStep
<1>1. task[t].step = "moving" /\ task[t].out = NoInode /\ task[t].inp = NoInode
  BY DEF Rename, At, Typed, TypeOK
<1>2. /\ tmp \in Inode /\ bin' = tmp /\ tmp' = NoInode /\ running' = running
      /\ Keep(content, opener)
  BY DEF Rename, serviceVars, Typed, TypeOK
<1>3. running # Down /\ NewIn(tmp) /\ task[t].build \in NewBuilds
  BY <1>1, <1>2, UpdateAssumption DEF HandlesNewBuilds, NewIn
<1>4. \A u \in Task \ {t} : task'[u] = task[u]
  BY DEF Rename, Goto, Typed, TypeOK
<1>5. /\ task'[t].step = "scheduling" /\ task'[t].build = task[t].build
      /\ task'[t].out = NoInode /\ task'[t].inp = NoInode
  BY <1>1 DEF Rename, Goto, Typed, TypeOK, Progressing
<1>6. /\ FreeIsEmpty'
      /\ \A i \in Inode : NewIn(i) => content'[i].builds \subseteq NewBuilds
  BY <1>2, KeptIsNew DEF NewIn
<1>7. LaunchesNewer
  BY <1>2, <1>3, <1>6, NewLaunch
<1>8. tmp' # bin'
  BY <1>2, UpdateAssumption
<1>9. HandlesNewBuilds'
  <2> HIDE DEF NewBuilds
  <2> QED
    BY <1>2, <1>3, <1>4, <1>5, <1>6, <1>8, OneTaskHandles
<1> QED
  BY <1>6, <1>7, <1>9 DEF NewerStep

LEMMA CopyBeginsHandles ==
  ASSUME Typed, Typed', HandlesNewBuilds, FreeIsEmpty, NEW t \in Task,
         CopyBegins(t)
  PROVE  NewerStep
<1>1. task[t].step = "moving" /\ task[t].out = NoInode /\ task[t].inp = NoInode
  BY DEF CopyBegins, At, Typed, TypeOK
<1>2. /\ tmp \in Inode /\ bin' = Fresh /\ tmp' = tmp /\ running' = running
      /\ Keep(content, opener)
  BY DEF CopyBegins, serviceVars, Typed, TypeOK
<1>3. Fresh \in Inode /\ Fresh \notin InUse /\ Fresh # tmp
  BY <1>1, FreshIsFree DEF InUse
<1>4. NewIn(Fresh)
  BY <1>3 DEF FreeIsEmpty, NewIn, Empty
<1>5. running # Down /\ NewIn(tmp) /\ task[t].build \in NewBuilds
  BY <1>1, <1>2, UpdateAssumption DEF HandlesNewBuilds, NewIn
<1>6. \A u \in Task \ {t} : task'[u] = task[u]
  BY DEF CopyBegins, Typed, TypeOK
<1>7. /\ task'[t].step = "copying" /\ task'[t].build = task[t].build
      /\ task'[t].out = Fresh /\ task'[t].inp = tmp
  BY <1>1 DEF CopyBegins, Typed, TypeOK, Progressing
<1>8. /\ FreeIsEmpty'
      /\ \A i \in Inode : NewIn(i) => content'[i].builds \subseteq NewBuilds
  BY <1>2, KeptIsNew DEF NewIn
<1>9. LaunchesNewer
  BY <1>2, <1>3, <1>4, <1>8, NewLaunch
<1>10. HandlesNewBuilds'
  <2> HIDE DEF NewBuilds
  <2> QED
    BY <1>2, <1>3, <1>4, <1>5, <1>6, <1>7, <1>8, OneTaskHandles
<1> QED
  BY <1>8, <1>9, <1>10 DEF NewerStep

LEMMA CopyEndsHandles ==
  ASSUME Typed, Typed', HandlesNewBuilds, NEW t \in Task, CopyEnds(t)
  PROVE  NewerStep
<1> DEFINE o == task[t].out
           c == [content EXCEPT ![o] = content[task[t].inp]]
<1>1. task[t].step = "copying" /\ o \in Inode /\ task[t].inp \in Inode
  BY DEF CopyEnds, At, Typed, TypeOK, Progressing
<1>2. /\ tmp' = NoInode /\ bin' = bin /\ running' = running /\ Keep(c, opener)
  BY DEF CopyEnds, serviceVars
<1>3. /\ running # Down /\ task[t].build \in NewBuilds
      /\ NewIn(o) /\ NewIn(task[t].inp)
  BY <1>1, UpdateAssumption DEF HandlesNewBuilds, NewIn
<1>4. \A i \in Inode : NewIn(i) => c[i].builds \subseteq NewBuilds
  BY <1>1, <1>3 DEF NewIn, Typed, TypeOK
<1>5. \A i \in Inode : i # o => c[i] = content[i]
  BY <1>1 DEF Typed, TypeOK
<1> HIDE DEF c
<1>6. /\ FreeIsEmpty'
      /\ \A i \in Inode : NewIn(i) => content'[i].builds \subseteq NewBuilds
  BY <1>2, <1>4, KeptIsNew
<1>7. \A u \in Task \ {t} : task'[u] = task[u]
  BY DEF CopyEnds, Typed, TypeOK
<1>8. /\ task'[t].step = "scheduling" /\ task'[t].build = task[t].build
      /\ task'[t].out = NoInode /\ task'[t].inp = NoInode
  BY <1>1 DEF CopyEnds, Typed, TypeOK, Progressing
<1>9. LaunchesNewer
  <2>1. CASE bin = o
    BY <1>1, <1>2, <1>3, <1>6, <2>1, NewLaunch
  <2>2. CASE bin # o
    BY <1>2, <1>5, <2>2, KeptInPlace, SameLaunch DEF Typed, TypeOK
  <2> QED
    BY <2>1, <2>2
<1>10. tmp' # bin'
  BY <1>2, UpdateAssumption DEF Typed, TypeOK
<1>11. HandlesNewBuilds'
  <2> HIDE DEF NewBuilds
  <2> QED
    BY <1>2, <1>3, <1>6, <1>7, <1>8, <1>10, OneTaskHandles
<1> QED
  BY <1>6, <1>9, <1>11 DEF NewerStep

LEMMA RelaunchHandles ==
  ASSUME Typed', HandlesNewBuilds, Relaunch
  PROVE  NewerStep
<1>1. bin' = bin /\ tmp' = tmp /\ Keep(content, opener)
  BY DEF Relaunch
<1>2. \A t \in Task : task'[t].step = "idle"
  BY DEF Relaunch, Idle
<1>3. HandlesNewBuilds'
  BY <1>1, <1>2 DEF HandlesNewBuilds
<1>4. FreeIsEmpty'
  BY <1>1, KeptIsNew
<1>5. LaunchesNewer
  BY <1>1, KeptInPlace, SameLaunch
<1> QED
  BY <1>3, <1>4, <1>5 DEF NewerStep

\* Steps that leave the tasks, the paths and their files alone.
LEMMA ElsewhereHandles ==
  ASSUME HandlesNewBuilds, FreeIsEmpty,
         UNCHANGED <<tmp, bin, content, task, running>>
  PROVE  NewerStep
<1>1. NewBuilds' = NewBuilds /\ InUse' = InUse /\ Empty' = Empty
  BY DEF NewBuilds, InUse, Empty
<1>2. HandlesNewBuilds'
  BY <1>1 DEF HandlesNewBuilds
<1>3. FreeIsEmpty'
  BY <1>1 DEF FreeIsEmpty
<1> QED
  BY <1>2, <1>3, SameLaunch DEF NewerStep

\* The task returns without a change to any file.
LEMMA QuietReturnHandles ==
  ASSUME Typed, HandlesNewBuilds, FreeIsEmpty, NEW t \in Task, NEW o, Return(t, o),
         task[t].step \notin {"downloading", "copying"},
         running' = running, tmp' = tmp, bin' = bin, content' = content
  PROVE  NewerStep
<1>1. \A u \in Task \ {t} : task'[u] = task[u]
  BY DEF Return, Typed, TypeOK
<1>2. task'[t].step = "idle"
  BY DEF Return, Idle, Typed, TypeOK
<1> QED
  BY <1>1, <1>2, QuietHandles

\* The task moves on without a change to any file.
LEMMA MovingOnHandles ==
  ASSUME Typed, HandlesNewBuilds, FreeIsEmpty, NEW t \in Task,
         \/ Start(t) \/ CheckNewer(t)
         \/ FetchSum(t) \/ SkipSum(t) \/ Verify(t) \/ Prepare(t)
  PROVE  NewerStep
<1>1. /\ tmp' = tmp /\ bin' = bin /\ content' = content /\ running' = running
      /\ task[t].step \notin {"downloading", "copying"}
  BY DEF Start, CheckNewer, FetchSum, SkipSum, Verify, Prepare, At, NoSideEffect,
     inodes, serviceVars
<1>2. \A u \in Task \ {t} : task'[u] = task[u]
  BY DEF Start, CheckNewer, FetchSum, SkipSum, Verify, Prepare, Goto, Typed, TypeOK
<1>3. CASE Start(t)
  <2>1. /\ task'[t].step = "checking" /\ task'[t].build = NoVersion
        /\ task'[t].out = NoInode /\ task'[t].inp = NoInode
    BY <1>3 DEF Start, Idle, Typed, TypeOK
  <2>2. running # Down /\ NoVersion \in NewBuilds
    BY <1>3, UpdateAssumption DEF Start, NewBuilds
  <2> HIDE DEF NewBuilds
  <2> QED
    BY <1>1, <1>2, <2>1, <2>2, QuietHandles
<1>4. CASE FetchSum(t) \/ SkipSum(t) \/ Verify(t) \/ Prepare(t)
  <2>1. task[t].step \in {"summing", "comparing", "preparing"}
    BY <1>4 DEF FetchSum, SkipSum, Verify, Prepare, At
  <2>2. /\ task'[t].out = task[t].out /\ task'[t].inp = task[t].inp
        /\ task'[t].build = task[t].build
    BY <1>4 DEF FetchSum, SkipSum, Verify, Prepare, Goto, Typed, TypeOK, Progressing
  <2>3. running # Down /\ task[t].build \in NewBuilds
    BY <2>1 DEF HandlesNewBuilds
  <2>4. task[t].out = NoInode /\ task[t].inp = NoInode
    BY <2>1 DEF Typed, TypeOK
  <2> HIDE DEF NewBuilds
  <2> QED
    BY <1>1, <1>2, <2>1, <2>2, <2>3, <2>4, QuietHandles
<1>5. CASE CheckNewer(t)
  <2>1. /\ task[t].step = "checking" /\ task'[t].step = "fetching"
        /\ task'[t].out = task[t].out /\ task'[t].inp = task[t].inp
        /\ task'[t].build = task[t].build
    BY <1>5 DEF CheckNewer, At, Goto, Typed, TypeOK, Progressing
  <2>2. running # Down /\ task[t].build \in NewBuilds
    BY <2>1 DEF HandlesNewBuilds
  <2>3. task[t].out = NoInode /\ task[t].inp = NoInode
    BY <2>1 DEF Typed, TypeOK
  <2> HIDE DEF NewBuilds
  <2> QED
    BY <1>1, <1>2, <2>1, <2>2, <2>3, QuietHandles
<1> QED
  BY <1>3, <1>4, <1>5

LEMMA ReturningHandles ==
  ASSUME Typed, Typed', HandlesNewBuilds, FreeIsEmpty, NEW t \in Task,
         \/ CheckFails(t) \/ CheckUpToDate(t) \/ DownloadFails(t)
         \/ Mismatch(t) \/ NothingToVerify(t)
         \/ CannotRun(t) \/ PrepareFails(t) \/ MoveFails(t)
         \/ ScheduleRestart(t) \/ ScheduleFails(t)
  PROVE  NewerStep
<1>1. CASE \/ CheckFails(t) \/ CheckUpToDate(t) \/ NothingToVerify(t)
           \/ CannotRun(t) \/ ScheduleRestart(t) \/ ScheduleFails(t)
  <2>1. /\ \E o \in {"up_to_date", "failed", "updated", "restarting"} : Return(t, o)
        /\ task[t].step \notin {"downloading", "copying"}
        /\ running' = running /\ tmp' = tmp /\ bin' = bin /\ content' = content
    BY <1>1 DEF CheckFails, CheckUpToDate, NothingToVerify, CannotRun,
       ScheduleRestart, ScheduleFails, At, NoSideEffect, inodes, serviceVars
  <2> QED
    BY <2>1, QuietReturnHandles
<1>2. CASE \/ DownloadFails(t) \/ Mismatch(t) \/ PrepareFails(t) \/ MoveFails(t)
  <2>1. /\ Return(t, "failed") /\ running' = running /\ tmp' \in {tmp, NoInode}
        /\ bin' = bin /\ Keep(content, opener)
    BY <1>2 DEF DownloadFails, Mismatch, PrepareFails, MoveFails, Abort, serviceVars
  <2> QED
    BY <2>1, ReturnHandles
<1> QED
  BY <1>1, <1>2

LEMMA StepHandles ==
  ASSUME Typed, Typed', OneRelease, FetchesNewer, HandlesNewBuilds, FreeIsEmpty,
         [Next]_vars
  PROVE  NewerStep
<1>1. CASE Restart \/ Crash
  BY <1>1, RelaunchHandles DEF Restart, Crash
<1>2. CASE \E files \in Batches, v \in Version : Publish(files, v)
  BY <1>2, ElsewhereHandles DEF Publish, inodes, serviceVars
<1>3. ASSUME NEW t \in Task, Start(t) \/ Progress(t) \/ CannotRun(t)
      PROVE  NewerStep
  BY <1>3, MovingOnHandles, ReturningHandles, DownloadHandles, DownloadedHandles,
     RenameHandles, CopyBeginsHandles, CopyEndsHandles
     DEF Progress, Fetching, Verifying, Installing
<1>4. CASE UNCHANGED vars
  BY <1>4, ElsewhereHandles DEF vars, inodes, serviceVars
<1> QED
  BY <1>1, <1>2, <1>3, <1>4 DEF Next

LEMMA StepOneRelease ==
  ASSUME ReleasedTogether, Typed, OneRelease, [Next]_vars
  PROVE  OneRelease'
<1>1. CASE \E files \in Batches, v \in Version : Publish(files, v)
  <2>1. PICK files \in Batches, v \in Version : Publish(files, v)
    BY <1>1
  <2>2. files = ServerFiles
    BY DEF ReleasedTogether
  <2> QED
    BY <2>1, <2>2 DEF Publish, OneRelease
<1>2. CASE offer' = offer
  BY <1>2 DEF OneRelease
<1>3. CASE Restart \/ Crash
  BY <1>2, <1>3 DEF Restart, Crash, Relaunch
<1>4. CASE \E t \in Task : Start(t) \/ Fetching(t) \/ Verifying(t)
  BY <1>2, <1>4 DEF Start, Fetching, CheckFails, CheckUpToDate, CheckNewer,
     Download, Downloaded, DownloadFails, Verifying, FetchSum, SkipSum, Verify, Mismatch,
     NothingToVerify, Abort, NoSideEffect
<1>5. CASE \E t \in Task : Installing(t) \/ CannotRun(t)
  BY <1>2, <1>5 DEF Installing, CannotRun, Prepare, PrepareFails, Rename,
     CopyBegins, CopyEnds, MoveFails, ScheduleRestart, ScheduleFails, Abort,
     NoSideEffect
<1>6. CASE UNCHANGED vars
  BY <1>2, <1>6 DEF vars
<1> QED
  BY <1>1, <1>3, <1>4, <1>5, <1>6 DEF Next, Progress

LEMMA TaskLeavesServer ==
  ASSUME Typed, NEW t \in Task, Start(t) \/ Progress(t) \/ CannotRun(t)
  PROVE  /\ offer' = offer /\ running' = running
         /\ \A u \in Task \ {t} : task'[u] = task[u]
<1>1. CASE Start(t) \/ Fetching(t)
  BY <1>1 DEF Start, Fetching, CheckFails, CheckUpToDate, CheckNewer, Download,
     Truncate, Downloaded, DownloadFails, Goto, Return, NoSideEffect, serviceVars,
     Typed, TypeOK
<1>2. CASE Verifying(t) \/ CannotRun(t)
  BY <1>2 DEF Verifying, FetchSum, SkipSum, Verify, Mismatch, NothingToVerify,
     CannotRun, Abort, Goto, Return, NoSideEffect, serviceVars, Typed, TypeOK
<1>3. CASE Installing(t)
  BY <1>3 DEF Installing, Prepare, PrepareFails, Rename, CopyBegins, CopyEnds,
     MoveFails, ScheduleRestart, ScheduleFails, Abort, Goto, Return, NoSideEffect,
     serviceVars, Typed, TypeOK
<1> QED
  BY <1>1, <1>2, <1>3 DEF Progress

LEMMA FetchingIsNewer ==
  ASSUME Typed, NEW t \in Task, Start(t) \/ Progress(t) \/ CannotRun(t),
         task'[t].step = "fetching"
  PROVE  Newer(offer["version"])
<1>1. CASE Start(t) \/ Fetching(t)
  BY <1>1 DEF Start, Fetching, CheckFails, CheckUpToDate, CheckNewer, Download,
     Truncate, Downloaded, DownloadFails, Return, Idle, Typed, TypeOK, Progressing
<1>2. CASE Verifying(t) \/ CannotRun(t)
  BY <1>2 DEF Verifying, FetchSum, SkipSum, Verify, Mismatch, NothingToVerify,
     CannotRun, Abort, Goto, Return, Idle, Typed, TypeOK, Progressing
<1>3. CASE Installing(t)
  BY <1>3 DEF Installing, Prepare, PrepareFails, Rename, CopyBegins, CopyEnds,
     MoveFails, ScheduleRestart, ScheduleFails, Abort, Goto, Return, Idle,
     Typed, TypeOK, Progressing
<1> QED
  BY <1>1, <1>2, <1>3 DEF Progress

\* A version found newer is still newer while the server only moves forward.
LEMMA StepFetchesNewer ==
  ASSUME ReleasedTogether, ReleasesRise, Typed, HandlesNewBuilds, FetchesNewer,
         [Next]_vars
  PROVE  FetchesNewer'
<1>1. CASE \E files \in Batches, v \in Version : Publish(files, v)
  <2>1. PICK files \in Batches, v \in Version : Publish(files, v)
    BY <1>1
  <2>2. offer["version"] < v /\ offer'["version"] = v
    BY <2>1 DEF Publish, ReleasedTogether, ReleasesRise, ServerFiles
  <2>3. task' = task /\ running' = running
    BY <2>1 DEF Publish, serviceVars
  <2>4. ASSUME NEW t \in Task, task[t].step = "fetching"
        PROVE  v > running
    <3>1. offer["version"] > running
      BY <2>4 DEF FetchesNewer, At
    <3>2. offer["version"] \in Nat /\ v \in Nat
      BY UpdateAssumption DEF Typed, TypeOK, ServerFiles
    <3>3. running \in Nat
      BY <2>4, UpdateAssumption DEF HandlesNewBuilds, Typed, TypeOK
    <3> QED
      BY <2>2, <3>1, <3>2, <3>3
  <2> QED
    BY <2>2, <2>3, <2>4 DEF FetchesNewer, At
<1>2. CASE Restart \/ Crash
  BY <1>2 DEF Restart, Crash, Relaunch, Idle, FetchesNewer, At
<1>3. ASSUME NEW t \in Task, Start(t) \/ Progress(t) \/ CannotRun(t)
      PROVE  FetchesNewer'
  <2>1. offer' = offer /\ running' = running
    BY <1>3, TaskLeavesServer
  <2>2. \A u \in Task \ {t} : task'[u] = task[u]
    BY <1>3, TaskLeavesServer
  <2>3. task'[t].step = "fetching" => Newer(offer["version"])
    BY <1>3, FetchingIsNewer
  <2> QED
    BY <2>1, <2>2, <2>3 DEF FetchesNewer, At, Newer
<1>4. CASE UNCHANGED vars
  BY <1>4 DEF vars, serviceVars, FetchesNewer, At
<1> QED
  BY <1>1, <1>2, <1>3, <1>4 DEF Next

\* update.rs:95 and after fetch version, binary and checksum one by one, verify
\* only if a checksum comes, and share two paths with any other update.  If the
\* files of a release appear together, and releases only ever go up (a server
\* that goes back to an older one between two fetches is excluded: nothing would
\* keep it from being installed), none of that can make the service start a
\* version it does not already start, unless it is newer than the one running:
\* for any number of updates at once, either kind of mv, any crashes.
THEOREM OnlyNewerIsInstalled ==
  ASSUME ReleasedTogether, ReleasesRise
  PROVE  Spec => InstallsOnlyNewer
<1>1. Init => OneRelease /\ HandlesNewBuilds /\ FreeIsEmpty
  BY InitHandles
<1>2. Init => FetchesNewer
  BY DEF Init, Idle, FetchesNewer, At
<1>3. Typed /\ OneRelease /\ [Next]_vars => OneRelease'
  BY ReleasedTogether, StepOneRelease
<1>4. Typed /\ HandlesNewBuilds /\ FetchesNewer /\ [Next]_vars => FetchesNewer'
  BY ReleasedTogether, ReleasesRise, StepFetchesNewer
<1>5. /\ Typed /\ Typed' /\ OneRelease /\ FetchesNewer /\ HandlesNewBuilds
      /\ FreeIsEmpty /\ [Next]_vars
      => HandlesNewBuilds' /\ FreeIsEmpty' /\ LaunchesNewer
  BY StepHandles DEF NewerStep
<1>6. LaunchesNewer => [Launch' \notin {Launch, Down} => Launch' > running]_vars
  BY DEF LaunchesNewer
<1> QED
  BY <1>1, <1>2, <1>3, <1>4, <1>5, <1>6, AlwaysTyped, PTL
     DEF Spec, InstallsOnlyNewer

=============================================================================
