-------------------------- MODULE StateFile_proofs --------------------------
(***************************************************************************)
(* Proofs about StateFile, for every number of users, tokens, threads and  *)
(* callers, and every store that the relay may find at its first start.    *)
(***************************************************************************)
EXTENDS StateFile, SequenceTheorems, TLAPS

\* The records that a running save works with.
Save == [op : {"commit", "bind", "unbind"}, who : Task \cup {"slack"},
         tmp : {"torn", "whole", "synced"}, next : Store]

\* Users and tokens differ between memory and file only inside a save; a commit
\* leaves the bindings of memory alone until it is saved.
SavedInv ==
  /\ proc = "up" => mem.users = file.data.users /\ mem.tokens = file.data.tokens
  /\ job # <<>> => proc = "up"
  /\ job = <<>> \/ job.op = "commit" => (proc = "up" => Touched \subseteq unsaved)

\* Every store that may become the file's lists its users once.
OnceInv ==
  /\ NoRepeats(mem.users) /\ \A i \in dir : NoRepeats(i.data.users)
  /\ job # <<>> => NoRepeats(job.next.users)

IInv == TypeOK /\ FileIsWhole /\ SavedInv /\ OnceInv
-----------------------------------------------------------------------------
(* Stores.                                                                  *)

\* A changed store is a store, and its other parts are what they were.
LEMMA ChangedStore ==
  ASSUME NEW s \in Store
  PROVE  /\ \A u \in User : [s EXCEPT !.users = Append(@, u)] \in Store
         /\ \A k \in Token : [s EXCEPT !.tokens = Append(@, k)] \in Store
         /\ \A B \in SUBSET Thread : [s EXCEPT !.bindings = B] \in Store
BY AppendProperties DEF Store

\* Adding what is not there repeats nothing.
LEMMA AppendOnce ==
  ASSUME NEW S, NEW s \in Seq(S), NoRepeats(s), NEW x \in S, ~In(x, s)
  PROVE  NoRepeats(Append(s, x))
<1>1. /\ Len(Append(s, x)) = Len(s) + 1 /\ Append(s, x) \in Seq(S)
      /\ \A i \in 1..Len(s) : Append(s, x)[i] = s[i]
      /\ Append(s, x)[Len(s) + 1] = x
  BY AppendProperties
<1>2. DOMAIN Append(s, x) = 1..(Len(s) + 1) /\ DOMAIN s = 1..Len(s) /\ Len(s) \in Nat
  BY <1>1
<1> QED BY <1>1, <1>2 DEF NoRepeats, In

\* What a sign-in makes of the store: one user more, or the same.
LEMMA WithUserStore ==
  ASSUME mem \in Store, NoRepeats(mem.users), NEW u \in User
  PROVE  /\ WithUser(u) \in Store /\ NoRepeats(WithUser(u).users)
         /\ WithUser(u).bindings = mem.bindings /\ WithUser(u).tokens = mem.tokens
<1>1. CASE In(u, mem.users)
  BY <1>1 DEF WithUser
<1>2. CASE ~In(u, mem.users)
  <2>1. WithUser(u) = [mem EXCEPT !.users = Append(mem.users, u)]
    BY <1>2 DEF WithUser
  <2>2. mem.users \in Seq(User)
    BY DEF Store
  <2>3. NoRepeats(Append(mem.users, u))
    BY <1>2, <2>2, AppendOnce
  <2>4. /\ WithUser(u).users = Append(mem.users, u) /\ WithUser(u).bindings = mem.bindings
        /\ WithUser(u).tokens = mem.tokens
    BY <2>1 DEF Store
  <2>5. WithUser(u) \in Store
    BY <2>1, ChangedStore
  <2> QED BY <2>3, <2>4, <2>5
<1> QED BY <1>1, <1>2

\* What a token request makes of the store.
LEMMA WithTokenStore ==
  ASSUME mem \in Store, NEW k \in Token
  PROVE  /\ WithToken(k) \in Store /\ WithToken(k).users = mem.users
         /\ WithToken(k).bindings = mem.bindings
BY ChangedStore DEF WithToken, Store

\* The empty store.
LEMMA NothingStore == Nothing \in Store /\ NoRepeats(Nothing.users)
BY EmptySeq DEF Nothing, Store, NoRepeats
-----------------------------------------------------------------------------
(* The invariant of the proof, step by step.                                *)

\* It holds when the relay starts for the first time.
LEMMA Initial == Init => IInv
<1> SUFFICES ASSUME Init PROVE IInv
  OBVIOUS
<1>0. Loaded \in Store /\ NoRepeats(Loaded.users)
  BY LoadedAssumption
<1>1. OnDisk(Loaded) \in Image
  BY <1>0 DEF OnDisk, Image
<1>2. /\ OnDisk(Loaded).data = Loaded /\ OnDisk(Loaded).whole = TRUE
      /\ OnDisk(Loaded).synced = TRUE
  BY DEF OnDisk
<1>3. TypeOK
  BY <1>0, <1>1, <1>2 DEF Init, TypeOK, UsersOnce, Job
<1>4. FileIsWhole
  BY <1>2 DEF Init, FileIsWhole
<1>5. SavedInv
  BY <1>2 DEF Init, SavedInv, Touched
<1>6. OnceInv
  BY <1>0, <1>2 DEF Init, OnceInv
<1> QED BY <1>3, <1>4, <1>5, <1>6 DEF IInv

\* A commit of a store that lists its users once.
LEMMA CommitStep ==
  ASSUME IInv, NEW t \in Task, NEW s \in Store, NoRepeats(s.users), Commit(t, s)
  PROVE  IInv'
<1>1. CASE s = mem /\ result' = [result EXCEPT ![t] = "saved"] /\ UNCHANGED job
  <2>1. UNCHANGED <<proc, mem, job, file, dir, unsaved>>
    BY <1>1 DEF Commit, diskVars
  <2>2. TypeOK'
    BY <1>1, <2>1 DEF IInv, TypeOK, UsersOnce
  <2>3. FileIsWhole' /\ SavedInv' /\ OnceInv'
    BY <2>1 DEF IInv, FileIsWhole, SavedInv, OnceInv, Touched
  <2> QED BY <2>2, <2>3 DEF IInv
<1>2. CASE s # mem /\ Saving("commit", t, s) /\ UNCHANGED result
  <2>1. UNCHANGED <<proc, mem, result, file, dir, unsaved>> /\ proc = "up" /\ job = <<>>
    BY <1>2 DEF Commit, diskVars, Locked
  <2>2. /\ job' = [op |-> "commit", who |-> t, tmp |-> "torn", next |-> s]
        /\ job' \in Job /\ job'.op = "commit" /\ job'.next = s
    BY <1>2 DEF Saving, Job
  <2>3. TypeOK'
    BY <2>1, <2>2 DEF IInv, TypeOK, UsersOnce
  <2>4. FileIsWhole'
    BY <2>1 DEF IInv, FileIsWhole
  <2>5. SavedInv'
    BY <2>1, <2>2 DEF IInv, SavedInv, Touched
  <2>6. OnceInv'
    BY <2>1, <2>2 DEF IInv, OnceInv
  <2> QED BY <2>3, <2>4, <2>5, <2>6 DEF IInv
<1> QED BY <1>1, <1>2 DEF Commit

\* A bind or an unbind changes the bindings of memory, and a save of it begins.
LEMMA SlackStep ==
  ASSUME IInv, NEW B \in SUBSET Thread, NEW op \in {"bind", "unbind"},
         Locked, mem' = [mem EXCEPT !.bindings = B], Saving(op, "slack", mem'),
         UNCHANGED <<proc, result, diskVars, unsaved>>
  PROVE  IInv'
<1>1. mem \in Store /\ mem' \in Store /\ mem'.users = mem.users /\ mem'.tokens = mem.tokens
  BY ChangedStore DEF IInv, TypeOK, Store
<1>2. /\ job' = [op |-> op, who |-> "slack", tmp |-> "torn", next |-> mem']
      /\ job' \in Job /\ job'.op = op /\ job'.next = mem' /\ job' # <<>>
  BY <1>1 DEF Saving, Job
<1>3. UNCHANGED <<proc, result, file, dir, unsaved>> /\ proc = "up"
  BY DEF Locked, diskVars
<1>4. TypeOK'
  BY <1>1, <1>2, <1>3 DEF IInv, TypeOK, UsersOnce
<1>5. FileIsWhole'
  BY <1>3 DEF IInv, FileIsWhole
<1>6. SavedInv'
  BY <1>1, <1>2, <1>3 DEF IInv, SavedInv
<1>7. OnceInv'
  BY <1>1, <1>2, <1>3 DEF IInv, OnceInv
<1> QED BY <1>4, <1>5, <1>6, <1>7 DEF IInv

\* A running save, as a record.
LEMMA SaveRecord ==
  ASSUME IInv, job # <<>>
  PROVE  /\ job \in Save /\ job.next \in Store /\ NoRepeats(job.next.users) /\ proc = "up"
         /\ job.who \in Task \cup {"slack"} /\ job.op \in {"commit", "bind", "unbind"}
BY DEF IInv, TypeOK, Job, Save, OnceInv, SavedInv

\* A save goes on with its temporary file.
LEMMA TmpStep ==
  ASSUME IInv, job # <<>>, NEW t \in {"whole", "synced"}, Tmp(t),
         UNCHANGED <<proc, mem, result, diskVars, unsaved>>
  PROVE  IInv'
<1>0. job \in Save
  BY SaveRecord
<1>1. job' \in Job /\ job' # <<>> /\ job'.op = job.op /\ job'.next = job.next
  BY <1>0 DEF Tmp, Save, Job
<1>2. UNCHANGED <<proc, mem, result, file, dir, unsaved>>
  BY DEF diskVars
<1>3. TypeOK'
  BY <1>1, <1>2 DEF IInv, TypeOK, UsersOnce
<1>4. FileIsWhole' /\ SavedInv' /\ OnceInv'
  BY <1>1, <1>2 DEF IInv, FileIsWhole, SavedInv, OnceInv, Touched
<1> QED BY <1>3, <1>4 DEF IInv

\* What a commit is told has its type.
LEMMA ReturnType ==
  ASSUME IInv, job # <<>>, NEW r \in {"saved", "failed"}, Return(r)
  PROVE  job' = <<>> /\ result' \in [Task -> {"none", "saved", "failed"}]
<1>1. result \in [Task -> {"none", "saved", "failed"}]
  BY DEF IInv, TypeOK
<1> QED BY <1>1 DEF Return

\* The save succeeds: memory and file are the same store.
LEMMA RenameStep ==
  ASSUME IInv, Rename
  PROVE  IInv'
<1>0. job # <<>> /\ Return("saved") /\ job.tmp = "synced"
  BY DEF Rename, Ready
<1>1. job.next \in Store /\ NoRepeats(job.next.users) /\ proc = "up"
  BY <1>0, SaveRecord
<1>2. job' = <<>> /\ result' \in [Task -> {"none", "saved", "failed"}]
  BY <1>0, ReturnType
<1>3. /\ Written \in Image /\ Written.data = job.next
      /\ Written.whole = TRUE /\ Written.synced = TRUE
  BY <1>0, <1>1 DEF Written, Image
<1>4. /\ file' = Written /\ dir' = dir \cup {Written} /\ mem' = job.next /\ unsaved' = {}
      /\ proc' = proc
  BY DEF Rename
<1>5. TypeOK'
  BY <1>1, <1>2, <1>3, <1>4 DEF IInv, TypeOK, UsersOnce, Job
<1>6. FileIsWhole'
  BY <1>3, <1>4 DEF IInv, FileIsWhole
<1>7. SavedInv'
  BY <1>1, <1>2, <1>3, <1>4 DEF SavedInv, Touched
<1>8. OnceInv'
  BY <1>1, <1>2, <1>3, <1>4 DEF IInv, OnceInv
<1> QED BY <1>5, <1>6, <1>7, <1>8 DEF IInv

\* The save fails: what differs is remembered as unsaved.
LEMMA FailStep ==
  ASSUME IInv, SaveFails
  PROVE  IInv'
<1>0. job # <<>> /\ Return("failed") /\ proc = "up"
  BY SaveRecord DEF SaveFails, Outcome
<1>1. job' = <<>> /\ result' \in [Task -> {"none", "saved", "failed"}]
  BY <1>0, ReturnType
<1>2. UNCHANGED <<proc, mem, file, dir>> /\ unsaved' = unsaved \cup Touched
  BY DEF SaveFails, diskVars
<1>3. Touched' = Touched /\ Touched \subseteq Thread
  BY <1>2 DEF Touched
<1>4. TypeOK'
  BY <1>1, <1>2, <1>3 DEF IInv, TypeOK, UsersOnce, Job
<1>5. FileIsWhole'
  BY <1>2 DEF IInv, FileIsWhole
<1>6. SavedInv'
  BY <1>0, <1>1, <1>2, <1>3 DEF IInv, SavedInv
<1>7. OnceInv'
  BY <1>1, <1>2 DEF IInv, OnceInv
<1> QED BY <1>4, <1>5, <1>6, <1>7 DEF IInv

\* The process is gone: the disk may be as it was or as a power loss leaves it.
LEMMA GoneStep ==
  ASSUME IInv, Gone, NEW f \in Image, f.whole, file' = f, f \in dir', dir' \subseteq Image,
         NoRepeats(f.data.users), \A i \in dir' : i.synced /\ NoRepeats(i.data.users)
  PROVE  IInv'
<1>1. /\ proc' = "down" /\ mem' = Nothing /\ job' = <<>> /\ unsaved' = {}
      /\ result' = [t \in Task |-> "none"]
  BY DEF Gone
<1>2. TypeOK'
  BY <1>1, NothingStore DEF TypeOK, UsersOnce, Job
<1>3. FileIsWhole'
  BY <1>1 DEF FileIsWhole
<1>4. SavedInv'
  BY <1>1 DEF SavedInv
<1>5. OnceInv'
  BY <1>1, NothingStore DEF OnceInv
<1> QED BY <1>2, <1>3, <1>4, <1>5 DEF IInv

\* The process stops; the disk keeps what was written to it.
LEMMA CrashStep ==
  ASSUME IInv, Crash
  PROVE  IInv'
<1>1. Gone /\ file' = file /\ dir' = dir
  BY DEF Crash, diskVars
<1>2. file \in Image /\ file.whole /\ file \in dir /\ dir \subseteq Image
  BY DEF IInv, TypeOK, FileIsWhole
<1>3. \A i \in dir : i.synced /\ NoRepeats(i.data.users)
  BY DEF IInv, FileIsWhole, OnceInv
<1> QED BY <1>1, <1>2, <1>3, GoneStep

\* The machine stops: whatever survives was synced, and is whole.
LEMMA PowerLossStep ==
  ASSUME IInv, PowerLoss
  PROVE  IInv'
<1>1. PICK i \in dir : file' = Survivor(i) /\ dir' = {Survivor(i)}
  BY DEF PowerLoss
<1>2. i \in Image /\ i.synced = TRUE /\ NoRepeats(i.data.users)
  BY DEF IInv, TypeOK, FileIsWhole, OnceInv, Image
<1>3. /\ Survivor(i) \in Image /\ Survivor(i).whole /\ Survivor(i).synced
      /\ Survivor(i).data = i.data
  BY <1>2 DEF Survivor, Image
<1>4. Gone
  BY DEF PowerLoss
<1> QED BY <1>1, <1>2, <1>3, <1>4, GoneStep

\* The directory is recorded.
LEMMA RecordedStep ==
  ASSUME IInv, DirRecorded
  PROVE  IInv'
<1>1. dir' = {file} /\ file \in dir /\ UNCHANGED <<proc, mem, job, result, file, unsaved>>
  BY DEF DirRecorded, IInv, TypeOK
<1>2. TypeOK'
  BY <1>1 DEF IInv, TypeOK, UsersOnce
<1>3. FileIsWhole' /\ SavedInv' /\ OnceInv'
  BY <1>1 DEF IInv, FileIsWhole, SavedInv, OnceInv, Touched
<1> QED BY <1>2, <1>3 DEF IInv

\* The relay starts again: a whole file becomes its memory.
LEMMA StartStep ==
  ASSUME IInv, Start
  PROVE  IInv'
<1>1. /\ proc = "down" /\ proc' = "up" /\ mem' = file.data
      /\ UNCHANGED <<job, result, file, dir, unsaved>>
  BY DEF Start, IInv, FileIsWhole, diskVars
<1>2. /\ file \in Image /\ file \in dir /\ file.data \in Store /\ job = <<>>
      /\ NoRepeats(file.data.users)
  BY <1>1 DEF IInv, TypeOK, Image, SavedInv, OnceInv
<1>3. TypeOK'
  BY <1>1, <1>2 DEF IInv, TypeOK, UsersOnce
<1>4. FileIsWhole'
  BY <1>1 DEF IInv, FileIsWhole
<1>5. SavedInv'
  BY <1>1, <1>2 DEF SavedInv, Touched
<1>6. OnceInv'
  BY <1>1, <1>2 DEF IInv, OnceInv
<1> QED BY <1>3, <1>4, <1>5, <1>6 DEF IInv

\* Every step of the store keeps the invariant.
LEMMA StepKeeps == IInv /\ [Next]_vars => IInv'
<1> SUFFICES ASSUME IInv, [Next]_vars PROVE IInv'
  OBVIOUS
<1>0. mem \in Store /\ NoRepeats(mem.users)
  BY DEF IInv, TypeOK, OnceInv
<1>1. CASE WriteTmp
  BY <1>1, TmpStep DEF WriteTmp
<1>2. CASE SyncTmp
  BY <1>2, TmpStep DEF SyncTmp
<1>3. CASE Rename
  BY <1>3, RenameStep
<1>4. CASE SaveFails
  BY <1>4, FailStep
<1>5. CASE Crash
  BY <1>5, CrashStep
<1>6. CASE PowerLoss
  BY <1>6, PowerLossStep
<1>7. CASE DirRecorded
  BY <1>7, RecordedStep
<1>8. CASE Start
  BY <1>8, StartStep
<1>9. ASSUME NEW b \in Thread, Bind(b) PROVE IInv'
  <2>1. mem.bindings \cup {b} \in SUBSET Thread
    BY <1>0 DEF Store
  <2>2. /\ Locked /\ mem' = [mem EXCEPT !.bindings = mem.bindings \cup {b}]
        /\ Saving("bind", "slack", mem') /\ UNCHANGED <<proc, result, diskVars, unsaved>>
    BY <1>9 DEF Bind
  <2> QED BY <2>1, <2>2, SlackStep
<1>10. ASSUME NEW u, NEW ch, Unbind(u, ch) PROVE IInv'
  <2> DEFINE B == {b \in mem.bindings : ~(b[1] = ch /\ b[2] = u)}
  <2>1. B \in SUBSET Thread
    BY <1>0 DEF Store
  <2>2. /\ Locked /\ mem' = [mem EXCEPT !.bindings = B]
        /\ Saving("unbind", "slack", mem') /\ UNCHANGED <<proc, result, diskVars, unsaved>>
    BY <1>10 DEF Unbind
  <2> HIDE DEF B
  <2> QED BY <2>1, <2>2, SlackStep
<1>11. ASSUME NEW t \in Task, NEW u \in User, Commit(t, WithUser(u)) PROVE IInv'
  BY <1>0, <1>11, WithUserStore, CommitStep
<1>12. ASSUME NEW t \in Task, NEW k \in Token, Commit(t, WithToken(k)) PROVE IInv'
  BY <1>0, <1>12, WithTokenStore, CommitStep
<1>13. CASE UNCHANGED vars
  <2>1. UNCHANGED <<proc, mem, job, result, file, dir, unsaved>>
    BY <1>13 DEF vars, diskVars
  <2> QED BY <2>1 DEF IInv, TypeOK, UsersOnce, FileIsWhole, SavedInv, OnceInv, Touched
<1> QED BY <1>1, <1>2, <1>3, <1>4, <1>5, <1>6, <1>7, <1>8, <1>9, <1>10, <1>11, <1>12, <1>13
        DEF Next, SaveStep, Machine, Slack, Commits

LEMMA Inductive == Spec => []IInv
<1> QED BY Initial, StepKeeps, PTL DEF Spec
-----------------------------------------------------------------------------
\* Stores, saves and images keep their types, and no user is listed twice,
\* however commits, binds, crashes and restarts interleave (store.rs:12-68,
\* routes.rs:129-133).
THEOREM TypeCorrect == Spec => []TypeOK
<1>1. IInv => TypeOK
  BY DEF IInv
<1> QED BY <1>1, Inductive, PTL

\* The file is a whole store at every moment, so the relay always starts
\* (store.rs:49-68): every image that may be found is synced before its rename.
THEOREM FileAlwaysWhole == Spec => []FileIsWhole
<1>1. IInv => FileIsWhole
  BY DEF IInv
<1> QED BY <1>1, Inductive, PTL

\* Between two critical sections memory and file agree, up to the bindings of
\* failed saves (routes.rs:47-59, slack.rs:199, 245).
THEOREM MemoryAlwaysSaved == Spec => []MemoryIsSaved
<1>1. IInv => MemoryIsSaved
  BY DEF IInv, SavedInv, MemoryIsSaved, Locked
<1> QED BY <1>1, Inductive, PTL
=============================================================================
