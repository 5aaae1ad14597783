----------------------------- MODULE StateFile -----------------------------
(***************************************************************************)
(* The relay's persistent store (relay/src/store.rs, state.rs): allowed    *)
(* users, agent tokens and thread bindings, in memory under one mutex and  *)
(* in a JSON file that is replaced as a whole.                             *)
(*                                                                         *)
(* A save writes a temporary file, syncs it and renames it over the file;  *)
(* each step may fail, the process may stop between any two of them, and a *)
(* power loss may undo renames that the directory has not recorded yet.    *)
(* Every save runs inside the mutex.  commit changes a clone and installs  *)
(* it once it is saved; a bind and an unbind change memory first and only  *)
(* log a save that fails.                                                  *)
(***************************************************************************)
EXTENDS Integers, Sequences, FiniteSets

CONSTANTS
  User, Token,          \* Slack users; agent tokens, one for each random value
  Thread,               \* thread bindings: <<channel, user who bound it, number>>
  Task,                 \* calls of commit
  Loaded                \* the state file at the first start

Store == [users : Seq(User), tokens : Seq(Token), bindings : SUBSET Thread]
Image == [whole : BOOLEAN, synced : BOOLEAN, data : Store]
Job == {<<>>} \cup [op : {"commit", "bind", "unbind"}, who : Task \cup {"slack"},
                    tmp : {"torn", "whole", "synced"}, next : Store]

In(x, s) == \E i \in DOMAIN s : s[i] = x
NoRepeats(s) == \A i, j \in DOMAIN s : s[i] = s[j] => i = j

ASSUME ThreadAssumption == \A t \in Thread : t[2] \in User
ASSUME TaskAssumption == "slack" \notin Task
ASSUME LoadedAssumption == Loaded \in Store /\ NoRepeats(Loaded.users)

VARIABLES
  proc,                 \* the process: "up", "down", "refused" to start
  mem,                  \* AppState.store
  job,                  \* the holder of the mutex, <<>> or the save it does
  result,               \* what commit returned to its callers
  file,                 \* the state file
  dir,                  \* what a power loss may leave under the file's name
  unsaved               \* history: bindings of failed saves, since the last good one

diskVars == <<file, dir>>
vars == <<proc, mem, job, result, diskVars, unsaved>>

\* A missing file is read as an empty store.
Nothing == [users |-> <<>>, tokens |-> <<>>, bindings |-> {}]
OnDisk(s) == [whole |-> TRUE, synced |-> TRUE, data |-> s]

Init ==
  /\ proc = "up" /\ mem = Loaded /\ job = <<>>
  /\ result = [t \in Task |-> "none"]
  /\ file = OnDisk(Loaded) /\ dir = {OnDisk(Loaded)}
  /\ unsaved = {}
-----------------------------------------------------------------------------
(* The callers, each holding the mutex until its save has ended.            *)
Locked == proc = "up" /\ job = <<>>
Saving(op, who, s) == job' = [op |-> op, who |-> who, tmp |-> "torn", next |-> s]

\* commit: a change that changes nothing is not saved; memory waits.
\* Mutant: memory is changed before the save.
CommitEarly(t, s) ==
  /\ Locked /\ result[t] = "none" /\ s # mem
  /\ Saving("commit", t, s) /\ mem' = s
  /\ UNCHANGED <<proc, result, diskVars, unsaved>>
Commit(t, s) ==
  /\ Locked /\ result[t] = "none"
  /\ \/ s = mem /\ result' = [result EXCEPT ![t] = "saved"] /\ UNCHANGED job
     \/ s # mem /\ Saving("commit", t, s) /\ UNCHANGED result
  /\ UNCHANGED <<proc, mem, diskVars, unsaved>>

\* Mutant: the user is added without looking.
WithUserAgain(u) == [mem EXCEPT !.users = Append(@, u)]
WithUser(u) == IF In(u, mem.users) THEN mem ELSE [mem EXCEPT !.users = Append(@, u)]
WithToken(k) == [mem EXCEPT !.tokens = Append(@, k)]

\* interactions: the thread of a root that was just posted is in no store yet.
Bind(b) ==
  LET s == [mem EXCEPT !.bindings = @ \cup {b}]
  IN  /\ Locked /\ \A s0 \in {mem} \cup {i.data : i \in dir} : b \notin s0.bindings
      /\ mem' = s /\ Saving("bind", "slack", s)
      /\ UNCHANGED <<proc, result, diskVars, unsaved>>

Unbind(u, ch) ==
  LET s == [mem EXCEPT !.bindings = {b \in @ : ~(b[1] = ch /\ b[2] = u)}]
  IN  /\ Locked
      /\ mem' = s /\ Saving("unbind", "slack", s)
      /\ UNCHANGED <<proc, result, diskVars, unsaved>>
-----------------------------------------------------------------------------
(* Store::save, in the hands of the mutex's holder.  What an earlier save    *)
(* left in {path}.tmp is truncated before it is read.                       *)
Tmp(t) == job' = [job EXCEPT !.tmp = t]

\* The temporary file is opened, truncated and written to its end.
WriteTmp ==
  /\ job # <<>> /\ job.tmp = "torn" /\ Tmp("whole")
  /\ UNCHANGED <<proc, mem, result, diskVars, unsaved>>

SyncTmp ==
  /\ job # <<>> /\ job.tmp = "whole" /\ Tmp("synced")
  /\ UNCHANGED <<proc, mem, result, diskVars, unsaved>>

\* The caller goes on with r: a commit installs its store and tells its task.
Return(r) ==
  /\ job' = <<>>
  /\ \/ job.op = "commit" /\ result' = [result EXCEPT ![job.who] = r]
     \/ job.op # "commit" /\ UNCHANGED result

\* Mutant: what was written is renamed without a sync.
ReadyUnsynced == job.tmp # "torn"
Ready == job.tmp = "synced"
Written == [whole |-> job.tmp # "torn", synced |-> job.tmp = "synced", data |-> job.next]
Rename ==
  /\ job # <<>> /\ Ready /\ Return("saved")
  /\ file' = Written /\ dir' = dir \cup {Written}
  /\ mem' = job.next /\ unsaved' = {}
  /\ UNCHANGED proc

\* Mutant: a save that fails is reported as a good one.
OutcomeIgnored == "saved"
Outcome == "failed"
Touched == {b \in Thread : (b \in mem.bindings) # (b \in file.data.bindings)}
SaveFails ==
  /\ job # <<>> /\ Return(Outcome)
  /\ unsaved' = unsaved \cup Touched
  /\ UNCHANGED <<proc, mem, diskVars>>
-----------------------------------------------------------------------------
(* The process stops, the machine loses power, the relay starts again.      *)
Gone ==
  /\ proc = "up"
  /\ proc' = "down" /\ mem' = Nothing /\ job' = <<>> /\ result' = [t \in Task |-> "none"]
  /\ unsaved' = {}

Crash == Gone /\ UNCHANGED diskVars

\* What was not synced is torn.
Survivor(i) == [i EXCEPT !.whole = i.synced, !.synced = TRUE]
PowerLoss ==
  /\ Gone
  /\ \E i \in dir : file' = Survivor(i) /\ dir' = {Survivor(i)}

\* The kernel records the directory.
DirRecorded ==
  /\ dir # {file}
  /\ dir' = {file} /\ UNCHANGED <<proc, mem, job, result, file, unsaved>>

\* Store::load: a file that does not parse keeps the relay from starting.
Start ==
  /\ proc = "down"
  /\ \/ file.whole /\ proc' = "up" /\ mem' = file.data
     \/ ~file.whole /\ proc' = "refused" /\ UNCHANGED mem
  /\ UNCHANGED <<job, result, diskVars, unsaved>>
-----------------------------------------------------------------------------
SaveStep == WriteTmp \/ SyncTmp \/ Rename \/ SaveFails
Machine == PowerLoss \/ Crash \/ DirRecorded \/ Start
Slack ==
  \/ \E b \in Thread : Bind(b)
  \/ \E u \in User, ch \in {b[1] : b \in Thread} : Unbind(u, ch)
Commits ==
  \E t \in Task : \/ \E u \in User : Commit(t, WithUser(u))
                  \/ \E k \in Token : Commit(t, WithToken(k))

Next == SaveStep \/ Machine \/ Slack \/ Commits

Spec == Init /\ [][Next]_vars
-----------------------------------------------------------------------------
\* Besides the types: no user is listed twice, although sign-ins race and restarts
\* come between (routes.rs:129-133).
UsersOnce == NoRepeats(mem.users) /\ NoRepeats(file.data.users)
TypeOK ==
  /\ UsersOnce
  /\ proc \in {"up", "down", "refused"}
  /\ mem \in Store /\ job \in Job
  /\ result \in [Task -> {"none", "saved", "failed"}]
  /\ file \in Image /\ dir \subseteq Image /\ file \in dir
  /\ unsaved \subseteq Thread

\* Whatever save is cut short, whatever step of it fails and whenever the power
\* goes, the file is a whole store: the relay always starts (store.rs:49-68).
FileIsWhole ==
  /\ proc # "refused" /\ file.whole
  /\ \A i \in dir : i.synced

\* Between two critical sections memory and file have the same users and tokens,
\* and differ in bindings only by binds and unbinds whose own save failed and
\* that no later save has made good (routes.rs:47-59, slack.rs:199, 245).
MemoryIsSaved ==
  Locked =>
    /\ mem.users = file.data.users /\ mem.tokens = file.data.tokens
    /\ Touched \subseteq unsaved
=============================================================================
