---- MODULE FileStore ----
(***************************************************************************)
(* securetokens.FileStore by its system calls: Put (lstat of the           *)
(* destination, temporary file, write, sync, rename), Read (lstat, read)   *)
(* and Delete (lstat, remove), in one scope, by any number of calls on any *)
(* replicas that share the volume.  Any system call may fail, a call may   *)
(* stop between two of them, and the host may crash: of a file that was    *)
(* not synced any part may then be there, and of the directory what had    *)
(* been written to disk, which a sync of the file does not imply.          *)
(*                                                                         *)
(* A file holds the token whose digest names it, because Put is given      *)
(* both; so the model says only how much of the token a file holds.        *)
(***************************************************************************)
EXTENDS Faults

CONSTANTS Tokens,      \* tokens of the scope, each with its digest
          Calls,       \* calls served at the same time, on any replica
          TempNames,   \* what CreateTemp can name a file
          NoFile,      \* a name without a directory entry
          NoAnswer,    \* see TokenStore
          Idle         \* a call slot not in use

VARIABLES dir,         \* the entries of tokens, as every process sees them
          disk,        \* the same as they are on disk
          temps,       \* the entries ".token-*"
          calls,       \* the calls in progress
          answers,     \* history: the last answer of each call slot
          strays,      \* history: tokens whose removal failed
          left,        \* history: temporary files nobody will remove
          gone         \* entries of temps that were renamed or removed since they
                       \* were made: on disk they may still be there

vars == <<dir, disk, temps, calls, answers, strays, left, gone, faults>>

ASSUME FileStoreAssumption == MaxFaults \in Nat

\* How much of its token a file holds, and whether that has been synced.
File == [holds : {"nothing", "part", "all"}, synced : BOOLEAN]

\* What a crash of the host may leave of a file.
Remains(f) ==
  IF f = NoFile \/ f.synced THEN {f} ELSE {[f EXCEPT !.holds = h] : h \in {"nothing", "part", "all"}}

\* The next system call of a Put, a Read or a Delete.
Steps == {"create", "write", "sync", "rename", "clean", "read", "remove"}
Call  == [step : Steps, token : Tokens, temp : TempNames \cup {NoFile}]

ASSUME FileStoreNullsAssumption ==
  NoFile \notin TempNames /\ NoFile \notin File /\ Idle \notin Call

Answers == {"stored", "failed", "token", "garbled", "missing", "deleted"}

TypeOK ==
  /\ dir \in [Tokens -> File \cup {NoFile}]
  /\ disk \in [Tokens -> File \cup {NoFile}]
  /\ temps \in [TempNames -> File \cup {NoFile}]
  /\ calls \in [Calls -> Call \cup {Idle}]
  /\ answers \in [Calls -> (Tokens \X Answers) \cup {NoAnswer}]
  /\ strays \in SUBSET Tokens
  /\ left \in SUBSET TempNames
  /\ gone \in SUBSET TempNames
  /\ faults \in 0..MaxFaults

Init ==
  /\ dir = [t \in Tokens |-> NoFile]
  /\ disk = dir
  /\ temps = [x \in TempNames |-> NoFile]
  /\ calls = [c \in Calls |-> Idle]
  /\ answers = [c \in Calls |-> NoAnswer]
  /\ strays = {}
  /\ left = {}
  /\ gone = {}
  /\ faults = 0

At(c, step)   == calls[c] # Idle /\ calls[c].step = step
GoTo(c, step) == calls' = [calls EXCEPT ![c].step = step] /\ UNCHANGED answers

\* The call returns; `t` is the token it was about.
Return(c, t, answer) ==
  /\ calls' = [calls EXCEPT ![c] = Idle]
  /\ answers' = [answers EXCEPT ![c] = <<t, answer>>]

Start(c, t, step) ==
  /\ calls' = [calls EXCEPT ![c] = [step |-> step, token |-> t, temp |-> NoFile]]
  /\ UNCHANGED answers

----
(* Put.                                                                   *)

\* The scope's directory is in order and the destination is not there yet.
Put(c, t) ==
  /\ calls[c] = Idle
  /\ \/ dir[t] = NoFile /\ Start(c, t, "create") /\ NoFault
     \/ dir[t] # NoFile /\ Return(c, t, "failed") /\ NoFault
     \/ Return(c, t, "failed") /\ Fault
  /\ UNCHANGED <<dir, disk, temps, strays, left, gone>>

CreateTemp(c) ==
  /\ At(c, "create")
  /\ \/ \E x \in TempNames :
          /\ temps[x] = NoFile
          /\ temps' = [temps EXCEPT ![x] = [holds |-> "nothing", synced |-> FALSE]]
          /\ calls' = [calls EXCEPT ![c] = [@ EXCEPT !.step = "write", !.temp = x]]
          /\ gone' = gone \ {x}
          /\ NoFault /\ UNCHANGED answers
     \/ Return(c, calls[c].token, "failed") /\ Fault /\ UNCHANGED <<temps, gone>>
  /\ UNCHANGED <<dir, disk, strays, left>>

\* Fault: the file is published without a sync.
WriteThenRename(c) ==
  /\ At(c, "write")
  /\ temps' = [temps EXCEPT ![calls[c].temp].holds = "all"]
  /\ GoTo(c, "rename")
  /\ UNCHANGED <<dir, disk, strays, left, gone, faults>>

\* Chmod and WriteString.
Write(c) ==
  /\ At(c, "write")
  /\ temps' = [temps EXCEPT ![calls[c].temp].holds = "all"]
  /\ GoTo(c, "sync")
  /\ UNCHANGED <<dir, disk, strays, left, gone, faults>>

Sync(c) ==
  /\ At(c, "sync")
  /\ temps' = [temps EXCEPT ![calls[c].temp].synced = TRUE]
  /\ GoTo(c, "rename")
  /\ UNCHANGED <<dir, disk, strays, left, gone, faults>>

\* The rename replaces what another Put of the same digest may have published
\* since the lstat.
Rename(c) ==
  LET r == calls[c] IN
  /\ At(c, "rename")
  /\ dir' = [dir EXCEPT ![r.token] = temps[r.temp]]
  /\ temps' = [temps EXCEPT ![r.temp] = NoFile]
  /\ gone' = gone \cup {r.temp}
  /\ Return(c, r.token, "stored")
  /\ UNCHANGED <<disk, strays, left, faults>>

\* Fault: the temporary file stays when its Put fails.
PutFailsDirty(c) ==
  /\ \E step \in {"write", "sync", "rename"} : At(c, step)
  /\ Fault
  /\ Return(c, calls[c].token, "failed")
  /\ UNCHANGED <<dir, disk, temps, strays, left, gone>>

\* Chmod, WriteString, Sync, Close or Rename fails; of what was to be written
\* some may have been.
PutFails(c) ==
  /\ \E step \in {"write", "sync", "rename"} : At(c, step)
  /\ Fault
  /\ \/ UNCHANGED temps
     \/ At(c, "write") /\ temps' = [temps EXCEPT ![calls[c].temp].holds = "part"]
  /\ GoTo(c, "clean")
  /\ UNCHANGED <<dir, disk, strays, left, gone>>

\* The deferred removal of the temporary file, whose failure is ignored.
Clean(c) ==
  LET r == calls[c] IN
  /\ At(c, "clean")
  /\ \/ /\ temps' = [temps EXCEPT ![r.temp] = NoFile]
        /\ gone' = gone \cup {r.temp}
        /\ NoFault /\ UNCHANGED left
     \/ left' = left \cup {r.temp} /\ Fault /\ UNCHANGED <<temps, gone>>
  /\ Return(c, r.token, "failed")
  /\ UNCHANGED <<dir, disk, strays>>

----
(* Read and Delete.                                                       *)

\* lstat: ErrNotFound, or a private regular file.
Read(c, t) ==
  /\ calls[c] = Idle
  /\ \/ dir[t] = NoFile /\ Return(c, t, "missing") /\ NoFault
     \/ dir[t] # NoFile /\ Start(c, t, "read") /\ NoFault
     \/ Return(c, t, "failed") /\ Fault
  /\ UNCHANGED <<dir, disk, temps, strays, left, gone>>

\* Fault: whatever the file holds is answered.
ParsedUnchecked(f) == f.holds

\* What Read makes of a file: an empty one is malformed, a part of a token
\* cannot be told from a token.
Parsed(f) == CASE f.holds = "all" -> "token" [] f.holds = "part" -> "garbled" [] OTHER -> "failed"

\* A file that was removed since the lstat is an error, but not ErrNotFound.
ReadFile(c) ==
  LET t == calls[c].token IN
  /\ At(c, "read")
  /\ \/ Return(c, t, IF dir[t] = NoFile THEN "failed" ELSE Parsed(dir[t])) /\ NoFault
     \/ Return(c, t, "failed") /\ Fault
  /\ UNCHANGED <<dir, disk, temps, strays, left, gone>>

\* A Delete that fails leaves a stray, if there is a file.
DeleteFails(c, t) ==
  /\ Return(c, t, "failed")
  /\ strays' = strays \cup (IF dir[t] = NoFile THEN {} ELSE {t})
  /\ Fault

\* lstat: nothing to delete, or a regular file.
Delete(c, t) ==
  /\ calls[c] = Idle
  /\ \/ dir[t] = NoFile /\ Return(c, t, "deleted") /\ NoFault /\ UNCHANGED strays
     \/ dir[t] # NoFile /\ Start(c, t, "remove") /\ NoFault /\ UNCHANGED strays
     \/ DeleteFails(c, t)
  /\ UNCHANGED <<dir, disk, temps, left, gone>>

\* Fault: a failing Remove is not reported.
RemoveSilently(c) ==
  LET t == calls[c].token IN
  /\ At(c, "remove")
  /\ Return(c, t, "deleted")
  /\ \/ dir' = [dir EXCEPT ![t] = NoFile] /\ NoFault
     \/ Fault /\ UNCHANGED dir
  /\ UNCHANGED <<disk, temps, strays, left, gone>>

\* Of two Deletes that both found the file the second fails.
Remove(c) ==
  LET t == calls[c].token IN
  /\ At(c, "remove")
  /\ \/ /\ dir' = [dir EXCEPT ![t] = NoFile]
        /\ Return(c, t, IF dir[t] = NoFile THEN "failed" ELSE "deleted")
        /\ NoFault /\ UNCHANGED strays
     \/ DeleteFails(c, t) /\ UNCHANGED dir
  /\ UNCHANGED <<disk, temps, left, gone>>

----
(* Stops and crashes.                                                     *)

Held(c) == IF calls[c] = Idle THEN {} ELSE {calls[c].temp} \ {NoFile}

\* The process stops: its deferred removal does not run.
Stop(c) ==
  /\ calls[c] # Idle
  /\ Fault
  /\ left' = left \cup Held(c)
  /\ calls' = [calls EXCEPT ![c] = Idle]
  /\ answers' = [answers EXCEPT ![c] = NoAnswer]
  /\ UNCHANGED <<dir, disk, temps, strays, gone>>

\* The entry of a name, or its absence, reaches the disk.
Flush(t) ==
  /\ disk' = [disk EXCEPT ![t] = dir[t]]
  /\ UNCHANGED <<dir, temps, calls, answers, strays, left, gone, faults>>

\* A temporary file that a crash leaves, a renamed or removed one among them.
Restored(f) == IF f = NoFile THEN [holds |-> "all", synced |-> TRUE] ELSE f

\* Of the entries of temporary files any may be lost, and any that was renamed or
\* removed may be back: no directory is ever synced.  What such a file holds is not
\* told apart.
HostCrash ==
  /\ Fault
  /\ dir' \in [Tokens -> UNION {Remains(disk[t]) : t \in Tokens}]
  /\ \A t \in Tokens : dir'[t] \in Remains(disk[t])
  /\ disk' = dir'
  /\ left' \in SUBSET (gone \cup {x \in TempNames : temps[x] # NoFile})
  /\ temps' = [x \in TempNames |-> IF x \in left' THEN Restored(temps[x]) ELSE NoFile]
  /\ gone' = {}
  /\ calls' = [c \in Calls |-> Idle]
  /\ answers' = [c \in Calls |-> NoAnswer]
  /\ UNCHANGED strays

Next ==
  \/ \E t \in Tokens : Flush(t) \/ \E c \in Calls : Put(c, t) \/ Read(c, t) \/ Delete(c, t)
  \/ \E c \in Calls :
       \/ CreateTemp(c) \/ Write(c) \/ Sync(c) \/ Rename(c) \/ PutFails(c) \/ Clean(c)
       \/ ReadFile(c) \/ Remove(c) \/ Stop(c)
  \/ HostCrash

Spec == Init /\ [][Next]_vars

----
(* Properties.                                                            *)

\* Under the name of a token there is never a file with less than the whole of
\* it, in memory or on disk, whatever Puts race and whenever the host crashes:
\* the rename comes after the sync.
PublishedWhole ==
  \A t \in Tokens : \A f \in {dir[t], disk[t]} \ {NoFile} : f.holds = "all" /\ f.synced

\* A temporary file, which may hold a plaintext token, is in the hand of one
\* Put, or was left by a failing removal, a stopped process or a crash.
TempsAccounted ==
  /\ \A x \in TempNames : temps[x] # NoFile => x \in left \cup UNION {Held(c) : c \in Calls}
  /\ \A c, d \in Calls : c # d => Held(c) \cap Held(d) = {}

\* The system calls implement a set of tokens that one call at a time changes.
Promise == INSTANCE TokenStore WITH
  files   <- {t \in Tokens : dir[t] # NoFile},
  durable <- {t \in Tokens : disk[t] # NoFile}

ImplementsTokenStore == Promise!Spec
====
