---- MODULE FileStoreProofs ----
(***************************************************************************)
(* Proofs about FileStore for any number of tokens, calls, temporary names *)
(* and faults: what is published is whole, temporary files are accounted   *)
(* for, and the system calls implement the set of tokens of TokenStore.    *)
(***************************************************************************)
EXTENDS FileStore, TLAPS

\* A Put between CreateTemp and its end has its temporary file, with all of the
\* token once it was written and synced before the rename; no other call has one.
CallOK(c) == calls[c] # Idle =>
  /\ calls[c].step \in {"create", "read", "remove"} => calls[c].temp = NoFile
  /\ calls[c].step \in {"write", "sync", "rename", "clean"} =>
       calls[c].temp \in TempNames /\ temps[calls[c].temp] # NoFile
  /\ calls[c].step \in {"sync", "rename"} => temps[calls[c].temp].holds = "all"
  /\ calls[c].step = "rename" => temps[calls[c].temp].synced

IInv ==
  /\ TypeOK
  /\ PublishedWhole
  /\ TempsAccounted
  /\ \A c \in Calls : CallOK(c)

----
(* Frames.                                                                *)

LEMMA FaultTyped == ASSUME TypeOK, Fault \/ NoFault PROVE faults' \in 0..MaxFaults
BY FileStoreAssumption DEF TypeOK, Fault, NoFault

LEMMA Fields ==
  ASSUME TypeOK, NEW c \in Calls, calls[c] # Idle
  PROVE  /\ calls[c] \in Call /\ calls[c].token \in Tokens
         /\ calls[c].temp \in TempNames \cup {NoFile} /\ calls[c].step \in Steps
BY DEF TypeOK, Call

LEMMA CallSet ==
  ASSUME TypeOK, NEW c \in Calls, NEW x \in Call \cup {Idle}, calls' = [calls EXCEPT ![c] = x]
  PROVE  /\ calls' \in [Calls -> Call \cup {Idle}] /\ calls'[c] = x
         /\ \A d \in Calls \ {c} : calls'[d] = calls[d]
BY DEF TypeOK

LEMMA GoToCall ==
  ASSUME TypeOK, NEW c \in Calls, calls[c] # Idle, NEW step \in Steps, GoTo(c, step)
  PROVE  /\ calls' \in [Calls -> Call \cup {Idle}]
         /\ \A d \in Calls \ {c} : calls'[d] = calls[d]
         /\ calls'[c] # Idle /\ calls'[c].step = step
         /\ calls'[c].token = calls[c].token /\ calls'[c].temp = calls[c].temp
         /\ answers' = answers
<1> DEFINE next == [calls[c] EXCEPT !.step = step]
<1>1. next \in Call /\ next.step = step /\ next.token = calls[c].token /\ next.temp = calls[c].temp
      BY Fields DEF Call
<1>2. calls' = [calls EXCEPT ![c] = next] /\ next # Idle /\ answers' = answers
      BY <1>1, FileStoreNullsAssumption DEF GoTo
<1> HIDE DEF next
<1> QED BY <1>1, <1>2, CallSet

LEMMA Returned ==
  ASSUME TypeOK, NEW c \in Calls, NEW t \in Tokens, NEW a \in Answers, Return(c, t, a)
  PROVE  /\ calls' \in [Calls -> Call \cup {Idle}] /\ calls'[c] = Idle
         /\ \A d \in Calls \ {c} : calls'[d] = calls[d]
         /\ answers' \in [Calls -> (Tokens \X Answers) \cup {NoAnswer}]
<1>1. calls' = [calls EXCEPT ![c] = Idle]
      BY DEF Return
<1>2. answers' \in [Calls -> (Tokens \X Answers) \cup {NoAnswer}]
      BY DEF TypeOK, Return
<1> QED BY <1>1, <1>2, CallSet

LEMMA Started ==
  ASSUME TypeOK, NEW c \in Calls, NEW t \in Tokens, NEW step \in Steps, Start(c, t, step)
  PROVE  /\ calls' \in [Calls -> Call \cup {Idle}]
         /\ \A d \in Calls \ {c} : calls'[d] = calls[d]
         /\ calls'[c] # Idle /\ calls'[c].step = step
         /\ calls'[c].token = t /\ calls'[c].temp = NoFile
         /\ answers' = answers
<1> DEFINE next == [step |-> step, token |-> t, temp |-> NoFile]
<1>1. next \in Call /\ next.step = step /\ next.token = t /\ next.temp = NoFile
      BY DEF Call
<1>2. calls' = [calls EXCEPT ![c] = next] /\ next # Idle /\ answers' = answers
      BY <1>1, FileStoreNullsAssumption DEF Start
<1> HIDE DEF next
<1> QED BY <1>1, <1>2, CallSet

\* A step of call c changes no temporary file but its own, takes a free name or
\* none, and does not lose one.
LEMMA StepFrame ==
  ASSUME IInv, NEW c \in Calls, TypeOK', PublishedWhole', CallOK(c)',
         \A d \in Calls \ {c} : calls'[d] = calls[d],
         left \subseteq left',
         \A x \in TempNames : temps'[x] = temps[x] \/ x \in Held(c) \cup Held(c)',
         \A x \in Held(c) : temps'[x] # NoFile => x \in Held(c)' \cup left',
         \A x \in Held(c)' : x \in Held(c) \/ temps[x] = NoFile
  PROVE  IInv'
<1>1. \A d \in Calls \ {c} : Held(d)' = Held(d)
      BY DEF Held
<1>2. \A d \in Calls : \A x \in Held(d) : x \in TempNames /\ temps[x] # NoFile
      BY DEF IInv, TypeOK, Call, Steps, CallOK, Held
<1>3. \A d \in Calls \ {c} : Held(d) \cap (Held(c) \cup Held(c)') = {}
      BY <1>2 DEF IInv, TempsAccounted
<1>4. ASSUME NEW d \in Calls \ {c}
      PROVE  CallOK(d)'
  <2>1. CallOK(d) /\ calls'[d] = calls[d]
        BY DEF IInv
  <2>2. \A x \in Held(d) : temps'[x] = temps[x]
        BY <1>2, <1>3
  <2>3. calls[d] # Idle /\ calls[d].step \in {"write", "sync", "rename", "clean"} =>
          calls[d].temp \in Held(d)
        BY <2>1, FileStoreNullsAssumption DEF CallOK, Held
  <2> QED BY <2>1, <2>2, <2>3 DEF CallOK
<1>5. ASSUME NEW x \in TempNames, temps'[x] # NoFile
      PROVE  x \in left' \cup UNION {Held(d)' : d \in Calls}
  <2>1. CASE x \in Held(c) \cup Held(c)'
        BY <1>5, <2>1
  <2>2. CASE x \notin Held(c) \cup Held(c)'
    <3>1. temps[x] # NoFile
          BY <1>5, <2>2
    <3>2. x \in left \/ \E d \in Calls \ {c} : x \in Held(d)
          BY <2>2, <3>1 DEF IInv, TempsAccounted
    <3> QED BY <1>1, <3>2
  <2> QED BY <2>1, <2>2
<1>6. \A d, e \in Calls : d # e => Held(d)' \cap Held(e)' = {}
      BY <1>1, <1>3 DEF IInv, TempsAccounted
<1>7. TempsAccounted'
      BY <1>5, <1>6 DEF TempsAccounted
<1> QED BY <1>4, <1>7 DEF IInv

\* A step of call c that leaves the files alone, and its temporary file too
\* unless it ends as one of those left behind.
LEMMA QuietFrame ==
  ASSUME IInv, NEW c \in Calls, TypeOK', UNCHANGED <<dir, disk, temps>>,
         \A d \in Calls \ {c} : calls'[d] = calls[d], left \subseteq left', CallOK(c)',
         Held(c)' \subseteq Held(c), Held(c) \subseteq Held(c)' \cup left'
  PROVE  IInv'
<1>1. PublishedWhole'
      BY DEF IInv, PublishedWhole
<1> QED BY <1>1, StepFrame

----
(* One step of each kind.                                                 *)

LEMMA LookStep ==
  ASSUME IInv, NEW c \in Calls, NEW t \in Tokens, Put(c, t) \/ Read(c, t) \/ Delete(c, t)
  PROVE  IInv'
<1>1. calls[c] = Idle /\ UNCHANGED <<dir, disk, temps, left, gone>>
      BY DEF Put, Read, Delete
<1>2. faults' \in 0..MaxFaults /\ strays' \in SUBSET Tokens
  <2>1. Fault \/ NoFault
        BY DEF Put, Read, Delete, DeleteFails
  <2> QED BY <2>1, FaultTyped DEF IInv, TypeOK, Put, Read, Delete, DeleteFails
<1>3. \/ \E step \in {"create", "read", "remove"} : Start(c, t, step)
      \/ \E a \in {"failed", "missing", "deleted"} : Return(c, t, a)
      BY DEF Put, Read, Delete, DeleteFails
<1>4. /\ calls' \in [Calls -> Call \cup {Idle}]
      /\ \A d \in Calls \ {c} : calls'[d] = calls[d]
      /\ answers' \in [Calls -> (Tokens \X Answers) \cup {NoAnswer}]
      /\ calls'[c] # Idle => /\ calls'[c].temp = NoFile
                             /\ calls'[c].step \in {"create", "read", "remove"}
  <2>1. CASE \E step \in {"create", "read", "remove"} : Start(c, t, step)
        BY <2>1, Started DEF IInv, TypeOK, Steps
  <2>2. CASE \E a \in {"failed", "missing", "deleted"} : Return(c, t, a)
        BY <2>2, Returned DEF IInv, Answers
  <2> QED BY <1>3, <2>1, <2>2
<1>5. TypeOK'
      BY <1>1, <1>2, <1>4 DEF IInv, TypeOK
<1>6. CallOK(c)' /\ Held(c)' = {} /\ Held(c) = {}
      BY <1>1, <1>4 DEF CallOK, Held
<1> QED BY <1>1, <1>4, <1>5, <1>6, QuietFrame

LEMMA CreateTempStep ==
  ASSUME IInv, NEW c \in Calls, CreateTemp(c)
  PROVE  IInv'
<1>1. /\ calls[c] # Idle /\ calls[c].step = "create" /\ UNCHANGED <<dir, disk, strays, left>>
      /\ Held(c) = {} /\ faults' \in 0..MaxFaults /\ calls[c].token \in Tokens
      /\ gone' \in SUBSET TempNames
      BY Fields, FaultTyped DEF CreateTemp, At, IInv, TypeOK, CallOK, Held
<1>2. CASE Return(c, calls[c].token, "failed") /\ UNCHANGED temps
  <2>1. /\ calls' \in [Calls -> Call \cup {Idle}] /\ calls'[c] = Idle
        /\ \A d \in Calls \ {c} : calls'[d] = calls[d]
        /\ answers' \in [Calls -> (Tokens \X Answers) \cup {NoAnswer}]
        BY <1>1, <1>2, Returned DEF IInv, Answers
  <2>2. TypeOK' /\ CallOK(c)' /\ Held(c)' = {}
        BY <1>1, <1>2, <2>1 DEF IInv, TypeOK, CallOK, Held
  <2> QED BY <1>1, <1>2, <2>1, <2>2, QuietFrame
<1>3. ASSUME NEW x \in TempNames, temps[x] = NoFile,
             temps' = [temps EXCEPT ![x] = [holds |-> "nothing", synced |-> FALSE]],
             calls' = [calls EXCEPT ![c] = [@ EXCEPT !.step = "write", !.temp = x]],
             answers' = answers
      PROVE  IInv'
  <2> DEFINE next == [calls[c] EXCEPT !.step = "write", !.temp = x]
  <2>1. next \in Call /\ next.step = "write" /\ next.temp = x
        BY <1>1, Fields DEF IInv, Call, Steps
  <2>2. calls' = [calls EXCEPT ![c] = next]
        BY <1>3
  <2> HIDE DEF next
  <2>3. /\ calls' \in [Calls -> Call \cup {Idle}] /\ calls'[c] = next
        /\ \A d \in Calls \ {c} : calls'[d] = calls[d]
        BY <2>1, <2>2, CallSet DEF IInv
  <2>4. /\ temps' \in [TempNames -> File \cup {NoFile}] /\ temps'[x] # NoFile
        /\ \A y \in TempNames \ {x} : temps'[y] = temps[y]
    <3>1. [holds |-> "nothing", synced |-> FALSE] \in File
          BY DEF File
    <3>2. [holds |-> "nothing", synced |-> FALSE] # NoFile
          BY <3>1, FileStoreNullsAssumption
    <3> QED BY <1>3, <3>1, <3>2 DEF IInv, TypeOK
  <2>5. TypeOK' /\ PublishedWhole'
        BY <1>1, <1>3, <2>3, <2>4 DEF IInv, TypeOK, PublishedWhole
  <2>6. CallOK(c)' /\ Held(c)' = {x}
        BY <2>1, <2>3, <2>4, FileStoreNullsAssumption DEF CallOK, Held
  <2> QED BY <1>1, <1>3, <2>3, <2>4, <2>5, <2>6, StepFrame
<1> QED BY <1>2, <1>3 DEF CreateTemp

\* Write and Sync, and a Put that fails: the file of the call changes and stays.
LEMMA WriteStep ==
  ASSUME IInv, NEW c \in Calls, Write(c) \/ Sync(c) \/ PutFails(c)
  PROVE  IInv'
<1> DEFINE x == calls[c].temp
<1>1. /\ calls[c] # Idle /\ calls[c].step \in {"write", "sync", "rename"}
      /\ UNCHANGED <<dir, disk, strays, left, gone>>
      BY DEF Write, Sync, PutFails, At
<1>2. x \in TempNames /\ temps[x] \in File /\ temps[x] # NoFile /\ Held(c) = {x}
      BY <1>1, FileStoreNullsAssumption DEF IInv, TypeOK, CallOK, Held
<1>3. faults' \in 0..MaxFaults
      BY FaultTyped DEF IInv, TypeOK, Write, Sync, PutFails
<1>4. PICK f \in File, step \in {"sync", "rename", "clean"} :
        /\ temps' = [temps EXCEPT ![x] = f] /\ GoTo(c, step)
        /\ step \in {"sync", "rename"} => f.holds = "all"
        /\ step = "rename" => f.synced
  <2>1. CASE Write(c)
    <3>1. [temps[x] EXCEPT !.holds = "all"] \in File
          BY <1>2 DEF File
    <3>2. temps' = [temps EXCEPT ![x] = [temps[x] EXCEPT !.holds = "all"]] /\ GoTo(c, "sync")
          BY <2>1 DEF Write
    <3> QED BY <1>2, <3>1, <3>2 DEF File
  <2>2. CASE Sync(c)
    <3>1. [temps[x] EXCEPT !.synced = TRUE] \in File
          BY <1>2 DEF File
    <3>2. temps' = [temps EXCEPT ![x] = [temps[x] EXCEPT !.synced = TRUE]] /\ GoTo(c, "rename")
          BY <2>2 DEF Sync
    <3>3. temps[x].holds = "all"
          BY <1>1, <2>2 DEF IInv, CallOK, Sync, At
    <3> QED BY <1>2, <3>1, <3>2, <3>3 DEF File
  <2>3. CASE PutFails(c) /\ UNCHANGED temps
    <3>1. temps' = [temps EXCEPT ![x] = temps[x]] /\ GoTo(c, "clean")
          BY <1>2, <2>3 DEF PutFails, IInv, TypeOK
    <3> QED BY <1>2, <3>1
  <2>4. CASE PutFails(c) /\ temps' = [temps EXCEPT ![x].holds = "part"]
    <3>1. [temps[x] EXCEPT !.holds = "part"] \in File
          BY <1>2 DEF File
    <3>2. temps' = [temps EXCEPT ![x] = [temps[x] EXCEPT !.holds = "part"]] /\ GoTo(c, "clean")
          BY <2>4 DEF PutFails
    <3> QED BY <3>1, <3>2
  <2> QED BY <2>1, <2>2, <2>3, <2>4 DEF PutFails
<1>5. /\ calls' \in [Calls -> Call \cup {Idle}] /\ answers' = answers
      /\ \A d \in Calls \ {c} : calls'[d] = calls[d]
      /\ calls'[c] # Idle /\ calls'[c].step = step /\ calls'[c].temp = x
      BY <1>1, <1>4, GoToCall DEF IInv, Steps
<1>6. /\ temps' \in [TempNames -> File \cup {NoFile}] /\ temps'[x] = f /\ f # NoFile
      /\ \A y \in TempNames \ {x} : temps'[y] = temps[y]
      BY <1>2, <1>4, FileStoreNullsAssumption DEF IInv, TypeOK
<1>7. TypeOK' /\ PublishedWhole'
      BY <1>1, <1>3, <1>5, <1>6 DEF IInv, TypeOK, PublishedWhole
<1>8. CallOK(c)' /\ Held(c)' = {x}
      BY <1>2, <1>4, <1>5, <1>6, FileStoreNullsAssumption DEF CallOK, Held
<1> QED BY <1>1, <1>2, <1>5, <1>6, <1>7, <1>8, StepFrame

LEMMA RenameStep ==
  ASSUME IInv, NEW c \in Calls, Rename(c)
  PROVE  IInv'
<1> DEFINE x == calls[c].temp
           t == calls[c].token
<1>1. /\ calls[c] # Idle /\ calls[c].step = "rename" /\ t \in Tokens
      /\ UNCHANGED <<disk, strays, left, faults>>
      /\ Return(c, t, "stored")
      /\ dir' = [dir EXCEPT ![t] = temps[x]] /\ temps' = [temps EXCEPT ![x] = NoFile]
      BY Fields DEF IInv, Rename, At
<1>2. /\ x \in TempNames /\ temps[x] \in File /\ temps[x] # NoFile /\ Held(c) = {x}
      /\ temps[x].holds = "all" /\ temps[x].synced
      BY <1>1, FileStoreNullsAssumption DEF IInv, TypeOK, CallOK, Held
<1>3. /\ calls' \in [Calls -> Call \cup {Idle}] /\ calls'[c] = Idle
      /\ \A d \in Calls \ {c} : calls'[d] = calls[d]
      /\ answers' \in [Calls -> (Tokens \X Answers) \cup {NoAnswer}]
      BY <1>1, Returned DEF IInv, Answers
<1>4. /\ dir' \in [Tokens -> File \cup {NoFile}] /\ dir'[t] = temps[x]
      /\ \A u \in Tokens \ {t} : dir'[u] = dir[u]
      BY <1>1, <1>2 DEF IInv, TypeOK
<1>5. /\ temps' \in [TempNames -> File \cup {NoFile}] /\ temps'[x] = NoFile
      /\ \A y \in TempNames \ {x} : temps'[y] = temps[y]
      BY <1>1, <1>2 DEF IInv, TypeOK
<1>6. TypeOK'
  <2>1. gone' \in SUBSET TempNames
        BY <1>2 DEF IInv, TypeOK, Rename
  <2> QED BY <1>1, <1>3, <1>4, <1>5, <2>1 DEF IInv, TypeOK
<1>7. PublishedWhole'
      BY <1>1, <1>2, <1>4 DEF IInv, PublishedWhole
<1>8. CallOK(c)' /\ Held(c)' = {}
      BY <1>3 DEF CallOK, Held
<1> QED BY <1>1, <1>2, <1>3, <1>5, <1>6, <1>7, <1>8, StepFrame

LEMMA CleanStep ==
  ASSUME IInv, NEW c \in Calls, Clean(c)
  PROVE  IInv'
<1> DEFINE x == calls[c].temp
<1>1. /\ calls[c] # Idle /\ calls[c].step = "clean" /\ calls[c].token \in Tokens
      /\ UNCHANGED <<dir, disk, strays>> /\ Return(c, calls[c].token, "failed")
      BY Fields DEF IInv, Clean, At
<1>2. x \in TempNames /\ temps[x] # NoFile /\ Held(c) = {x}
      BY <1>1, FileStoreNullsAssumption DEF IInv, CallOK, Held
<1>3. /\ calls' \in [Calls -> Call \cup {Idle}] /\ calls'[c] = Idle
      /\ \A d \in Calls \ {c} : calls'[d] = calls[d]
      /\ answers' \in [Calls -> (Tokens \X Answers) \cup {NoAnswer}]
      BY <1>1, Returned DEF IInv, Answers
<1>4. faults' \in 0..MaxFaults
      BY FaultTyped DEF IInv, TypeOK, Clean
<1>5. \/ temps' = [temps EXCEPT ![x] = NoFile] /\ left' = left /\ gone' = gone \cup {x}
      \/ temps' = temps /\ left' = left \cup {x} /\ gone' = gone
      BY DEF Clean
<1>6. /\ temps' \in [TempNames -> File \cup {NoFile}]
      /\ left' \in SUBSET TempNames /\ gone' \in SUBSET TempNames
      /\ \A y \in TempNames \ {x} : temps'[y] = temps[y]
      /\ temps'[x] # NoFile => x \in left'
      BY <1>2, <1>5 DEF IInv, TypeOK
<1>7. TypeOK' /\ PublishedWhole'
      BY <1>1, <1>3, <1>4, <1>6 DEF IInv, TypeOK, PublishedWhole
<1>8. CallOK(c)' /\ Held(c)' = {}
      BY <1>3 DEF CallOK, Held
<1> QED BY <1>2, <1>3, <1>5, <1>6, <1>7, <1>8, StepFrame

LEMMA ReadFileStep ==
  ASSUME IInv, NEW c \in Calls, ReadFile(c)
  PROVE  IInv'
<1>1. /\ calls[c] # Idle /\ calls[c].step = "read" /\ calls[c].token \in Tokens
      /\ UNCHANGED <<dir, disk, temps, strays, left, gone>> /\ Held(c) = {}
      BY Fields DEF IInv, ReadFile, At, CallOK, Held
<1>2. PICK a \in Answers : Return(c, calls[c].token, a)
      BY DEF ReadFile, Parsed, Answers
<1>3. /\ calls' \in [Calls -> Call \cup {Idle}] /\ calls'[c] = Idle
      /\ \A d \in Calls \ {c} : calls'[d] = calls[d]
      /\ answers' \in [Calls -> (Tokens \X Answers) \cup {NoAnswer}]
      BY <1>1, <1>2, Returned DEF IInv
<1>4. faults' \in 0..MaxFaults
      BY FaultTyped DEF IInv, ReadFile
<1>5. TypeOK' /\ CallOK(c)' /\ Held(c)' = {}
      BY <1>1, <1>3, <1>4 DEF IInv, TypeOK, CallOK, Held
<1> QED BY <1>1, <1>3, <1>5, QuietFrame

LEMMA RemoveStep ==
  ASSUME IInv, NEW c \in Calls, Remove(c)
  PROVE  IInv'
<1> DEFINE t == calls[c].token
<1>1. /\ calls[c] # Idle /\ calls[c].step = "remove" /\ t \in Tokens
      /\ UNCHANGED <<disk, temps, left, gone>> /\ Held(c) = {}
      BY Fields DEF IInv, Remove, At, CallOK, Held
<1>2. PICK a \in {"failed", "deleted"} : Return(c, t, a)
      BY DEF Remove, DeleteFails
<1>3. /\ calls' \in [Calls -> Call \cup {Idle}] /\ calls'[c] = Idle
      /\ \A d \in Calls \ {c} : calls'[d] = calls[d]
      /\ answers' \in [Calls -> (Tokens \X Answers) \cup {NoAnswer}]
      BY <1>1, <1>2, Returned DEF IInv, Answers
<1>4. faults' \in 0..MaxFaults /\ strays' \in SUBSET Tokens
      BY <1>1, FaultTyped DEF IInv, TypeOK, Remove, DeleteFails
<1>5. dir' = dir \/ dir' = [dir EXCEPT ![t] = NoFile]
      BY DEF Remove
<1>6. /\ dir' \in [Tokens -> File \cup {NoFile}]
      /\ \A u \in Tokens : dir'[u] \in {dir[u], NoFile}
      BY <1>1, <1>5 DEF IInv, TypeOK
<1>7. TypeOK' /\ PublishedWhole'
      BY <1>1, <1>3, <1>4, <1>6 DEF IInv, TypeOK, PublishedWhole
<1>8. CallOK(c)' /\ Held(c)' = {}
      BY <1>3 DEF CallOK, Held
<1> QED BY <1>1, <1>3, <1>7, <1>8, StepFrame

LEMMA StopStep ==
  ASSUME IInv, NEW c \in Calls, Stop(c)
  PROVE  IInv'
<1>1. /\ UNCHANGED <<dir, disk, temps, strays, gone>> /\ left' = left \cup Held(c)
      /\ calls' = [calls EXCEPT ![c] = Idle] /\ answers' = [answers EXCEPT ![c] = NoAnswer]
      /\ calls[c] # Idle
      BY DEF Stop
<1>2. /\ calls' \in [Calls -> Call \cup {Idle}] /\ calls'[c] = Idle
      /\ \A d \in Calls \ {c} : calls'[d] = calls[d]
      BY <1>1, CallSet DEF IInv
<1>3. left' \in SUBSET TempNames /\ faults' \in 0..MaxFaults
      BY <1>1, Fields, FaultTyped DEF IInv, TypeOK, Stop, Held
<1>4. answers' \in [Calls -> (Tokens \X Answers) \cup {NoAnswer}]
      BY <1>1 DEF IInv, TypeOK
<1>5. TypeOK' /\ CallOK(c)' /\ Held(c)' = {}
      BY <1>1, <1>2, <1>3, <1>4 DEF IInv, TypeOK, CallOK, Held
<1> QED BY <1>1, <1>2, <1>5, QuietFrame

\* Of a file that was synced a crash leaves all.
LEMMA CrashKeeps ==
  ASSUME IInv, HostCrash
  PROVE  dir' = disk /\ disk' = disk
<1>1. \A t \in Tokens : dir'[t] \in Remains(disk[t])
      BY DEF HostCrash
<1>2. \A t \in Tokens : Remains(disk[t]) = {disk[t]}
      BY DEF IInv, PublishedWhole, Remains
<1>3. \A t \in Tokens : dir'[t] = disk[t]
      BY <1>1, <1>2
<1>4. dir' = [t \in Tokens |-> dir'[t]] /\ disk = [t \in Tokens |-> disk[t]]
      BY DEF HostCrash, IInv, TypeOK
<1>5. dir' = disk
      BY <1>3, <1>4
<1> QED BY <1>5 DEF HostCrash

LEMMA HostCrashStep ==
  ASSUME IInv, HostCrash
  PROVE  IInv'
<1>1. /\ left' \in SUBSET TempNames /\ gone' = {}
      /\ temps' = [x \in TempNames |-> IF x \in left' THEN Restored(temps[x]) ELSE NoFile]
      BY DEF IInv, TypeOK, HostCrash
<1>2. /\ calls' = [c \in Calls |-> Idle] /\ answers' = [c \in Calls |-> NoAnswer]
      /\ strays' = strays
      BY DEF HostCrash
<1>3. faults' \in 0..MaxFaults
      BY FaultTyped DEF IInv, HostCrash
<1>4. temps' \in [TempNames -> File \cup {NoFile}]
      BY <1>1 DEF IInv, TypeOK, Restored, File
<1>5. TypeOK'
      BY <1>1, <1>2, <1>3, <1>4, CrashKeeps DEF IInv, TypeOK
<1>6. PublishedWhole'
      BY CrashKeeps DEF IInv, PublishedWhole
<1>7. \A x \in TempNames : temps'[x] # NoFile => x \in left'
      BY <1>1
<1>8. \A c \in Calls : calls'[c] = Idle
      BY <1>2
<1>9. TempsAccounted' /\ \A c \in Calls : CallOK(c)'
      BY <1>7, <1>8 DEF TempsAccounted, Held, CallOK
<1> QED BY <1>5, <1>6, <1>9 DEF IInv

LEMMA FlushStep ==
  ASSUME IInv, NEW t \in Tokens, Flush(t)
  PROVE  IInv'
<1>1. /\ disk' \in [Tokens -> File \cup {NoFile}]
      /\ \A u \in Tokens : disk'[u] \in {disk[u], dir[u]}
      BY DEF IInv, TypeOK, Flush
<1>2. TypeOK' /\ PublishedWhole'
      BY <1>1 DEF IInv, TypeOK, PublishedWhole, Flush
<1>3. TempsAccounted' /\ \A c \in Calls : CallOK(c)'
      BY DEF IInv, TempsAccounted, Held, CallOK, Flush
<1> QED BY <1>2, <1>3 DEF IInv

LEMMA InitOK == Init => IInv
BY FileStoreAssumption DEF Init, IInv, TypeOK, PublishedWhole, TempsAccounted, CallOK, Held

LEMMA NextOK == IInv /\ [Next]_vars => IInv'
<1> SUFFICES ASSUME IInv, [Next]_vars PROVE IInv'
    OBVIOUS
<1>1. CASE UNCHANGED vars
      BY <1>1 DEF vars, IInv, TypeOK, PublishedWhole, TempsAccounted, CallOK, Held
<1>2. ASSUME NEW t \in Tokens, Flush(t)
      PROVE  IInv'
      BY <1>2, FlushStep
<1>3. ASSUME NEW c \in Calls, NEW t \in Tokens, Put(c, t) \/ Read(c, t) \/ Delete(c, t)
      PROVE  IInv'
      BY <1>3, LookStep
<1>4. ASSUME NEW c \in Calls,
             \/ CreateTemp(c) \/ Write(c) \/ Sync(c) \/ Rename(c) \/ PutFails(c) \/ Clean(c)
             \/ ReadFile(c) \/ Remove(c) \/ Stop(c)
      PROVE  IInv'
      BY <1>4, CreateTempStep, WriteStep, RenameStep, CleanStep, ReadFileStep, RemoveStep, StopStep
<1>5. CASE HostCrash
      BY <1>5, HostCrashStep
<1> QED BY <1>1, <1>2, <1>3, <1>4, <1>5 DEF Next

LEMMA Invariance == Spec => []IInv
BY InitOK, NextOK, PTL DEF Spec

----
(* The theorems.                                                          *)

\* Every variable of the token store keeps its type.
THEOREM TypeCorrect == Spec => []TypeOK
<1>1. IInv => TypeOK
      BY DEF IInv
<1> QED BY Invariance, <1>1, PTL

\* FileStore.Put syncs before it renames: whatever races, fails or crashes, no
\* name of a token leads to less than the whole token.
THEOREM WholeFiles == Spec => []PublishedWhole
<1>1. IInv => PublishedWhole
      BY DEF IInv
<1> QED BY Invariance, <1>1, PTL

\* FileStore.Put loses sight of a temporary file only when its removal fails, or
\* the process or the host stops.
THEOREM AccountedTemps == Spec => []TempsAccounted
<1>1. IInv => TempsAccounted
      BY DEF IInv
<1> QED BY Invariance, <1>1, PTL

----
(* The refinement.                                                        *)

Files   == {t \in Tokens : dir[t] # NoFile}
Durable == {t \in Tokens : disk[t] # NoFile}
tvars   == <<Files, Durable, answers, strays, faults>>

LEMMA FaultSame == (Promise!Fault <=> Fault) /\ (Promise!NoFault <=> NoFault)
BY DEF Promise!Fault, Fault, Promise!NoFault, NoFault

\* A call that fails changes nothing and says so.
LEMMA FailureIsFailure ==
  ASSUME NEW c \in Calls, NEW t \in Tokens, Return(c, t, "failed"), Fault \/ NoFault,
         UNCHANGED <<dir, disk, strays>>
  PROVE  Promise!Next
<1>1. Promise!Failed(c, t)
      BY FaultSame DEF Promise!Failed, Promise!Answer, Return
<1> QED BY <1>1 DEF Promise!Next

LEMMA DeleteFailure ==
  ASSUME NEW c \in Calls, NEW t \in Tokens, DeleteFails(c, t), UNCHANGED <<dir, disk>>
  PROVE  Promise!Next
<1>1. CASE dir[t] = NoFile
      BY <1>1, FailureIsFailure DEF DeleteFails
<1>2. CASE dir[t] # NoFile
  <2>1. t \in Files /\ Files' = Files /\ Durable' = Durable /\ strays' = strays \cup {t}
        BY <1>2 DEF DeleteFails, Files, Durable
  <2>2. Promise!Delete(t)
        BY <2>1, FaultSame DEF Promise!Delete, Promise!Abandon, DeleteFails, Files
  <2>3. Promise!Gone(c, t)
        BY <2>1, <2>2 DEF Promise!Gone, Promise!Answer, DeleteFails, Return, Files, Durable
  <2> QED BY <2>3 DEF Promise!Next
<1> QED BY <1>1, <1>2

\* The first step of a call: an answer at once, or nothing to be seen yet.
LEMMA LookMoves ==
  ASSUME NEW c \in Calls, NEW t \in Tokens, Put(c, t) \/ Read(c, t) \/ Delete(c, t)
  PROVE  Promise!Next \/ UNCHANGED tvars
<1>1. UNCHANGED <<dir, disk>>
      BY DEF Put, Read, Delete
<1>2. CASE UNCHANGED strays /\ NoFault /\ \E step \in Steps : Start(c, t, step)
      BY <1>1, <1>2 DEF Start, NoFault, tvars, Files, Durable
<1>3. CASE Return(c, t, "failed") /\ (Fault \/ NoFault) /\ UNCHANGED strays
      BY <1>1, <1>3, FailureIsFailure
<1>4. CASE dir[t] = NoFile /\ Return(c, t, "missing") /\ NoFault /\ UNCHANGED strays
  <2>1. Promise!Missed(c, t)
        BY <1>1, <1>4 DEF Promise!Missed, Promise!Readable, Promise!Answer, Return, NoFault
  <2> QED BY <2>1 DEF Promise!Next
<1>5. CASE dir[t] = NoFile /\ Return(c, t, "deleted") /\ NoFault /\ UNCHANGED strays
  <2>1. Promise!Delete(t)
        BY <1>1, <1>5, FaultSame DEF Promise!Delete
  <2>2. Promise!Gone(c, t)
        BY <1>1, <1>5, <2>1 DEF Promise!Gone, Promise!Answer, Return
  <2> QED BY <2>2 DEF Promise!Next
<1>6. CASE DeleteFails(c, t)
      BY <1>1, <1>6, DeleteFailure
<1> QED BY <1>2, <1>3, <1>4, <1>5, <1>6 DEF Put, Read, Delete, Steps

\* The steps of a Put before its rename show nothing, or that it failed.
LEMMA PutMoves ==
  ASSUME IInv, NEW c \in Calls,
         CreateTemp(c) \/ Write(c) \/ Sync(c) \/ PutFails(c) \/ Clean(c)
  PROVE  Promise!Next \/ UNCHANGED tvars
<1>1. UNCHANGED <<dir, disk, strays>> /\ calls[c].token \in Tokens
      BY Fields DEF IInv, CreateTemp, Write, Sync, PutFails, Clean, At
<1>2. CASE Return(c, calls[c].token, "failed") /\ (Fault \/ NoFault)
      BY <1>1, <1>2, FailureIsFailure
<1>3. CASE answers' = answers /\ faults' = faults
      BY <1>1, <1>3 DEF tvars, Files, Durable
<1>4. CASE answers' = answers /\ Fault
  <2>1. Promise!Broken(c)
        BY <1>1, <1>4, FaultSame DEF Promise!Broken
  <2> QED BY <2>1 DEF Promise!Next
<1> QED BY <1>2, <1>3, <1>4 DEF CreateTemp, Write, Sync, PutFails, Clean, GoTo, NoFault

LEMMA RenameMoves ==
  ASSUME IInv, NEW c \in Calls, Rename(c)
  PROVE  Promise!Next
<1>0. PICK t \in Tokens : t = calls[c].token
      BY Fields DEF IInv, Rename, At
<1>1. /\ temps[calls[c].temp] # NoFile
      /\ dir' = [dir EXCEPT ![t] = temps[calls[c].temp]]
      /\ UNCHANGED <<disk, strays, faults>> /\ Return(c, t, "stored")
      BY <1>0 DEF IInv, CallOK, Rename, At
<1>2. Files' = Files \cup {t}
      BY <1>1 DEF IInv, TypeOK, Files
<1>3. Promise!Put(t) \/ (t \in Files /\ Files' = Files)
      BY <1>2 DEF Promise!Put, Files
<1>4. Promise!Stored(c, t)
      BY <1>1, <1>3 DEF Promise!Stored, Promise!Answer, Return, Files
<1> QED BY <1>1, <1>4 DEF Promise!Next

LEMMA ReadFileMoves ==
  ASSUME IInv, NEW c \in Calls, ReadFile(c)
  PROVE  Promise!Next
<1> DEFINE t == calls[c].token
<1>1. t \in Tokens /\ UNCHANGED <<dir, disk, strays>>
      BY Fields DEF IInv, ReadFile, At
<1>2. CASE Return(c, t, "failed") /\ (Fault \/ NoFault)
      BY <1>1, <1>2, FailureIsFailure
<1>3. CASE dir[t] # NoFile /\ Return(c, t, Parsed(dir[t])) /\ NoFault
  <2>1. Return(c, t, "token")
        BY <1>1, <1>3 DEF IInv, PublishedWhole, Parsed
  <2>2. Promise!Found(c, t)
        BY <1>1, <1>3, <2>1 DEF Promise!Found, Promise!Readable, Promise!Answer, Return, NoFault
  <2> QED BY <1>1, <2>2 DEF Promise!Next
<1> QED BY <1>2, <1>3 DEF ReadFile

LEMMA RemoveMoves ==
  ASSUME IInv, NEW c \in Calls, Remove(c)
  PROVE  Promise!Next
<1>0. PICK t \in Tokens : t = calls[c].token
      BY Fields DEF IInv, Remove, At
<1>1. disk' = disk
      BY DEF Remove
<1>2. CASE DeleteFails(c, t) /\ dir' = dir
      BY <1>1, <1>2, DeleteFailure
<1>3. CASE /\ dir' = [dir EXCEPT ![t] = NoFile] /\ NoFault /\ strays' = strays
           /\ Return(c, t, IF dir[t] = NoFile THEN "failed" ELSE "deleted")
  <2>1. CASE dir[t] = NoFile
    <3>1. dir' = dir
          BY <1>1, <1>3, <2>1 DEF IInv, TypeOK
    <3> QED BY <1>1, <1>3, <2>1, <3>1, FailureIsFailure
  <2>2. CASE dir[t] # NoFile
    <3>1. Files' = Files \ {t} /\ Durable' = Durable
          BY <1>1, <1>3 DEF IInv, TypeOK, Files, Durable
    <3>2. Promise!Delete(t)
          BY <1>3, <3>1, FaultSame DEF Promise!Delete, Files
    <3>3. Promise!Gone(c, t)
          BY <1>3, <2>2, <3>1, <3>2 DEF Promise!Gone, Promise!Answer, Return, Files, Durable
    <3> QED BY <1>1, <3>3 DEF Promise!Next
  <2> QED BY <2>1, <2>2
<1> QED BY <1>0, <1>2, <1>3 DEF Remove

LEMMA OtherMoves ==
  /\ \A c \in Calls : Stop(c) => Promise!Next
  /\ \A t \in Tokens : TypeOK /\ Flush(t) => Promise!Next
  /\ IInv /\ HostCrash => Promise!Next
<1>1. ASSUME NEW c \in Calls, Stop(c)
      PROVE  Promise!Next
  <2>1. Promise!Broken(c)
        BY <1>1, FaultSame DEF Promise!Broken, Stop
  <2> QED BY <2>1 DEF Promise!Next
<1>2. ASSUME NEW t \in Tokens, TypeOK, Flush(t)
      PROVE  Promise!Next
  <2>1. /\ Durable' = IF t \in Files THEN Durable \cup {t} ELSE Durable \ {t}
        /\ Files' = Files
        BY <1>2 DEF Flush, TypeOK, Files, Durable
  <2>2. Promise!Flush(t)
        BY <1>2, <2>1 DEF Promise!Flush, Flush, Files, Durable
  <2> QED BY <2>2 DEF Promise!Next
<1>3. ASSUME IInv, HostCrash
      PROVE  Promise!Next
  <2>1. Files' = Durable /\ Durable' = Durable
        BY <1>3, CrashKeeps DEF Files, Durable
  <2>2. Promise!HostCrash
        BY <1>3, <2>1, FaultSame DEF Promise!HostCrash, HostCrash, Files, Durable
  <2> QED BY <2>2 DEF Promise!Next
<1> QED BY <1>1, <1>2, <1>3

\* Put, Read and Delete of FileStore, which take several system calls each, look
\* like single changes of a set of tokens; a crash of the host takes that set
\* back to what was durable and never leaves a token that is not whole.
THEOREM Refinement == Spec => ImplementsTokenStore
<1>1. Init => Promise!Init
      BY DEF Init, Promise!Init
<1>2. IInv /\ [Next]_vars => [Promise!Next]_tvars
  <2> SUFFICES ASSUME IInv, [Next]_vars
               PROVE  Promise!Next \/ UNCHANGED tvars
      OBVIOUS
  <2>1. CASE UNCHANGED vars
        BY <2>1 DEF vars, tvars, Files, Durable
  <2>2. ASSUME NEW c \in Calls, NEW t \in Tokens, Put(c, t) \/ Read(c, t) \/ Delete(c, t)
        PROVE  Promise!Next \/ UNCHANGED tvars
        BY <2>2, LookMoves
  <2>3. ASSUME NEW c \in Calls,
               \/ CreateTemp(c) \/ Write(c) \/ Sync(c) \/ Rename(c) \/ PutFails(c) \/ Clean(c)
               \/ ReadFile(c) \/ Remove(c) \/ Stop(c)
        PROVE  Promise!Next \/ UNCHANGED tvars
        BY <2>3, PutMoves, RenameMoves, ReadFileMoves, RemoveMoves, OtherMoves
  <2>4. ASSUME NEW t \in Tokens, Flush(t)
        PROVE  Promise!Next
        BY <2>4, OtherMoves DEF IInv
  <2>5. CASE HostCrash
        BY <2>5, OtherMoves
  <2> QED BY <2>1, <2>2, <2>3, <2>4, <2>5 DEF Next
<1> QED BY <1>1, <1>2, Invariance, PTL DEF Spec, ImplementsTokenStore, Promise!Spec, Promise!tvars, tvars, Files, Durable
====
