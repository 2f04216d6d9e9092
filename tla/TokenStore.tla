---- MODULE TokenStore ----
(***************************************************************************)
(* What the protected token store promises the services: a set of whole    *)
(* tokens, changed by one Put or Delete at a time, whatever runs at the    *)
(* same time and wherever a call breaks off.  A crash of the host may take *)
(* the set back to what had become durable, and never leaves a token that  *)
(* is not whole.  The implementation is FileStore.                         *)
(***************************************************************************)
EXTENDS TokenFiles

CONSTANTS Tokens, Calls,
          NoAnswer      \* the call slot has answered nothing since the last crash

VARIABLES durable,      \* tokens whose files a crash of the host leaves
          answers       \* the last answer of each call: <<token, answer>>

tvars == <<files, durable, answers, strays, faults>>

Init ==
  /\ files = {} /\ durable = {} /\ strays = {} /\ faults = 0
  /\ answers = [c \in Calls |-> NoAnswer]

Answer(c, t, answer) == answers' = [answers EXCEPT ![c] = <<t, answer>>]

\* A Put that raced another of the same digest leaves the same file.
Stored(c, t) ==
  /\ Put(t) \/ (t \in files /\ UNCHANGED files)
  /\ Answer(c, t, "stored")
  /\ UNCHANGED <<durable, strays, faults>>

\* Nothing was changed, and the caller is told of an error.
Failed(c, t) ==
  /\ Answer(c, t, "failed")
  /\ NoFault \/ Fault
  /\ UNCHANGED <<files, durable, strays>>

Found(c, t) ==
  /\ Readable(t)
  /\ Answer(c, t, "token")
  /\ UNCHANGED <<files, durable, strays, faults>>

\* ErrNotFound of Read.
Missed(c, t) ==
  /\ ~Readable(t)
  /\ Answer(c, t, "missing")
  /\ UNCHANGED <<files, durable, strays, faults>>

Gone(c, t) ==
  /\ Delete(t)
  /\ Answer(c, t, IF t \in files' THEN "failed" ELSE "deleted")
  /\ UNCHANGED durable

\* A call breaks off, with an error to come or with its process.
Broken(c) ==
  /\ Fault
  /\ answers' \in {answers, [answers EXCEPT ![c] = NoAnswer]}
  /\ UNCHANGED <<files, durable, strays>>

\* The volume writes a directory entry, or its removal, to disk.
Flush(t) ==
  /\ durable' = IF t \in files THEN durable \cup {t} ELSE durable \ {t}
  /\ UNCHANGED <<files, answers, strays, faults>>

HostCrash ==
  /\ Fault
  /\ files' = durable
  /\ answers' = [c \in Calls |-> NoAnswer]
  /\ UNCHANGED <<durable, strays>>

Next ==
  \/ \E t \in Tokens : Flush(t)
  \/ \E c \in Calls : \/ Broken(c)
                      \/ \E t \in Tokens : \/ Stored(c, t) \/ Failed(c, t) \/ Found(c, t)
                                           \/ Missed(c, t) \/ Gone(c, t)
  \/ HostCrash

Spec == Init /\ [][Next]_tvars
====
