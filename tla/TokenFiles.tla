---- MODULE TokenFiles ----
(***************************************************************************)
(* The token store of internal/securetokens as the services use it: the    *)
(* set of files in one scope, each named after the digest of its token.    *)
(* Delete has its failure built in, because every caller ignores or only   *)
(* logs it; what a failing Put or Read does is the callers' to say.        *)
(***************************************************************************)
EXTENDS Faults

VARIABLES files,       \* tokens with a file
          strays       \* history: files a failed delete or a stopped handler left behind

\* Put of a token whose digest names no file.
Put(t) == t \notin files /\ files' = files \cup {t}

\* Read of t finds its file.
Readable(t) == t \in files

\* The handler that was to delete t goes away: its file, if any, is a stray.
Abandon(t) == strays' = strays \cup ({t} \cap files)

\* The file is gone, was gone before, or stays because the call fails.
Delete(t) ==
  \/ files' = files \ {t} /\ UNCHANGED strays /\ NoFault
  \/ UNCHANGED files /\ Abandon(t) /\ Fault
====
