----------------------------- MODULE FileStore -----------------------------
(***************************************************************************)
(* What the LLFS file system promises of the media: a set of named byte    *)
(* sequences, of which one step creates an empty one, empties one, makes   *)
(* one longer or removes one, or, where it may be formatted, removes some; *)
(* nothing else ever happens to a file, and a step on one file leaves the  *)
(* others alone.                                                           *)
(***************************************************************************)
EXTENDS SequencesExt

CONSTANTS
  Names,
  Formats      \* whether the media may be formatted

VARIABLE files     \* the content of each file that exists

Init == files = [n \in {} |-> << >>]

\* The files, with n an empty one.
Emptied(n) == [m \in DOMAIN files \union {n} |-> IF m = n THEN << >> ELSE files[m]]

CreateFile(n) ==
  /\ n \notin DOMAIN files
  /\ files' = Emptied(n)

TruncateFile(n) ==
  /\ n \in DOMAIN files
  /\ files' = Emptied(n)

ExtendFile(n) ==
  /\ n \in DOMAIN files /\ DOMAIN files' = DOMAIN files
  /\ IsStrictPrefix(files[n], files'[n])
  /\ \A m \in DOMAIN files \ {n} : files'[m] = files[m]

RemoveFile(n) ==
  /\ n \in DOMAIN files
  /\ files' = [m \in DOMAIN files \ {n} |-> files[m]]

\* The formatting of the media, which may stop half way.
ClearSome(S) ==
  /\ Formats
  /\ files' = [m \in DOMAIN files \ S |-> files[m]]

Next ==
  \/ \E n \in Names : CreateFile(n) \/ TruncateFile(n) \/ ExtendFile(n) \/ RemoveFile(n)
  \/ \E S \in SUBSET DOMAIN files : ClearSome(S)

Spec == Init /\ [][Next]_files
=============================================================================
