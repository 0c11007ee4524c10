----------------------------- MODULE AtomicFile -----------------------------
(***************************************************************************)
(* What `configfile.write_atomically` promises of one file, whoever writes *)
(* it: a reader finds whole contents only, and so does a machine that lost *)
(* its power; it may then find an older version, but none older than the   *)
(* last one made durable.                                                  *)
(***************************************************************************)
CONSTANT Whole   \* complete contents, and None for a file that is absent

VARIABLES
  value,   \* what a reader of the path finds
  may      \* what a reader may find after the power fails now

file == <<value, may>>

TypeOK == value \in Whole /\ may \subseteq Whole

Init == value \in Whole /\ may = {value}

\* A rename puts new contents, or the absence of any, at the path.
Put == \E c \in Whole : value' = c /\ may' = may \cup {c}

\* The directory is made durable.
Sync == value' = value /\ may' = {value}

\* A durable change by another program.
Change == \E c \in Whole : value' = c /\ may' = {c}

\* The power fails.
Lose == value' \in may /\ may' = {value'}

Next == Put \/ Sync \/ Change \/ Lose

Spec == Init /\ [][Next]_file
=============================================================================
