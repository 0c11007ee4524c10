--------------------------- MODULE SingleInstance ---------------------------
(***************************************************************************)
(* Which copy of the application runs: `claim_single_instance`, `main` and *)
(* the shutdown steps of `__main__`.  A copy listens on a socket file; a   *)
(* copy that finds the file asks who is there, and hands over to a copy    *)
(* that answers or recovers the file of one that crashed.                  *)
(*                                                                         *)
(* A copy is a process, so an identity is used once.  QLocalServer is      *)
(* external: it binds and listens in two steps, it closes and removes its  *)
(* file in two, and it removes by name, whoever bound the file.            *)
(***************************************************************************)
EXTENDS FiniteSets

CONSTANTS Copy, None

ASSUME NoneIsNoCopy == None \notin Copy

VARIABLES
  pc,         \* where a copy is in `main`
  file,       \* the copy that bound the socket file, or None
  listening,  \* the copies whose socket accepts connections
  lock,       \* the copy that holds the advisory lock of a recovery
  found,      \* whose file a launch met when it last asked, or None
  problem,    \* the copies that said that they run without a guard
  pending,    \* the copies whose connection a copy has yet to answer
  heir,       \* the copy a launch handed over to
  owed,       \* the launches whose user has yet to be shown a window
  excused     \* something happened that one copy at a time does not survive

vars == <<pc, file, listening, lock, found, problem, pending, heir, owed,
          excused>>

Claiming == {"listen", "probe", "locking", "reprobe", "remove", "relisten",
             "lastprobe", "bound"}
Place == {"off", "building", "running", "stopping", "freezing", "releasing",
          "unlinking", "closing", "over"} \cup Claiming

TypeOK ==
  /\ pc \in [Copy -> Place]
  /\ file \in Copy \cup {None}
  /\ listening \in SUBSET Copy
  /\ lock \in Copy \cup {None}
  /\ found \in [Copy -> Copy \cup {None}]
  /\ problem \in SUBSET Copy
  /\ pending \in [Copy -> SUBSET Copy]
  /\ heir \in [Copy -> Copy \cup {None}]
  /\ owed \in SUBSET Copy
  /\ excused \in BOOLEAN

Init ==
  /\ pc = [c \in Copy |-> "off"]
  /\ file = None
  /\ listening = {}
  /\ lock = None
  /\ found = [c \in Copy |-> None]
  /\ problem = {}
  /\ pending = [c \in Copy |-> {}]
  /\ heir = [c \in Copy |-> None]
  /\ owed = {}
  /\ excused = FALSE

Alive(c) == pc[c] \notin {"off", "over"}
Moves(c, from, to) == pc[c] = from /\ pc' = [pc EXCEPT ![c] = to]
Unlocked(c) == IF lock = c THEN None ELSE lock
-----------------------------------------------------------------------------
(* The claim                                                               *)

Launch(c) ==
  /\ Moves(c, "off", "listen")
  /\ owed' = owed \cup {c}
  /\ UNCHANGED <<file, listening, lock, found, problem, pending, heir, excused>>

\* No private directory, or an error that is not about the file: the copy runs
\* without a guard and says so.
Unguarded(c) ==
  /\ pc' = [pc EXCEPT ![c] = "building"]
  /\ problem' = problem \cup {c}
  /\ lock' = Unlocked(c)
  /\ UNCHANGED <<file, listening, found, pending, heir, owed, excused>>

CannotListen(c) == pc[c] \in {"listen", "relisten"} /\ Unguarded(c)

\* `server.listen` takes a name that is free, and only that.
Binds(c) ==
  /\ pc[c] \in {"listen", "relisten"}
  /\ file = None
  /\ file' = c
  /\ pc' = [pc EXCEPT ![c] = "bound"]
  /\ UNCHANGED <<listening, lock, found, problem, pending, heir, owed, excused>>

AddressInUse(c) ==
  /\ file # None
  /\ \/ Moves(c, "listen", "probe")
     \/ Moves(c, "relisten", "lastprobe")
  /\ UNCHANGED <<file, listening, lock, found, problem, pending, heir, owed,
                 excused>>

\* Mutant: the lock is kept for as long as the copy runs.
AcceptsLocked(c) ==
  /\ Moves(c, "bound", "building")
  /\ listening' = listening \cup {c}
  /\ UNCHANGED <<file, lock, found, problem, pending, heir, owed, excused>>

\* The name is bound and the socket accepts: this is the running copy.
Accepts(c) ==
  /\ Moves(c, "bound", "building")
  /\ listening' = listening \cup {c}
  /\ lock' = Unlocked(c)
  /\ UNCHANGED <<file, found, problem, pending, heir, owed, excused>>

Probing == {"probe", "reprobe", "lastprobe"}

\* Somebody answers: the launch ends, and the running copy is asked to come to
\* the front.
HandsOver(c) ==
  /\ pc[c] \in Probing
  /\ file \in listening
  /\ pc' = [pc EXCEPT ![c] = "over"]
  /\ pending' = [pending EXCEPT ![file] = @ \cup {c}]
  /\ heir' = [heir EXCEPT ![c] = file]
  /\ lock' = Unlocked(c)
  /\ UNCHANGED <<file, listening, found, problem, owed, excused>>

\* Nobody answers within a second.
ProbeMisses(c) ==
  /\ Moves(c, "probe", "locking")
  /\ found' = [found EXCEPT ![c] = file]
  /\ UNCHANGED <<file, listening, lock, problem, pending, heir, owed, excused>>

TakesLock(c) ==
  /\ lock = None
  /\ Moves(c, "locking", "reprobe")
  /\ lock' = c
  /\ UNCHANGED <<file, listening, found, problem, pending, heir, owed, excused>>

\* A lock file that cannot be opened degrades to the recovery without a lock.
NoLock(c) ==
  /\ Moves(c, "locking", "reprobe")
  /\ excused' = TRUE
  /\ UNCHANGED <<file, listening, lock, found, problem, pending, heir, owed>>

\* Mutant: the recovery does not ask again under the lock.
TrustsFirstProbe(c) ==
  /\ Moves(c, "reprobe", "remove")
  /\ UNCHANGED <<file, listening, lock, found, problem, pending, heir, owed,
                 excused>>

\* Asked again, for another launch may have recovered the file meanwhile.  A
\* living copy that does not answer now excuses what follows.
ReprobeMisses(c) ==
  /\ Moves(c, "reprobe", "remove")
  /\ found' = [found EXCEPT ![c] = file]
  /\ excused' = (excused \/ (file # None /\ Alive(file)))
  /\ UNCHANGED <<file, listening, lock, problem, pending, heir, owed>>

\* `QLocalServer.removeServer` removes the name.  A recovery that met no file
\* has nothing to remove, and takes what was bound since.
Removes(c) ==
  /\ Moves(c, "remove", "relisten")
  /\ file' = None
  /\ excused' = (excused \/ (found[c] = None /\ file # None))
  /\ UNCHANGED <<listening, lock, found, problem, pending, heir, owed>>

LastProbeMisses(c) ==
  /\ Moves(c, "lastprobe", "building")
  /\ problem' = problem \cup {c}
  /\ lock' = Unlocked(c)
  /\ UNCHANGED <<file, listening, found, pending, heir, owed, excused>>
-----------------------------------------------------------------------------
(* The running copy, and its end                                           *)

\* `build_window`, then `window.show()`: whoever handed over sees it too.
Shows(c) ==
  /\ Moves(c, "building", "running")
  /\ owed' = owed \ ({c} \cup {d \in Copy : heir[d] = c})
  /\ UNCHANGED <<file, listening, lock, found, problem, pending, heir, excused>>

\* `_bring_to_front`.  Before the window exists, in the event loop of the
\* restore dialog, there is nothing to bring forward.
BringsToFront(c) ==
  owed' = IF pc[c] = "running" THEN owed \ pending[c] ELSE owed

\* `answer`: every pending connection is taken.
Answers(c) ==
  /\ pc[c] \in {"building", "running"}
  /\ pending[c] # {}
  /\ pending' = [pending EXCEPT ![c] = {}]
  /\ BringsToFront(c)
  /\ UNCHANGED <<pc, file, listening, lock, found, problem, heir, excused>>

Same == UNCHANGED <<file, listening, lock, found, problem, pending, heir, owed,
                    excused>>

Quits(c) == Moves(c, "running", "stopping") /\ Same
\* The poll loop and the rescan pool have been waited for.
Stops(c) == Moves(c, "stopping", "freezing") /\ Same
\* `freeze_started_record`: from here this copy leaves the record alone.
Freezes(c) == Moves(c, "freezing", "releasing") /\ Same

Guarded(c) == c \in listening

\* `server.close()`: the socket, then the name.  What was connected and not
\* answered is dropped.
Releases(c) ==
  /\ Moves(c, "releasing", IF Guarded(c) THEN "unlinking" ELSE "closing")
  /\ listening' = listening \ {c}
  /\ UNCHANGED <<file, lock, found, problem, pending, heir, owed, excused>>

Unlinks(c) ==
  /\ Moves(c, "unlinking", "closing")
  /\ file' = None
  /\ UNCHANGED <<listening, lock, found, problem, pending, heir, owed, excused>>

\* Nothing is promised any more to those who handed over to a copy that ended.
Gone(c) ==
  /\ pc' = [pc EXCEPT ![c] = "over"]
  /\ listening' = listening \ {c}
  /\ lock' = Unlocked(c)
  /\ pending' = [pending EXCEPT ![c] = {}]
  /\ owed' = owed \ ({c} \cup {d \in Copy : heir[d] = c})
  /\ UNCHANGED <<file, found, problem, heir, excused>>

\* The supervisor's queued stops have run to their end.
Closes(c) == pc[c] = "closing" /\ Gone(c)

\* A crash leaves the file behind; the kernel drops the lock and the socket.
Crashes(c) == Alive(c) /\ Gone(c)
-----------------------------------------------------------------------------
Claims(c) ==
  \/ Binds(c) \/ AddressInUse(c) \/ Accepts(c)
  \/ HandsOver(c) \/ ProbeMisses(c) \/ TakesLock(c)
  \/ ReprobeMisses(c) \/ Removes(c) \/ LastProbeMisses(c)

Runs(c) ==
  \/ Shows(c) \/ Answers(c) \/ Stops(c) \/ Freezes(c) \/ Releases(c)
  \/ Unlinks(c) \/ Closes(c)

Next == \E c \in Copy :
  \/ Launch(c) \/ Claims(c) \/ Runs(c) \/ Quits(c)
  \/ CannotListen(c) \/ NoLock(c) \/ Crashes(c)

Spec == Init /\ [][Next]_vars

\* A launch and a shutdown are straight-line code, and the event loop turns.
\* Nobody has to launch, quit or crash, and nothing has to fail.
Fairness == \A c \in Copy : WF_vars(Claims(c)) /\ WF_vars(Runs(c))

FairSpec == Spec /\ Fairness
-----------------------------------------------------------------------------
\* The copies that may write the files they share: `started.json` until it is
\* frozen, and the list of projects.
Writers == {c \in Copy : pc[c] \in {"building", "running", "stopping", "freezing"}}

\* Two copies that did not say that they run without a guard never write the
\* same files (LWSM-1065, L6-L3, LWSM-1447), unless a living copy was asked and
\* did not answer (it is busy, has bound and not listened yet, or has closed and
\* not unlinked yet), the lock could not be opened, or a recovery that met no
\* file removed one that was bound since it asked.
OneWriter == \A c, d \in Writers \ problem : excused \/ c = d

\* Whoever opens the application is shown a window: its own, or that of the
\* copy it handed over to, while that copy lives.
LaunchShown == \A c \in Copy : (c \in owed) ~> (c \notin owed)
=============================================================================
