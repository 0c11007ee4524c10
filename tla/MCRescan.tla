------------------------------ MODULE MCRescan ------------------------------
(* A small instance of Rescan for TLC: two directories, one of which has   *)
(* a second spelling.                                                      *)
EXTENDS Rescan

Paths3 == {"a", "b", "link"}
PlaceOf == [p \in Paths3 |-> IF p = "b" THEN "b" ELSE "a"]

Rec(p, port, seen, launch, override, choice, mine, added) ==
  [path |-> p, port |-> port, seen |-> seen, launch |-> launch,
   override |-> override, choice |-> choice, mine |-> mine, added |-> added]

Unit1 == Rec("link", 1, None, "unit", None, "default", "default", None)
Plain == Rec("a", 1, None, "script", None, "default", "default", 1)
Other == Rec("b", 1, None, "script", None, "default", "default", None)

StartsSmall ==
  {[kind |-> "missing", list |-> <<>>], [kind |-> "failed", list |-> <<>>]}
    \cup {[kind |-> "ok", list |-> l] : l \in {<<Unit1, Other>>, <<Plain, Unit1>>}}

F(p, port, clean, launch, saveable) ==
  [path |-> p, port |-> port, clean |-> clean, launch |-> launch, saveable |-> saveable]

Moved == F("a", 2, FALSE, "script", TRUE)
Unread == F("a", None, FALSE, "unit", TRUE)
Portless == F("a", None, TRUE, "script", TRUE)
AtB == F("b", 1, TRUE, "script", TRUE)
BadB == F("b", 1, TRUE, "script", FALSE)

\* What a directory may hold, and whether systemd answered.
ScansSmall ==
  {[found |-> f, asked |-> TRUE] : f \in {<<Portless, AtB>>, <<Unread>>, <<AtB>>}}
    \cup {[found |-> <<Moved, BadB>>, asked |-> FALSE]}

ProfilesSmall ==
  {<<Rec("a", 2, 2, "script", 2, "other", "other", 0),
     Rec("link", 2, None, "unit", None, "default", "default", 1)>>}
=============================================================================
