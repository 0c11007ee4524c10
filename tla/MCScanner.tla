------------------------------ MODULE MCScanner -----------------------------
(* A small instance of Scanner for TLC: two roots that both reach the       *)
(* directory "a", what its files may be, and a project "n" below "a".      *)
EXTENDS Scanner

RootsTwo == <<"r1", "r2">>
ShellTwo == <<"start.sh", "run.sh">>
NamedTwo == <<"serve.py", "serve.mjs">>
EnvOne == <<".env">>
ComposeTwo == <<"compose.yaml", "compose.yml">>

Files == {"start.sh", "run.sh", "package.json", "serve.py", "serve.mjs", "hop1", "hop2", ".env",
          "compose.yaml", "compose.yml", "README.md"}

Nothing == [there |-> FALSE, usable |-> FALSE, port |-> None, next |-> None, default |-> None]
Holds(port, next) == [there |-> TRUE, usable |-> TRUE, port |-> port, next |-> next, default |-> None]
Flask == [Holds(None, None) EXCEPT !.default = 2]
Useless == [Nothing EXCEPT !.there = TRUE]

\* A directory with the texts `t` of the files in its domain.
With(unit, unitPort, t) ==
  [unit |-> unit, unitPort |-> unitPort,
   file |-> [f \in Files |-> IF f \in DOMAIN t THEN t[f] ELSE Nothing]]

One(f, x) == [g \in {f} |-> x]
Two(f, x, h, y) == [g \in {f, h} |-> IF g = f THEN x ELSE y]
Three(f, x, h, y, k, z) == [g \in {f, h, k} |-> CASE g = f -> x [] g = h -> y [] OTHER -> z]

DirsA ==
  {With("bound", 1, One("start.sh", Holds(2, None))),
   With("bound", None, One("README.md", Holds(1, None))),
   With("masked", None, Two("serve.py", Flask, ".env", Holds(1, None))),
   With("elsewhere", None, One("serve.py", Holds(None, None))),
   With("none", None, One("serve.py", Holds(None, None))),
   With("none", None, Three("start.sh", Holds(None, "hop1"), "hop1", Holds(None, "hop2"), "hop2", Holds(1, None))),
   With("none", None, Three("start.sh", Useless, "package.json", Holds(None, None), "README.md", Holds(1, None))),
   With("none", None, Three("serve.py", Holds(None, None), "compose.yaml", Holds(None, None), "compose.yml", Holds(1, None))),
   With("none", None, Three("serve.py", Flask, "compose.yaml", Holds(1, None), ".env", Holds(None, None))),
   With("none", None, Three("start.sh", Useless, "run.sh", Holds(None, "hop1"), "hop1", Flask)),
   With("none", None, Three("serve.mjs", Holds(None, "hop1"), "hop1", Holds(1, None), ".env", Holds(2, None))),
   With("none", None, One(".env", Holds(1, None)))}

DirsB ==
  {With("bound", 2, One("serve.py", Flask)), With("none", None, One("start.sh", Holds(1, None))),
   With("none", None, One("start.sh", Useless))}

\* The second root is the first one under another spelling, with fewer files by
\* now, or it is the directory "a", which holds "n".
Overlaps ==
  {[first |-> f, second |-> <<"a", "b">>, below |-> [d \in Dir |-> Root]] :
     f \in {<<"a", None, "b">>, <<None, "a", "b", None>>}}
  \cup
  {[first |-> f, second |-> <<"n">>,
    below |-> [d \in Dir |-> IF d = "b" THEN {"r1"} ELSE Root]] :
     f \in {<<"a", None, "b">>, <<"a", "b", None, None>>}}

TreesSmall ==
  {[entries |-> [r \in Root |-> IF r = "r1" THEN o.first ELSE o.second],
    below |-> o.below,
    dir |-> [d \in Dir |-> IF d = "a" THEN x ELSE y]] :
     o \in Overlaps, x \in DirsA, y \in DirsB}
=============================================================================
