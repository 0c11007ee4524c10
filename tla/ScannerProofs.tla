--------------------------- MODULE ScannerProofs ----------------------------
(***************************************************************************)
(* Theorems about Scanner, for any roots, directories and contents: a      *)
(* directory is found once and by what owns it, what a result does not     *)
(* hold is gone or could not be seen, and the port of a row is what the    *)
(* files that were read declare.                                           *)
(*                                                                         *)
(* AbsenceMeansGone is of the end of a scan only.  Accounted says the same *)
(* of a scan on its way: each root waits, is given up, or each directory   *)
(* in it waits or is accounted for.                                        *)
(***************************************************************************)
EXTENDS Scanner, SequenceTheorems, WellFoundedInduction, TLAPS

\* The scan has an answer about the directory that will not change.
Answered(d) ==
  \/ d \in Paths
  \/ ~IsProject(d)
  \/ d \in troubled
  \/ OnlyUnit(d) /\ systemd = "off"

Accounted ==
  /\ \A d \in seen : Answered(d)
  /\ \A r \in Items(Roots) :
       \/ r \in Items(left)
       \/ r \in unlistable
       \/ \A d \in Items(tree.entries[r]) \ {None} :
            d \in Items(entries) \/ Answered(d)

\* What was found was taken up, and by its unit unless systemd gave no answer.
ByOwner ==
  \A p \in Found : p.launch # "unit" /\ tree.dir[p.path].unit = "bound"
                     => systemd = "off"

Typed ==
  /\ tree \in Tree
  /\ left \in Seq(Root) /\ entries \in Seq(Entry) /\ seen \subseteq Dir
  /\ projects \in Seq(Found)
  /\ systemd \in {"unread", "read", "off"}

Once ==
  /\ Paths \subseteq seen
  /\ OncePerDirectory
  /\ ByOwner

IInv == Typed /\ Once /\ Accounted

-----------------------------------------------------------------------------
(* Sequences and what is in them                                           *)

LEMMA ItemsOfEmpty == Items(<<>>) = {}
BY DEF Items

LEMMA ItemsOfTail == ASSUME NEW S, NEW s \in Seq(S), s # <<>>
  PROVE /\ Items(s) = {Head(s)} \cup Items(Tail(s))
        /\ Tail(s) \in Seq(S) /\ Head(s) \in S
<1>1. /\ Tail(s) \in Seq(S) /\ Head(s) \in S
      /\ Len(Tail(s)) = Len(s) - 1 /\ Len(s) \in Nat /\ Len(s) > 0
      /\ \A i \in 1..Len(Tail(s)) : Tail(s)[i] = s[i + 1]
      /\ DOMAIN s = 1..Len(s) /\ DOMAIN Tail(s) = 1..Len(Tail(s))
      /\ Head(s) = s[1]
  BY HeadTailProperties, LenProperties, EmptySeq
<1>2. ASSUME NEW x \in Items(s) PROVE x = Head(s) \/ x \in Items(Tail(s))
  <2> PICK i \in 1..Len(s) : x = s[i]
    BY <1>1 DEF Items
  <2>1. CASE i = 1
    BY <1>1, <2>1
  <2>2. CASE i # 1
    <3>1. i - 1 \in 1..Len(Tail(s)) /\ Tail(s)[i - 1] = s[i]
      BY <1>1, <2>2
    <3> QED BY <1>1, <3>1 DEF Items
  <2> QED BY <2>1, <2>2
<1>3. ASSUME NEW x \in Items(Tail(s)) PROVE x \in Items(s)
  <2> PICK i \in 1..Len(Tail(s)) : x = Tail(s)[i]
    BY <1>1 DEF Items
  <2> QED BY <1>1 DEF Items
<1>4. Head(s) \in Items(s)
  BY <1>1 DEF Items
<1> QED BY <1>1, <1>2, <1>3, <1>4

LEMMA ItemsOfAppend == ASSUME NEW s, s \in Seq(Items(s)), NEW e
  PROVE /\ Items(Append(s, e)) = Items(s) \cup {e}
        /\ Append(s, e) \in Seq(Items(Append(s, e)))
        /\ Len(s) \in Nat /\ DOMAIN s = 1..Len(s)
        /\ DOMAIN Append(s, e) = 1..(Len(s) + 1)
        /\ \A i \in 1..Len(s) : Append(s, e)[i] = s[i]
        /\ Append(s, e)[Len(s) + 1] = e
<1> DEFINE T == Items(s) \cup {e}
<1>1. s \in Seq(T) /\ e \in T
  BY SeqMonotonic
<1> HIDE DEF T
<1>2. /\ Append(s, e) \in Seq(T)
      /\ Len(Append(s, e)) = Len(s) + 1
      /\ \A i \in 1..Len(s) : Append(s, e)[i] = s[i]
      /\ Append(s, e)[Len(s) + 1] = e
      /\ Len(s) \in Nat /\ DOMAIN s = 1..Len(s)
      /\ DOMAIN Append(s, e) = 1..(Len(s) + 1)
  BY <1>1, AppendProperties, LenProperties
<1>3. Items(Append(s, e)) = Items(s) \cup {e}
  <2>1. ASSUME NEW x \in Items(Append(s, e)) PROVE x \in Items(s) \cup {e}
    <3> PICK i \in 1..(Len(s) + 1) : x = Append(s, e)[i]
      BY <1>2 DEF Items
    <3>1. CASE i = Len(s) + 1
      BY <1>2, <3>1
    <3>2. CASE i # Len(s) + 1
      <4>1. i \in 1..Len(s)
        BY <1>2, <3>2
      <4> QED BY <1>2, <4>1 DEF Items
    <3> QED BY <3>1, <3>2
  <2>2. ASSUME NEW x \in Items(s) PROVE x \in Items(Append(s, e))
    <3> PICK i \in 1..Len(s) : x = s[i]
      BY <1>2 DEF Items
    <3>1. i \in 1..(Len(s) + 1)
      BY <1>2
    <3> QED BY <1>2, <3>1 DEF Items
  <2>3. e \in Items(Append(s, e))
    <3>1. Len(s) + 1 \in 1..(Len(s) + 1)
      BY <1>2
    <3> QED BY <1>2, <3>1 DEF Items
  <2> QED BY <2>1, <2>2, <2>3
<1> QED BY <1>2, <1>3 DEF T

LEMMA WithoutOne == ASSUME NEW S, NEW s \in Seq(S), NEW i \in DOMAIN s
  PROVE SubSeq(s, 1, i - 1) \o SubSeq(s, i + 1, Len(s)) \in Seq(S)
<1>1. Len(s) \in Nat /\ i \in 1..Len(s)
  BY LenProperties
<1>2. SubSeq(s, 1, i - 1) \in Seq(S)
  BY <1>1, SubSeqProperties
<1>3. SubSeq(s, i + 1, Len(s)) \in Seq(S)
  BY <1>1, SubSeqProperties
<1> QED BY <1>2, <1>3, ConcatProperties

-----------------------------------------------------------------------------
(* The beginning                                                           *)

LEMMA InitIInv == Init => IInv
<1> SUFFICES ASSUME Init PROVE IInv
  OBVIOUS
<1>1. Found = {} /\ Paths = {} /\ Items(entries) = {}
  BY ItemsOfEmpty DEF Init, Found, Paths
<1>2. Typed
  BY <1>1, ScannerAssumption, EmptySeq DEF Init, Typed
<1>3. Once
  BY <1>1 DEF Init, Once, OncePerDirectory, ByOwner
<1>4. Accounted
  BY DEF Init, Accounted
<1> QED BY <1>2, <1>3, <1>4 DEF IInv

-----------------------------------------------------------------------------
(* One entry more                                                          *)

\* What was found of a directory that was not taken up is one row more.
LEMMA Adds == ASSUME Typed, Once, NEW d \in Dir, d \notin seen, NEW e,
                     e.path = d, projects' = Append(projects, e)
  PROVE /\ projects' \in Seq(Found') /\ Found' = Found \cup {e}
        /\ Paths' = Paths \cup {d}
        /\ OncePerDirectory'
<1>1. /\ Found' = Found \cup {e} /\ projects' \in Seq(Found')
      /\ Len(projects) \in Nat /\ DOMAIN projects = 1..Len(projects)
      /\ DOMAIN projects' = 1..(Len(projects) + 1)
      /\ \A i \in 1..Len(projects) : projects'[i] = projects[i]
      /\ projects'[Len(projects) + 1] = e
  BY ItemsOfAppend DEF Typed, Found
<1>2. Paths' = Paths \cup {d}
  BY <1>1 DEF Paths
<1>3. ASSUME NEW i \in 1..Len(projects) PROVE projects[i].path # d
  <2>1. projects[i].path \in Paths
    BY <1>1 DEF Paths, Found, Items
  <2> QED BY <2>1 DEF Once
<1>4. ASSUME NEW i \in DOMAIN projects', NEW j \in DOMAIN projects',
             projects'[i].path = projects'[j].path
      PROVE i = j
  <2>1. CASE i \in 1..Len(projects) /\ j \in 1..Len(projects)
    BY <1>1, <1>4, <2>1 DEF Once, OncePerDirectory
  <2>2. CASE i \in 1..Len(projects) /\ j = Len(projects) + 1
    BY <1>1, <1>3, <1>4, <2>2
  <2>3. CASE i = Len(projects) + 1 /\ j \in 1..Len(projects)
    BY <1>1, <1>3, <1>4, <2>3
  <2>4. CASE i = Len(projects) + 1 /\ j = Len(projects) + 1
    BY <2>4
  <2> QED BY <1>1, <2>1, <2>2, <2>3, <2>4
<1>5. OncePerDirectory'
  BY <1>4 DEF OncePerDirectory
<1> QED BY <1>1, <1>2, <1>5

\* An entry that is taken off the list is answered for, and costs no other
\* directory its answer.
LEMMA ExaminesAccounted == ASSUME Typed, Accounted, Examines,
    NEW h, h = Head(entries),
    seen' \subseteq seen \cup ({h} \ {None}),
    h # None => Answered(h)',
    \A x : x # h /\ Answered(x) => Answered(x)'
  PROVE Accounted'
<1>1. /\ entries' = Tail(entries)
      /\ UNCHANGED <<tree, left, unlistable>>
      /\ entries # <<>>
  BY DEF Examines
<1>2. Items(entries) = {h} \cup Items(entries')
  BY <1>1, ItemsOfTail DEF Typed
<1>3. ASSUME NEW d \in seen' PROVE Answered(d)'
  <2>1. d \in seen \/ (d = h /\ h # None)
    BY <1>3
  <2>2. d \in seen => d # None
    BY ScannerAssumption DEF Typed
  <2>3. CASE d = h
    BY <2>1, <2>2, <2>3
  <2>4. CASE d # h
    BY <2>1, <2>4 DEF Accounted
  <2> QED BY <2>3, <2>4
<1>4. ASSUME NEW r \in Items(Roots), r \notin Items(left), r \notin unlistable,
             NEW d \in Items(tree.entries[r]) \ {None}, d \notin Items(entries')
      PROVE Answered(d)'
  <2>1. d \in Items(entries) \/ Answered(d)
    BY <1>4 DEF Accounted
  <2> QED BY <1>2, <1>4, <2>1
<1> QED BY <1>1, <1>3, <1>4 DEF Accounted

\* What lists a root touches neither what was found nor what is answered.
LEMMA Unaffected == ASSUME UNCHANGED <<tree, projects, systemd, troubled>>
  PROVE /\ Found' = Found /\ Paths' = Paths
        /\ \A x : Answered(x)' = Answered(x)
BY DEF Found, Paths, Answered, IsProject, OnlyUnit, Startable, Runs, Reads, There

LEMMA SkipsStep == ASSUME IInv, Skips PROVE IInv'
<1> PICK h : h = Head(entries)
  OBVIOUS
<1>1. /\ Examines /\ UNCHANGED <<tree, left, seen, projects, unlistable, systemd, troubled>>
      /\ h = None \/ h \in seen
      /\ entries # <<>> /\ entries' = Tail(entries)
  BY DEF Skips, Examines
<1>2. Found' = Found /\ Paths' = Paths /\ \A x : Answered(x)' = Answered(x)
  BY <1>1, Unaffected
<1>3. h # None => Answered(h)
  BY <1>1 DEF IInv, Accounted
<1>4. Accounted'
  BY <1>1, <1>2, <1>3, ExaminesAccounted DEF IInv
<1>5. Typed'
  BY <1>1, <1>2, ItemsOfTail DEF IInv, Typed
<1>6. Once'
  BY <1>1, <1>2 DEF IInv, Once, OncePerDirectory, ByOwner
<1> QED BY <1>4, <1>5, <1>6 DEF IInv

LEMMA CannotExamineStep == ASSUME IInv, CannotExamine PROVE IInv'
<1> PICK h : h = Head(entries)
  OBVIOUS
<1>1. /\ Examines /\ UNCHANGED <<tree, left, projects, unlistable, systemd>>
      /\ h # None /\ (seen' = seen \/ seen' = seen \cup {h})
      /\ troubled' = troubled \cup {h}
      /\ entries # <<>> /\ entries' = Tail(entries)
  BY DEF CannotExamine, Examines
<1>2. Found' = Found /\ Paths' = Paths
  BY <1>1 DEF Found, Paths
<1>3. Answered(h)' /\ \A x : Answered(x) => Answered(x)'
  BY <1>1, <1>2 DEF Answered, IsProject, OnlyUnit, Startable, Runs, Reads, There
<1>4. Accounted'
  BY <1>1, <1>3, ExaminesAccounted DEF IInv
<1>5. h \in Dir
  BY <1>1, ItemsOfTail DEF IInv, Typed, Entry
<1>6. Typed'
  BY <1>1, <1>2, <1>5, ItemsOfTail DEF IInv, Typed
<1>7. Once'
  BY <1>1, <1>2 DEF IInv, Once, OncePerDirectory, ByOwner
<1> QED BY <1>4, <1>6, <1>7 DEF IInv

LEMMA FindsUnitStep == ASSUME IInv, FindsUnit PROVE IInv'
<1> PICK h : h = Head(entries)
  OBVIOUS
<1>1. /\ Examines /\ UNCHANGED <<tree, left, unlistable, troubled>>
      /\ h # None /\ h \notin seen /\ seen' = seen \cup {h}
      /\ systemd # "off" /\ systemd' = "read"
      /\ entries # <<>> /\ entries' = Tail(entries)
  BY DEF FindsUnit, Examines, Asks
<1> PICK clean \in BOOLEAN : projects' = Append(projects, ByUnit(h, clean))
  BY DEF FindsUnit
<1>2. h \in Dir
  BY <1>1, ItemsOfTail DEF IInv, Typed, Entry
<1> PICK e : e = ByUnit(h, clean)
  OBVIOUS
<1>3. e.path = h /\ e.launch = "unit"
  BY DEF ByUnit
<1>4. /\ projects' \in Seq(Found') /\ Found' = Found \cup {e}
      /\ Paths' = Paths \cup {h} /\ OncePerDirectory'
  BY <1>1, <1>2, <1>3, Adds DEF IInv
<1>5. Answered(h)' /\ \A x : Answered(x) => Answered(x)'
  BY <1>1, <1>4 DEF Answered, IsProject, OnlyUnit, Startable, Runs, Reads, There
<1>6. Accounted'
  BY <1>1, <1>5, ExaminesAccounted DEF IInv
<1>7. Typed'
  BY <1>1, <1>2, <1>4, ItemsOfTail DEF IInv, Typed
<1>8. Once'
  BY <1>1, <1>3, <1>4 DEF IInv, Once, ByOwner
<1> QED BY <1>6, <1>7, <1>8 DEF IInv

LEMMA FindsFilesStep == ASSUME IInv, FindsFiles PROVE IInv'
<1> PICK h : h = Head(entries)
  OBVIOUS
<1>1. /\ Examines /\ UNCHANGED <<tree, left, unlistable>>
      /\ h # None /\ h \notin seen /\ seen' = seen \cup {h}
      /\ systemd' \in {"read", "off"} /\ (systemd = "off" => systemd' = "off")
      /\ systemd' = "read" => tree.dir[h].unit # "bound"
      /\ entries # <<>> /\ entries' = Tail(entries)
  BY DEF FindsFiles, Examines, Asks
<1> PICK bad \in SUBSET {f \in File : There(h, f)} :
      /\ projects' = IF ~Startable(h, bad) THEN projects
                     ELSE Append(projects, ByFile(h, bad, systemd' = "read"))
      /\ troubled' = IF bad = {} THEN troubled \ {h} ELSE troubled \cup {h}
  BY DEF FindsFiles
<1>2. h \in Dir
  BY <1>1, ItemsOfTail DEF IInv, Typed, Entry
<1>3. \A x : /\ IsProject(x)' = IsProject(x)
             /\ OnlyUnit(x)' = OnlyUnit(x)
  BY <1>1 DEF IsProject, OnlyUnit, Startable, Runs, Reads, There
<1>4. CASE ~Startable(h, bad)
  <2>1. Found' = Found /\ Paths' = Paths /\ projects' = projects
    BY <1>4 DEF Found, Paths
  <2>2. Answered(h)'
    <3>1. CASE bad = {}
      <4>1. OnlyUnit(h)
        BY <1>4, <3>1 DEF OnlyUnit
      <4>2. IsProject(h) => tree.dir[h].unit = "bound"
        BY <1>4, <3>1 DEF IsProject
      <4> QED BY <1>1, <1>3, <4>1, <4>2 DEF Answered
    <3>2. CASE bad # {}
      BY <3>2 DEF Answered
    <3> QED BY <3>1, <3>2
  <2>3. \A x : x # h /\ Answered(x) => Answered(x)'
    BY <1>1, <1>3, <2>1 DEF Answered
  <2>4. Accounted'
    BY <1>1, <2>2, <2>3, ExaminesAccounted DEF IInv
  <2>5. Typed'
    BY <1>1, <1>2, <2>1, ItemsOfTail DEF IInv, Typed
  <2>6. Once'
    BY <1>1, <2>1 DEF IInv, Once, OncePerDirectory, ByOwner
  <2> QED BY <2>4, <2>5, <2>6 DEF IInv
<1>5. CASE Startable(h, bad)
  <2> PICK e : e = ByFile(h, bad, systemd' = "read")
    OBVIOUS
  <2>1. e.path = h
    BY DEF ByFile
  <2>2. projects' = Append(projects, e)
    BY <1>5
  <2>3. /\ projects' \in Seq(Found') /\ Found' = Found \cup {e}
        /\ Paths' = Paths \cup {h} /\ OncePerDirectory'
    BY <1>1, <1>2, <2>1, <2>2, Adds DEF IInv
  <2>4. Answered(h)' /\ \A x : x # h /\ Answered(x) => Answered(x)'
    BY <1>1, <1>3, <2>3 DEF Answered
  <2>5. Accounted'
    BY <1>1, <2>4, ExaminesAccounted DEF IInv
  <2>6. Typed'
    BY <1>1, <1>2, <2>3, ItemsOfTail DEF IInv, Typed
  <2>7. Once'
    BY <1>1, <2>1, <2>3 DEF IInv, Once, ByOwner
  <2> QED BY <2>5, <2>6, <2>7 DEF IInv
<1> QED BY <1>4, <1>5

-----------------------------------------------------------------------------
(* A root more, and the end                                                *)

\* A root that is taken off the list is given up, or all of it is on the list
\* of entries.
LEMMA RootStep == ASSUME IInv, entries = <<>>, left # <<>>,
    left' = Tail(left), entries' \in Seq(Entry),
    unlistable \subseteq unlistable',
    \/ Head(left) \in unlistable'
    \/ entries' = tree.entries[Head(left)],
    UNCHANGED <<tree, seen, projects, systemd, troubled>>
  PROVE IInv'
<1>1. Found' = Found /\ Paths' = Paths /\ \A x : Answered(x)' = Answered(x)
  BY Unaffected
<1>2. Items(left) = {Head(left)} \cup Items(left') /\ left' \in Seq(Root)
  BY ItemsOfTail DEF IInv, Typed
<1>3. ASSUME NEW r \in Items(Roots), r \notin Items(left'), r \notin unlistable',
             NEW d \in Items(tree.entries[r]) \ {None}
      PROVE d \in Items(entries') \/ Answered(d)
  <2>1. CASE r \in Items(left)
    <3>1. r = Head(left)
      BY <1>2, <1>3, <2>1
    <3> QED BY <1>3, <3>1
  <2>2. CASE r \notin Items(left)
    <3>1. d \in Items(entries) \/ Answered(d)
      BY <1>3, <2>2 DEF IInv, Accounted
    <3> QED BY <3>1, ItemsOfEmpty
  <2> QED BY <2>1, <2>2
<1>4. Accounted'
  BY <1>1, <1>3 DEF IInv, Accounted
<1>5. Typed'
  BY <1>1, <1>2 DEF IInv, Typed
<1>6. Once'
  BY <1>1 DEF IInv, Once, OncePerDirectory, ByOwner
<1> QED BY <1>4, <1>5, <1>6 DEF IInv

LEMMA IInvStep == ASSUME IInv, [Next]_vars PROVE IInv'
<1>1. CASE UNCHANGED <<tree, left, entries, seen, projects, unlistable, systemd, troubled>>
  <2>1. Found' = Found /\ Paths' = Paths /\ \A x : Answered(x)' = Answered(x)
    BY <1>1, Unaffected
  <2>2. Typed' /\ Once'
    BY <1>1, <2>1 DEF IInv, Typed, Once, OncePerDirectory, ByOwner
  <2>3. Accounted'
    BY <1>1, <2>1 DEF IInv, Accounted
  <2> QED BY <2>2, <2>3 DEF IInv
<1>2. CASE Lists
  <2>1. left \in Seq(Root) /\ left # <<>> /\ tree \in Tree
    BY <1>2 DEF IInv, Typed, Lists
  <2>2. tree.entries[Head(left)] \in Seq(Entry)
    BY <2>1, ItemsOfTail DEF Tree
  <2> QED BY <1>2, <2>2, RootStep DEF Lists
<1>3. CASE Overflows
  <2>1. left \in Seq(Root) /\ left # <<>> /\ tree \in Tree
    BY <1>3 DEF IInv, Typed, Overflows
  <2> PICK all : all = tree.entries[Head(left)]
    OBVIOUS
  <2>2. all \in Seq(Entry)
    BY <2>1, ItemsOfTail DEF Tree
  <2>3. entries' \in Seq(Entry)
    <3> PICK i \in DOMAIN all :
          entries' = SubSeq(all, 1, i - 1) \o SubSeq(all, i + 1, Len(all))
      BY <1>3 DEF Overflows
    <3> QED BY <2>2, WithoutOne
  <2> QED BY <1>3, <2>3, RootStep DEF Overflows
<1>4. CASE CannotList
  BY <1>4, EmptySeq, RootStep DEF CannotList
<1>5. CASE Skips
  BY <1>5, SkipsStep
<1>6. CASE CannotExamine
  BY <1>6, CannotExamineStep
<1>7. CASE FindsUnit
  BY <1>7, FindsUnitStep
<1>8. CASE FindsFiles
  BY <1>8, FindsFilesStep
<1>9. CASE Expires \/ Ends
  BY <1>1, <1>9 DEF Expires, Ends
<1>10. CASE UNCHANGED vars
  BY <1>1, <1>10 DEF vars
<1> QED BY <1>2, <1>3, <1>4, <1>5, <1>6, <1>7, <1>8, <1>9, <1>10 DEF Next

-----------------------------------------------------------------------------
\* A directory is found once, however many roots reach it, and by the unit that
\* owns it unless systemd stopped answering before.
THEOREM FoundOnceAlways == Spec => []FoundOnce
<1>1. Init => IInv
  BY InitIInv
<1>2. IInv /\ [Next]_vars => IInv'
  BY IInvStep
<1>3. IInv => FoundOnce
  BY DEF IInv, Once, ByOwner, FoundOnce, UnitOrUnasked
<1> QED BY <1>1, <1>2, <1>3, PTL DEF Spec

\* A scan does not end before its lists do.
OverLast == over = "done" => left = <<>> /\ entries = <<>>

LEMMA OverLastStep == ASSUME OverLast, [Next]_vars PROVE OverLast'
BY DEF OverLast, vars, Next, Expires, Lists, Overflows, CannotList, Examines,
       Skips, CannotExamine, FindsUnit, FindsFiles, Ends

\* Whatever the roots hold and have below them, whenever something cannot be read
\* and whenever systemd stops answering: a directory that `merge` reports missing
\* and that is an entry of a root of the scan is no project, or is one of two
\* kinds of which the report is wrong: something of it could not be read, or only
\* its unit runs it and systemd gave no answer.
THEOREM AbsenceMeansGoneAlways == Spec => []AbsenceMeansGone
<1>1. Init => IInv /\ OverLast
  BY InitIInv DEF Init, OverLast
<1>2. IInv /\ OverLast /\ [Next]_vars => (IInv /\ OverLast)'
  BY IInvStep, OverLastStep
<1>3. IInv /\ OverLast => AbsenceMeansGone
  <2> SUFFICES ASSUME IInv, OverLast, NEW d \in Dir, FlaggedMissing(d), WithinReach(d)
               PROVE ~IsProject(d) \/ d \in troubled \/ (OnlyUnit(d) /\ systemd = "off")
    BY DEF AbsenceMeansGone
  <2> PICK r \in Items(Roots) : d \in Items(tree.entries[r])
    BY DEF WithinReach
  <2>1. d # None
    BY ScannerAssumption
  <2>2. r \in Root
    BY ScannerAssumption, ElementOfSeq, LenProperties DEF Items
  <2>3. r \in tree.below[d]
    BY <2>1, <2>2 DEF IInv, Typed, Tree
  <2>4. left = <<>> /\ entries = <<>> /\ d \notin Paths /\ r \notin unlistable
    BY <2>3 DEF FlaggedMissing, OverLast
  <2>5. Items(left) = {} /\ Items(entries) = {}
    BY <2>4, ItemsOfEmpty
  <2>6. Answered(d)
    BY <2>1, <2>4, <2>5 DEF IInv, Accounted
  <2> QED BY <2>4, <2>6 DEF Answered
<1> QED BY <1>1, <1>2, <1>3, PTL DEF Spec

-----------------------------------------------------------------------------
(* What is made of the files of one directory                              *)

\* "The first of" picks one, and none before it.
LEMMA MinOfNats ==
  ASSUME NEW S, S \subseteq Nat, S # {}
  PROVE  Min(S) \in S /\ \A k \in S : Min(S) <= k
<1> DEFINE R == {ss \in Nat \X Nat : ss[1] < ss[2]}
<1>1. IsWellFoundedOn(R, Nat)
  BY NatLessThanWellFounded DEF OpToRel
<1> HIDE DEF R
<1>2. \E m \in S : \A k \in S : ~ (<<k, m>> \in R)
  BY <1>1, WFMin
<1>3. ASSUME NEW m \in S, NEW k \in S, ~ (<<k, m>> \in R) PROVE m <= k
  BY <1>3 DEF R
<1>4. \E m \in S : \A k \in S : m <= k
  BY <1>2, <1>3
<1> QED BY <1>4 DEF Min

LEMMA ItemsOfConcat ==
  ASSUME NEW S, NEW s \in Seq(S), NEW t \in Seq(S)
  PROVE  /\ s \o t \in Seq(S)
         /\ Len(s) \in Nat /\ DOMAIN s = 1..Len(s)
         /\ DOMAIN (s \o t) = 1..(Len(s) + Len(t)) /\ Len(t) \in Nat
         /\ \A i \in 1..Len(s) : (s \o t)[i] = s[i]
         /\ Items(s \o t) = Items(s) \cup Items(t)
<1>1. /\ s \o t \in Seq(S) /\ Len(s \o t) = Len(s) + Len(t)
      /\ \A i \in 1..(Len(s) + Len(t)) :
           (s \o t)[i] = IF i <= Len(s) THEN s[i] ELSE t[i - Len(s)]
  BY ConcatProperties
<1>2. /\ Len(s) \in Nat /\ DOMAIN s = 1..Len(s)
      /\ Len(t) \in Nat /\ DOMAIN t = 1..Len(t)
      /\ DOMAIN (s \o t) = 1..(Len(s) + Len(t))
  BY <1>1, LenProperties
<1>3. \A i \in 1..Len(s) : (s \o t)[i] = s[i]
  BY <1>1, <1>2
<1>4. ASSUME NEW x \in Items(s \o t) PROVE x \in Items(s) \cup Items(t)
  <2> PICK i \in 1..(Len(s) + Len(t)) : x = (s \o t)[i]
    BY <1>2 DEF Items
  <2>1. CASE i <= Len(s)
    BY <1>2, <1>3, <2>1 DEF Items
  <2>2. CASE ~ (i <= Len(s))
    <3>1. i - Len(s) \in 1..Len(t) /\ x = t[i - Len(s)]
      BY <1>1, <1>2, <2>2
    <3> QED BY <1>2, <3>1 DEF Items
  <2> QED BY <2>1, <2>2
<1>5. ASSUME NEW x \in Items(s) PROVE x \in Items(s \o t)
  <2> PICK i \in 1..Len(s) : x = s[i]
    BY <1>2 DEF Items
  <2>1. i \in 1..(Len(s) + Len(t))
    BY <1>2
  <2> QED BY <1>2, <1>3, <2>1 DEF Items
<1>6. ASSUME NEW x \in Items(t) PROVE x \in Items(s \o t)
  <2> PICK i \in 1..Len(t) : x = t[i]
    BY <1>2 DEF Items
  <2>1. /\ Len(s) + i \in 1..(Len(s) + Len(t)) /\ ~ (Len(s) + i <= Len(s))
        /\ Len(s) + i - Len(s) = i
    BY <1>2
  <2>2. (s \o t)[Len(s) + i] = x
    BY <1>1, <2>1
  <2> QED BY <1>2, <2>1, <2>2 DEF Items
<1> QED BY <1>1, <1>2, <1>3, <1>4, <1>5, <1>6

\* A directory that can be started is started by a file that could be read.
LEMMA LauncherReads ==
  ASSUME NEW d, NEW bad, Startable(d, bad)
  PROVE  Runs(d, bad, Launchers[LauncherAt(d, bad)])
<1> DEFINE T == Items(Shell) \cup {Package} \cup Items(Named)
           usable == {i \in DOMAIN Launchers : Runs(d, bad, Launchers[i])}
<1>1. Shell \in Seq(T) /\ Named \in Seq(T) /\ <<Package>> \in Seq(T)
  <2>1. Shell \in Seq(Items(Shell)) /\ Named \in Seq(Items(Named))
    BY ScannerAssumption
  <2>2. Shell \in Seq(T) /\ Named \in Seq(T)
    BY <2>1, SeqMonotonic
  <2> QED BY <2>2
<1> HIDE DEF T
<1>2. Launchers \in Seq(T)
  BY <1>1, ConcatProperties DEF Launchers
<1>3. usable \subseteq Nat /\ usable # {}
  BY <1>2, LenProperties DEF Startable
<1>4. LauncherAt(d, bad) = Min(usable)
  BY <1>3 DEF LauncherAt
<1> QED BY <1>3, <1>4, MinOfNats

\* A launcher without a port goes on to nothing that could be read and has one.
LEMMA NoPortOnTheWay ==
  ASSUME NEW d, NEW bad, NEW f, Declared(d, bad, f) = None,
         NEW i \in 1..3, Reads(d, bad, Hops(d, bad, f)[i])
  PROVE  PortIn(d, Hops(d, bad, f)[i]) = None
<1> PICK hops : hops = Hops(d, bad, f)
  OBVIOUS
<1> DEFINE with == {j \in DOMAIN hops : Reads(d, bad, hops[j]) /\ PortIn(d, hops[j]) # None}
<1>1. DOMAIN hops = 1..3
  BY DEF Hops
<1>2. with = {} \/ (Min(with) \in with /\ Declared(d, bad, f) = PortIn(d, hops[Min(with)]))
  <2>1. with \subseteq Nat
    BY <1>1
  <2> QED BY <2>1, MinOfNats DEF Declared
<1>3. with = {}
  BY <1>2
<1> QED BY <1>1, <1>3

\* Reading goes on to the same files when nothing was noted about the way.
LEMMA SameWay ==
  ASSUME NEW d, NEW bad, NEW f, Reads(d, bad, f), Declared(d, bad, f) = None,
         ~HopNoted(d, bad, f)
  PROVE  /\ Hops(d, {}, f) = Hops(d, bad, f)
         /\ \A i \in 1..3 : Reads(d, bad, Hops(d, bad, f)[i]) \/ Hops(d, bad, f)[i] = None
         /\ Declared(d, {}, f) = None
         /\ Framework(d, {}, f) = Framework(d, bad, f)
<1> PICK hops : hops = Hops(d, bad, f)
  OBVIOUS
<1> PICK one : one = IF f = Package THEN None ELSE NextOf(d, f)
  OBVIOUS
<1>1. hops = <<f, one, IF f \in Items(Shell) /\ Reads(d, bad, one) THEN NextOf(d, one)
                                                                 ELSE None>>
  BY DEF Hops
<1>2. hops[1] = f /\ hops[2] = one
  BY <1>1
<1>3. PortIn(d, f) = None
  BY <1>2, NoPortOnTheWay
<1>4. Reads(d, bad, one) \/ one = None
  <2> SUFFICES ASSUME one # None, ~Reads(d, bad, one) PROVE FALSE
    OBVIOUS
  <2>1. \A j \in 1..(2 - 1) : PortIn(d, hops[j]) = None
    BY <1>2, <1>3
  <2> QED BY <1>2, <2>1 DEF HopNoted
<1>5. Reads(d, bad, one) => PortIn(d, one) = None
  BY <1>2, NoPortOnTheWay
<1>6. Reads(d, bad, hops[3]) \/ hops[3] = None
  <2> SUFFICES ASSUME hops[3] # None, ~Reads(d, bad, hops[3]) PROVE FALSE
    OBVIOUS
  <2>1. Reads(d, bad, one)
    BY <1>1
  <2>2. \A j \in 1..(3 - 1) : PortIn(d, hops[j]) = None
    BY <1>2, <1>3, <1>5, <2>1
  <2> QED BY <2>2 DEF HopNoted
<1>7. \A i \in 1..3 : Reads(d, bad, hops[i]) \/ hops[i] = None
  BY <1>2, <1>4, <1>6
<1>8. \A x : Reads(d, bad, x) => Reads(d, {}, x)
  BY DEF Reads
<1>9. Reads(d, {}, one) <=> Reads(d, bad, one)
  BY <1>4, <1>8 DEF Reads, There
<1>10. Hops(d, {}, f) = hops
  BY <1>1, <1>9 DEF Hops
<1>11. \A i \in 1..3 : PortIn(d, hops[i]) = None \/ ~Reads(d, {}, hops[i])
  BY <1>7, NoPortOnTheWay DEF Reads, There
<1>12. Declared(d, {}, f) = None
  <2>1. DOMAIN hops = 1..3
    BY <1>1
  <2>2. {i \in DOMAIN hops : Reads(d, {}, hops[i]) /\ PortIn(d, hops[i]) # None} = {}
    BY <1>11, <2>1
  <2> QED BY <1>10, <2>2 DEF Declared
<1>13. Framework(d, {}, f) = Framework(d, bad, f)
  <2> PICK program : program = IF f \in Items(Shell) THEN NextOf(d, f) ELSE f
    OBVIOUS
  <2>1. program = f \/ program = one
    BY ScannerAssumption
  <2>2. Reads(d, {}, program) <=> Reads(d, bad, program)
    BY <1>8, <1>9, <2>1
  <2> QED BY <2>2 DEF Framework
<1> QED BY <1>7, <1>10, <1>12, <1>13

\* What declares a port beside the launcher was read when nothing was noted.
LEMMA SameSources ==
  ASSUME NEW d, NEW bad, ~SourceNoted(d, bad)
  PROVE  /\ \A f \in Items(Env) \cup {Readme} : Reads(d, {}, f) <=> Reads(d, bad, f)
         /\ ComposeRead(d, {}) = ComposeRead(d, bad)
         /\ \A i \in DOMAIN ComposeRead(d, bad) :
              Reads(d, {}, ComposeRead(d, bad)[i]) <=> Reads(d, bad, ComposeRead(d, bad)[i])
<1> DEFINE at(b) == {i \in DOMAIN Compose : Reads(d, b, Compose[i])}
<1>1. \A x : Reads(d, bad, x) => Reads(d, {}, x)
  BY DEF Reads
<1>2. \A x : There(d, x) /\ x \notin bad => Reads(d, bad, x)
  BY DEF Reads
<1>3. \A f \in Items(Env) \cup {Readme} : Reads(d, {}, f) <=> Reads(d, bad, f)
  BY DEF SourceNoted, Reads
<1>4. /\ at({}) \subseteq Nat /\ at(bad) \subseteq at({})
      /\ \A i \in DOMAIN Compose : i \in Nat /\ \A j \in DOMAIN Compose : j < i => j \in 1..(i - 1)
      /\ \A i \in DOMAIN Compose : \A j \in 1..(i - 1) : j \in DOMAIN Compose /\ j < i
  <2>1. Compose \in Seq(Items(Compose))
    BY ScannerAssumption
  <2>2. DOMAIN Compose = 1..Len(Compose) /\ Len(Compose) \in Nat
    BY <2>1, LenProperties
  <2> QED BY <1>1, <2>2
<1>5. CASE at({}) = {}
  <2>1. at(bad) = {}
    BY <1>4, <1>5
  <2>2. ComposeRead(d, {}) = <<>> /\ ComposeRead(d, bad) = <<>>
    BY <1>5, <2>1 DEF ComposeRead
  <2> QED BY <1>3, <2>2
<1>6. CASE at({}) # {}
  <2> PICK m : m = Min(at({}))
    OBVIOUS
  <2>1. m \in at({}) /\ \A k \in at({}) : m <= k
    BY <1>4, <1>6, MinOfNats
  <2>2. m \in at(bad)
    <3> SUFFICES ASSUME m \notin at(bad) PROVE FALSE
      OBVIOUS
    <3>1. m \in DOMAIN Compose /\ There(d, Compose[m]) /\ Compose[m] \in bad
      BY <2>1 DEF Reads
    <3>2. \A j \in 1..(m - 1) : ~Reads(d, bad, Compose[j])
      BY <1>4, <2>1
    <3> QED BY <3>1, <3>2 DEF SourceNoted
  <2>3. Min(at(bad)) = m
    <3>1. Min(at(bad)) \in at(bad) /\ \A k \in at(bad) : Min(at(bad)) <= k
      BY <1>4, <2>2, MinOfNats
    <3>2. Min(at(bad)) \in Nat /\ m \in Nat
      BY <1>4, <2>1, <3>1
    <3>3. Min(at(bad)) <= m /\ m <= Min(at(bad))
      BY <1>4, <2>1, <2>2, <3>1
    <3> HIDE DEF at
    <3> QED BY <3>2, <3>3
  <2>4. ComposeRead(d, {}) = <<Compose[m]>> /\ ComposeRead(d, bad) = <<Compose[m]>>
    BY <1>6, <2>2, <2>3 DEF ComposeRead
  <2>5. Reads(d, bad, Compose[m]) /\ Reads(d, {}, Compose[m])
    BY <2>1, <2>2
  <2>6. \A i \in DOMAIN ComposeRead(d, bad) : ComposeRead(d, bad)[i] = Compose[m]
    BY <2>4
  <2> QED BY <1>3, <2>4, <2>5, <2>6
<1> QED BY <1>5, <1>6

\* The ports in the files of s.
LEMMA PortsTyped ==
  ASSUME NEW d, NEW bad, NEW S, NEW s \in Seq(S)
  PROVE  /\ PortsIn(d, bad, s) \in Seq(Items(PortsIn(d, bad, s)))
         /\ \A x \in Items(PortsIn(d, bad, s)) : x # None =>
              \E f \in Items(s) : There(d, f) /\ x = PortIn(d, f)
         /\ \A f \in Items(s) : Reads(d, bad, f) => PortIn(d, f) \in Items(PortsIn(d, bad, s))
<1> PICK ports : ports = PortsIn(d, bad, s)
  OBVIOUS
<1>1. /\ DOMAIN s = 1..Len(s) /\ Len(s) \in Nat
      /\ ports = [i \in 1..Len(s) |-> IF Reads(d, bad, s[i]) THEN PortIn(d, s[i]) ELSE None]
  BY LenProperties DEF PortsIn
<1>2. ports \in Seq(Items(ports))
  <2>1. \A i \in 1..Len(s) : ports[i] \in Items(ports)
    BY <1>1 DEF Items
  <2>2. ports \in [1..Len(s) -> Items(ports)]
    BY <1>1, <2>1
  <2> QED BY <1>1, <2>2, SeqDef
<1>3. \A x \in Items(ports) : x # None => \E f \in Items(s) : There(d, f) /\ x = PortIn(d, f)
  <2> SUFFICES ASSUME NEW i \in 1..Len(s), ports[i] # None
               PROVE  \E f \in Items(s) : There(d, f) /\ ports[i] = PortIn(d, f)
    BY <1>1 DEF Items
  <2>1. Reads(d, bad, s[i]) /\ ports[i] = PortIn(d, s[i]) /\ s[i] \in Items(s)
    BY <1>1 DEF Items
  <2> QED BY <2>1 DEF Reads
<1>4. \A f \in Items(s) : Reads(d, bad, f) => PortIn(d, f) \in Items(ports)
  <2> SUFFICES ASSUME NEW i \in 1..Len(s), Reads(d, bad, s[i])
               PROVE  PortIn(d, s[i]) \in Items(ports)
    BY <1>1 DEF Items
  <2>1. ports[i] = PortIn(d, s[i])
    BY <1>1
  <2> QED BY <1>1, <2>1 DEF Items
<1> QED BY <1>2, <1>3, <1>4

\* What the files state, and what is only assumed or written about.
Stated(d, bad, f) ==
  <<Declared(d, bad, f)>> \o PortsIn(d, bad, Env) \o PortsIn(d, bad, ComposeRead(d, bad))
Assumed(d, bad, f) == <<Default(d, bad, f)>> \o PortsIn(d, bad, <<Readme>>)

LEMMA RankedParts ==
  ASSUME NEW d, NEW bad, NEW f
  PROVE  /\ Ranked(d, bad, f) = Stated(d, bad, f) \o Assumed(d, bad, f)
         /\ \E S : Stated(d, bad, f) \in Seq(S) /\ Assumed(d, bad, f) \in Seq(S)
         /\ Items(Stated(d, bad, f)) =
              {Declared(d, bad, f)} \cup Items(PortsIn(d, bad, Env))
                \cup Items(PortsIn(d, bad, ComposeRead(d, bad)))
<1> DEFINE A == <<Declared(d, bad, f)>>
           B == PortsIn(d, bad, Env)
           C == PortsIn(d, bad, ComposeRead(d, bad))
           D == <<Default(d, bad, f)>>
           E == PortsIn(d, bad, <<Readme>>)
           S == Items(A) \cup Items(B) \cup Items(C) \cup Items(D) \cup Items(E)
<1>1. A \in Seq(Items(A)) /\ D \in Seq(Items(D)) /\ Items(A) = {Declared(d, bad, f)}
  BY DEF Items
<1>2. B \in Seq(Items(B))
  BY ScannerAssumption, PortsTyped
<1>3. C \in Seq(Items(C))
  <2> PICK x : x = Compose[Min({i \in DOMAIN Compose : Reads(d, bad, Compose[i])})]
    OBVIOUS
  <2>1. ComposeRead(d, bad) = <<>> \/ ComposeRead(d, bad) = <<x>>
    BY DEF ComposeRead
  <2>2. <<>> \in Seq({x}) /\ <<x>> \in Seq({x})
    BY EmptySeq
  <2>3. ComposeRead(d, bad) \in Seq({x})
    BY <2>1, <2>2
  <2> QED BY <2>3, PortsTyped
<1>4. E \in Seq(Items(E))
  <2>1. <<Readme>> \in Seq({Readme})
    <3> HIDE DEF A, B, C, D, E, S
    <3> QED OBVIOUS
  <2> QED BY <2>1, PortsTyped
<1>5. Ranked(d, bad, f) = A \o B \o C \o D \o E
  BY DEF Ranked
<1>6. Stated(d, bad, f) = A \o B \o C /\ Assumed(d, bad, f) = D \o E
  BY DEF Stated, Assumed
<1> HIDE DEF A, B, C, D, E
<1>7. A \in Seq(S) /\ B \in Seq(S) /\ C \in Seq(S) /\ D \in Seq(S) /\ E \in Seq(S)
  <2>1. A \in Seq(S)
    BY <1>1, SeqMonotonic
  <2>2. B \in Seq(S)
    BY <1>2, SeqMonotonic
  <2>3. C \in Seq(S)
    BY <1>3, SeqMonotonic
  <2>4. D \in Seq(S)
    BY <1>1, SeqMonotonic
  <2>5. E \in Seq(S)
    BY <1>4, SeqMonotonic
  <2> QED BY <2>1, <2>2, <2>3, <2>4, <2>5
<1> HIDE DEF S
<1>8. /\ A \o B \o C \o D \o E = (A \o B \o C) \o (D \o E)
      /\ A \o B \o C \in Seq(S) /\ D \o E \in Seq(S)
      /\ Items(A \o B \o C) = Items(A) \cup Items(B) \cup Items(C)
  <2>1. D \o E \in Seq(S)
    BY <1>7, ConcatProperties
  <2>2. A \o B \in Seq(S) /\ Items(A \o B) = Items(A) \cup Items(B)
    BY <1>7, ItemsOfConcat
  <2>3. ASSUME NEW ab \in Seq(S)
        PROVE  /\ ab \o C \in Seq(S) /\ Items(ab \o C) = Items(ab) \cup Items(C)
    BY <1>7, ItemsOfConcat
  <2>4. ASSUME NEW abc \in Seq(S) PROVE abc \o D \o E = abc \o (D \o E)
    BY <1>7, ConcatAssociative
  <2>5. (A \o B) \o C \in Seq(S) /\ Items((A \o B) \o C) = Items(A \o B) \cup Items(C)
    BY <2>2, <2>3
  <2>6. ((A \o B) \o C) \o D \o E = ((A \o B) \o C) \o (D \o E)
    BY <2>4, <2>5
  <2> QED BY <2>1, <2>2, <2>5, <2>6, Zenon
<1>9. Ranked(d, bad, f) = Stated(d, bad, f) \o Assumed(d, bad, f)
  BY <1>5, <1>6, <1>8, Zenon
<1>10. Stated(d, bad, f) \in Seq(S) /\ Assumed(d, bad, f) \in Seq(S)
  BY <1>6, <1>8, Zenon
<1>11. Items(Stated(d, bad, f)) = {Declared(d, bad, f)} \cup Items(B) \cup Items(C)
  BY <1>1, <1>6, <1>8, Zenon
<1> QED BY <1>9, <1>10, <1>11, Zenon DEF B, C

\* What is settled on is the first of the ranked.
LEMMA SettledIs ==
  ASSUME NEW d, NEW bad, NEW f
  PROVE  LET ranked == Ranked(d, bad, f)
             with == {i \in DOMAIN ranked : ranked[i] # None}
         IN /\ DOMAIN ranked \subseteq Nat
            /\ Settled(d, bad, f) = None => with = {}
            /\ with # {} => /\ Min(with) \in with /\ \A k \in with : Min(with) <= k
                            /\ Settled(d, bad, f) = ranked[Min(with)]
<1> PICK ranked : ranked = Ranked(d, bad, f)
  OBVIOUS
<1> DEFINE with == {i \in DOMAIN ranked : ranked[i] # None}
<1>1. DOMAIN ranked \subseteq Nat
  <2> PICK s, t : s = Stated(d, bad, f) /\ t = Assumed(d, bad, f)
    OBVIOUS
  <2>1. ranked = s \o t /\ \E S : s \in Seq(S) /\ t \in Seq(S)
    BY RankedParts
  <2>2. PICK S : s \in Seq(S) /\ t \in Seq(S)
    BY <2>1
  <2>3. DOMAIN (s \o t) = 1..(Len(s) + Len(t)) /\ Len(s) \in Nat /\ Len(t) \in Nat
    BY <2>2, ItemsOfConcat
  <2> QED BY <2>1, <2>3
<1>2. with # {} => Min(with) \in with /\ \A k \in with : Min(with) <= k
  BY <1>1, MinOfNats
<1>3. Settled(d, bad, f) = IF with = {} THEN None ELSE ranked[Min(with)]
  BY DEF Settled
<1>4. Settled(d, bad, f) = None => with = {}
  BY <1>2, <1>3
<1>5. with # {} => Settled(d, bad, f) = ranked[Min(with)]
  BY <1>3
<1> QED BY <1>1, <1>2, <1>4, <1>5

LEMMA SettledOnNothing ==
  ASSUME NEW d, NEW bad, NEW f, Settled(d, bad, f) = None
  PROVE  Items(Ranked(d, bad, f)) \subseteq {None}
<1> PICK ranked : ranked = Ranked(d, bad, f)
  OBVIOUS
<1>1. {i \in DOMAIN ranked : ranked[i] # None} = {}
  BY SettledIs
<1> QED BY <1>1 DEF Items

NonePort(d, f) == Items(Ranked(d, {}, f)) = {None}

\* A clean read that settled on nothing read everything that names a port, and
\* nothing in it does.
LEMMA CleanRanked ==
  ASSUME NEW d, NEW bad, NEW asked, Startable(d, bad),
         NEW f, f = Launchers[LauncherAt(d, bad)],
         Clean(d, bad, f, asked), Settled(d, bad, f) = None
  PROVE  NonePort(d, f)
<1>1. Reads(d, bad, f)
  BY LauncherReads DEF Runs
<1>2. ~SourceNoted(d, bad) /\ ~HopNoted(d, bad, f)
  BY DEF Clean
<1>3. Items(Ranked(d, bad, f)) \subseteq {None}
  BY SettledOnNothing
<1>4. \A b : Declared(d, b, f) \in Items(Ranked(d, b, f))
  <2> TAKE b
  <2> PICK s, t : s = Stated(d, b, f) /\ t = Assumed(d, b, f)
    OBVIOUS
  <2>1. /\ Ranked(d, b, f) = s \o t /\ \E S : s \in Seq(S) /\ t \in Seq(S)
        /\ Items(s) = {Declared(d, b, f)} \cup Items(PortsIn(d, b, Env))
                        \cup Items(PortsIn(d, b, ComposeRead(d, b)))
    BY RankedParts
  <2>2. Items(s \o t) = Items(s) \cup Items(t)
    BY <2>1, ItemsOfConcat
  <2> QED BY <2>1, <2>2
<1>5. Declared(d, bad, f) = None
  BY <1>3, <1>4
<1>6. Declared(d, {}, f) = Declared(d, bad, f) /\ Default(d, {}, f) = Default(d, bad, f)
  BY <1>1, <1>2, <1>5, SameWay DEF Default
<1>7. PortsIn(d, {}, Env) = PortsIn(d, bad, Env)
  <2>1. \A i \in DOMAIN Env : Reads(d, {}, Env[i]) <=> Reads(d, bad, Env[i])
    BY <1>2, SameSources DEF Items
  <2> QED BY <2>1 DEF PortsIn
<1>8. PortsIn(d, {}, ComposeRead(d, {})) = PortsIn(d, bad, ComposeRead(d, bad))
  BY <1>2, SameSources DEF PortsIn
<1>9. PortsIn(d, {}, <<Readme>>) = PortsIn(d, bad, <<Readme>>)
  <2>1. Reads(d, {}, Readme) <=> Reads(d, bad, Readme)
    BY <1>2, SameSources
  <2>2. \A i \in DOMAIN <<Readme>> : <<Readme>>[i] = Readme
    OBVIOUS
  <2> QED BY <2>1, <2>2 DEF PortsIn
<1>10. Ranked(d, {}, f) = Ranked(d, bad, f)
  BY <1>6, <1>7, <1>8, <1>9 DEF Ranked
<1> QED BY <1>3, <1>4, <1>10 DEF NonePort

\* A port that a file states comes before any that is assumed.
LEMMA DeclaredRanked ==
  ASSUME NEW d, NEW f, NEW g \in Items(Env) \cup Items(ComposeRead(d, {})),
         There(d, g), PortIn(d, g) # None
  PROVE  \/ Settled(d, {}, f) = Declared(d, {}, f)
         \/ /\ Settled(d, {}, f) # None
            /\ \E h \in Items(Env) \cup Items(ComposeRead(d, {})) :
                 There(d, h) /\ Settled(d, {}, f) = PortIn(d, h)
<1> PICK s, t : s = Stated(d, {}, f) /\ t = Assumed(d, {}, f)
  OBVIOUS
<1> PICK ranked : ranked = Ranked(d, {}, f)
  OBVIOUS
<1> DEFINE with == {i \in DOMAIN ranked : ranked[i] # None}
<1>1. /\ ranked = s \o t /\ \E S : s \in Seq(S) /\ t \in Seq(S)
      /\ Items(s) = {Declared(d, {}, f)} \cup Items(PortsIn(d, {}, Env))
                      \cup Items(PortsIn(d, {}, ComposeRead(d, {})))
  BY RankedParts
<1>2. /\ Len(s) \in Nat /\ DOMAIN s = 1..Len(s)
      /\ Len(t) \in Nat /\ DOMAIN ranked = 1..(Len(s) + Len(t))
      /\ \A i \in 1..Len(s) : ranked[i] = s[i]
  BY <1>1, ItemsOfConcat
<1>3. Env \in Seq(Items(Env))
  BY ScannerAssumption
<1>4. \E S : ComposeRead(d, {}) \in Seq(S)
  <2> PICK x : x = Compose[Min({i \in DOMAIN Compose : Reads(d, {}, Compose[i])})]
    OBVIOUS
  <2>1. ComposeRead(d, {}) = <<>> \/ ComposeRead(d, {}) = <<x>>
    BY DEF ComposeRead
  <2>2. <<>> \in Seq({x}) /\ <<x>> \in Seq({x})
    BY EmptySeq
  <2> QED BY <2>1, <2>2
<1>5. Reads(d, {}, g)
  BY DEF Reads
<1>6. PortIn(d, g) \in Items(s)
  <2>1. CASE g \in Items(Env)
    BY <1>1, <1>3, <1>5, <2>1, PortsTyped
  <2>2. CASE g \in Items(ComposeRead(d, {}))
    BY <1>1, <1>4, <1>5, <2>2, PortsTyped
  <2> QED BY <2>1, <2>2
<1>7. PICK k \in 1..Len(s) : s[k] = PortIn(d, g)
  BY <1>2, <1>6 DEF Items
<1>8. k \in with
  BY <1>2, <1>7
<1> PICK m : m = Min(with)
  OBVIOUS
<1>9. m \in with /\ m <= k /\ Settled(d, {}, f) = ranked[m]
  BY <1>8, SettledIs
<1>10. m \in 1..Len(s) /\ ranked[m] # None /\ ranked[m] = s[m]
  BY <1>2, <1>9
<1> PICK x : x = Settled(d, {}, f)
  OBVIOUS
<1>11. x \in Items(s) /\ x # None
  BY <1>2, <1>9, <1>10 DEF Items
<1>12. CASE x \in Items(PortsIn(d, {}, Env))
  BY <1>3, <1>11, <1>12, PortsTyped
<1>13. CASE x \in Items(PortsIn(d, {}, ComposeRead(d, {})))
  BY <1>4, <1>11, <1>13, PortsTyped
<1> QED BY <1>1, <1>11, <1>12, <1>13

-----------------------------------------------------------------------------
(* Each row that is not a unit's comes from one reading of its directory    *)

\* All of its files, when nothing of the directory was trouble.
ReadAs(p, bad, asked) ==
  Startable(p.path, bad) /\ p = ByFile(p.path, bad, asked)

FilesRead ==
  \A p \in Found : p.launch # "unit" =>
    \E bad \in SUBSET File, asked \in BOOLEAN :
      ReadAs(p, bad, asked) /\ (p.path \notin troubled => bad = {})

\* Reading gives the same while the tree is the same.
LEMMA ReadAsStays ==
  ASSUME tree' = tree, NEW p, NEW bad, NEW asked, ReadAs(p, bad, asked)
  PROVE  ReadAs(p, bad, asked)'
<1> PICK d : d = p.path
  OBVIOUS
<1>1. /\ \A b, x : There(d, x)' = There(d, x) /\ Reads(d, b, x)' = Reads(d, b, x)
                   /\ Runs(d, b, x)' = Runs(d, b, x)
      /\ \A x : PortIn(d, x)' = PortIn(d, x) /\ NextOf(d, x)' = NextOf(d, x)
  BY DEF There, Reads, Runs, PortIn, NextOf
<1>2. Startable(d, bad)' = Startable(d, bad) /\ LauncherAt(d, bad)' = LauncherAt(d, bad)
  BY <1>1 DEF Startable, LauncherAt
<1> PICK f : f = Launchers[LauncherAt(d, bad)]
  OBVIOUS
<1>3. Hops(d, bad, f)' = Hops(d, bad, f)
  BY <1>1 DEF Hops
<1>4. Declared(d, bad, f)' = Declared(d, bad, f)
  BY <1>1, <1>3 DEF Declared
<1>5. Framework(d, bad, f)' = Framework(d, bad, f)
  BY <1>1 DEF Framework
<1>6. Default(d, bad, f)' = Default(d, bad, f)
  BY <1>4, <1>5 DEF Default
<1>7. ComposeRead(d, bad)' = ComposeRead(d, bad)
  BY <1>1 DEF ComposeRead
<1>8. /\ PortsIn(d, bad, Env)' = PortsIn(d, bad, Env)
      /\ PortsIn(d, bad, <<Readme>>)' = PortsIn(d, bad, <<Readme>>)
      /\ PortsIn(d, bad, ComposeRead(d, bad))' = PortsIn(d, bad, ComposeRead(d, bad))
  BY <1>1, <1>7 DEF PortsIn
<1>9. Ranked(d, bad, f)' = Ranked(d, bad, f)
  BY <1>4, <1>6, <1>8 DEF Ranked
<1>10. Settled(d, bad, f)' = Settled(d, bad, f)
  BY <1>9 DEF Settled
<1>11. LaunchersNoted(d, bad)' = LaunchersNoted(d, bad)
  BY <1>1, <1>2 DEF LaunchersNoted
<1>12. SourceNoted(d, bad)' = SourceNoted(d, bad)
  BY <1>1 DEF SourceNoted
<1>13. HopNoted(d, bad, f)' = HopNoted(d, bad, f)
  BY <1>1, <1>3 DEF HopNoted
<1>14. Clean(d, bad, f, asked)' = Clean(d, bad, f, asked)
  BY <1>11, <1>12, <1>13 DEF Clean
<1>15. ByFile(d, bad, asked)' = ByFile(d, bad, asked)
  BY <1>2, <1>10, <1>14 DEF ByFile
<1> QED BY <1>2, <1>15 DEF ReadAs

\* A row found before is read as before.
LEMMA FoundBefore ==
  ASSUME FilesRead, tree' = tree, NEW p \in Found, p.launch # "unit",
         p.path \notin troubled' => p.path \notin troubled
  PROVE  \E bad \in SUBSET File, asked \in BOOLEAN :
           ReadAs(p, bad, asked)' /\ (p.path \notin troubled' => bad = {})
<1> PICK bad \in SUBSET File, asked \in BOOLEAN :
      ReadAs(p, bad, asked) /\ (p.path \notin troubled => bad = {})
  BY DEF FilesRead
<1>1. ReadAs(p, bad, asked)'
  BY ReadAsStays
<1> QED BY <1>1

LEMMA FilesReadStep == ASSUME IInv, FilesRead, [Next]_vars PROVE FilesRead'
<1>1. CASE /\ UNCHANGED <<tree, projects>>
           /\ troubled \subseteq troubled'
  <2>1. Found' = Found
    BY <1>1 DEF Found
  <2> SUFFICES ASSUME NEW p \in Found, p.launch # "unit"
               PROVE  \E bad \in SUBSET File, asked \in BOOLEAN :
                        ReadAs(p, bad, asked)' /\ (p.path \notin troubled' => bad = {})
    BY <2>1 DEF FilesRead
  <2> QED BY <1>1, FoundBefore
<1>2. CASE FindsUnit
  <2> PICK h : h = Head(entries)
    OBVIOUS
  <2>1. /\ UNCHANGED <<tree, troubled>> /\ h # None /\ h \notin seen
        /\ entries # <<>>
    BY <1>2 DEF FindsUnit, Examines
  <2> PICK clean \in BOOLEAN : projects' = Append(projects, ByUnit(h, clean))
    BY <1>2 DEF FindsUnit
  <2>2. h \in Dir
    BY <2>1, ItemsOfTail DEF IInv, Typed, Entry
  <2> PICK e : e = ByUnit(h, clean)
    OBVIOUS
  <2>3. e.path = h /\ e.launch = "unit"
    BY DEF ByUnit
  <2>4. Found' = Found \cup {e}
    BY <2>1, <2>2, <2>3, Adds DEF IInv
  <2> SUFFICES ASSUME NEW p \in Found, p.launch # "unit"
               PROVE  \E bad \in SUBSET File, asked \in BOOLEAN :
                        ReadAs(p, bad, asked)' /\ (p.path \notin troubled' => bad = {})
    BY <2>3, <2>4 DEF FilesRead
  <2> QED BY <2>1, FoundBefore
<1>3. CASE FindsFiles
  <2> PICK h : h = Head(entries)
    OBVIOUS
  <2>1. /\ tree' = tree /\ h # None /\ h \notin seen /\ entries # <<>>
    BY <1>3 DEF FindsFiles, Examines
  <2> PICK asked \in BOOLEAN : asked = (systemd' = "read")
    OBVIOUS
  <2> PICK bad \in SUBSET {f \in File : There(h, f)} :
        /\ projects' = IF ~Startable(h, bad) THEN projects
                       ELSE Append(projects, ByFile(h, bad, asked))
        /\ troubled' = IF bad = {} THEN troubled \ {h} ELSE troubled \cup {h}
    BY <1>3 DEF FindsFiles
  <2>2. h \in Dir
    BY <2>1, ItemsOfTail DEF IInv, Typed, Entry
  <2>3. ASSUME NEW p \in Found, p.launch # "unit"
        PROVE  \E b \in SUBSET File, a \in BOOLEAN :
                 ReadAs(p, b, a)' /\ (p.path \notin troubled' => b = {})
    <3>1. p.path # h
      BY <2>1 DEF IInv, Once, Paths
    <3>2. p.path \notin troubled' => p.path \notin troubled
      BY <3>1
    <3> QED BY <2>1, <2>3, <3>2, FoundBefore
  <2>4. CASE ~Startable(h, bad)
    <3>1. Found' = Found
      BY <2>4 DEF Found
    <3> QED BY <2>3, <3>1 DEF FilesRead
  <2>5. CASE Startable(h, bad)
    <3> PICK e : e = ByFile(h, bad, asked)
      OBVIOUS
    <3>1. e.path = h
      BY DEF ByFile
    <3>2. projects' = Append(projects, e)
      BY <2>5
    <3>3. Found' = Found \cup {e}
      BY <2>1, <2>2, <3>1, <3>2, Adds DEF IInv
    <3>4. ReadAs(e, bad, asked)
      BY <2>5, <3>1 DEF ReadAs
    <3>5. ReadAs(e, bad, asked)'
      BY <2>1, <3>4, ReadAsStays
    <3>6. e.path \notin troubled' => bad = {}
      BY <3>1
    <3>7. bad \in SUBSET File
      OBVIOUS
    <3> QED BY <2>3, <3>3, <3>5, <3>6, <3>7 DEF FilesRead
  <2> QED BY <2>4, <2>5
<1>4. CASE Lists \/ Overflows \/ CannotList \/ Expires \/ Ends \/ Skips \/ UNCHANGED vars
  BY <1>1, <1>4 DEF Lists, Overflows, CannotList, Expires, Ends, Skips, Examines, vars
<1>5. CASE CannotExamine
  BY <1>1, <1>5 DEF CannotExamine, Examines
<1> QED BY <1>2, <1>3, <1>4, <1>5 DEF Next

LEMMA InitFilesRead == Init => FilesRead
BY ItemsOfEmpty DEF Init, FilesRead, Found

\* Whatever could not be read: a row that states no port and says that nothing
\* of its directory was noted names none in any of its files, so that `merge`
\* clears no port that the project still declares.
LEMMA CleanMeansNoPortAlways == Spec => []CleanMeansNoPort
<1>1. Init => IInv /\ FilesRead
  BY InitIInv, InitFilesRead
<1>2. IInv /\ FilesRead /\ [Next]_vars => (IInv /\ FilesRead)'
  BY IInvStep, FilesReadStep
<1>3. FilesRead => CleanMeansNoPort
  <2> SUFFICES ASSUME FilesRead, NEW p \in Found, p.clean, p.port = None, p.launch # "unit"
               PROVE  Items(Ranked(p.path, {}, p.launch)) = {None}
    BY DEF CleanMeansNoPort
  <2> PICK bad \in SUBSET File, asked \in BOOLEAN : ReadAs(p, bad, asked)
    BY DEF FilesRead
  <2> PICK d, f : d = p.path /\ f = Launchers[LauncherAt(d, bad)]
    OBVIOUS
  <2>1. Startable(d, bad) /\ p.launch = f /\ p.port = Settled(d, bad, f)
    BY DEF ReadAs, ByFile
  <2>2. Clean(d, bad, f, asked)
    BY DEF ReadAs, ByFile, Clean
  <2>3. Settled(d, bad, f) = None
    BY <2>1
  <2>4. NonePort(d, f)
    BY <2>1, <2>2, <2>3, CleanRanked
  <2> QED BY <2>1, <2>4 DEF NonePort
<1> QED BY <1>1, <1>2, <1>3, PTL DEF Spec

\* In a directory all of whose files could be read, a port that a file declares
\* is used before one that a framework assumes, whatever else the files hold.
LEMMA DeclaredFirstAlways == Spec => []DeclaredFirst
<1>1. Init => IInv /\ FilesRead
  BY InitIInv, InitFilesRead
<1>2. IInv /\ FilesRead /\ [Next]_vars => (IInv /\ FilesRead)'
  BY IInvStep, FilesReadStep
<1>3. FilesRead => DeclaredFirst
  <2> SUFFICES ASSUME FilesRead, NEW p \in Found, p.path \notin troubled, p.launch # "unit"
               PROVE  LET written == {PortIn(p.path, f) : f \in
                            {g \in Items(Env) \cup Items(ComposeRead(p.path, {})) :
                               There(p.path, g)}} \ {None}
                      IN written # {} =>
                           p.port \in written \cup {Declared(p.path, {}, p.launch)}
    BY DEF DeclaredFirst
  <2> PICK asked \in BOOLEAN : ReadAs(p, {}, asked)
    BY DEF FilesRead
  <2> PICK d, f : d = p.path /\ f = Launchers[LauncherAt(d, {})]
    OBVIOUS
  <2>1. p.launch = f /\ p.port = Settled(d, {}, f)
    BY DEF ReadAs, ByFile
  <2> DEFINE stated == {g \in Items(Env) \cup Items(ComposeRead(d, {})) : There(d, g)}
             written == {PortIn(d, g) : g \in stated} \ {None}
  <2> SUFFICES ASSUME NEW g \in stated, PortIn(d, g) # None
               PROVE  Settled(d, {}, f) \in written \cup {Declared(d, {}, f)}
    BY <2>1
  <2>2. \/ Settled(d, {}, f) = Declared(d, {}, f)
        \/ /\ Settled(d, {}, f) # None
           /\ \E h \in Items(Env) \cup Items(ComposeRead(d, {})) :
                There(d, h) /\ Settled(d, {}, f) = PortIn(d, h)
    BY DeclaredRanked
  <2> QED BY <2>2
<1> QED BY <1>1, <1>2, <1>3, PTL DEF Spec

\* What a row says of the port is what the files of its directory say, whatever
\* they hold and whichever cannot be read: none only where none is declared, and
\* a declared one before an assumed one.
THEOREM PortsTrueAlways == Spec => []PortsTrue
BY CleanMeansNoPortAlways, DeclaredFirstAlways, PTL DEF PortsTrue

=============================================================================
