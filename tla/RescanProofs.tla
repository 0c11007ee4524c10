---------------------------- MODULE RescanProofs ----------------------------
(***************************************************************************)
(* Theorems about Rescan, whatever is scanned, edited and imported, and     *)
(* whatever overlaps the scan: no list is shown or written where there was *)
(* none before the user agreed, and nothing changes once the window is shut *)
(* down; a rescan leaves what the user chose, invents nothing and loses     *)
(* nothing; and a merge that is repeated changes nothing.                  *)
(*                                                                         *)
(* AskedFirst alone is not inductive: a file whose save failed leaves the  *)
(* records and the load apart.  Until the user agrees neither has anything *)
(* in it.  The others rest on RecordsInv: while a scan is out the records  *)
(* stay aligned, row by row, with those it was started with, so that what  *)
(* it made of them is of the same rows when it is applied.                 *)
(***************************************************************************)
EXTENDS Rescan, SequenceTheorems, FiniteSetTheorems, WellFoundedInduction, TLAPS

Untouched == ~agreed => load.kind = "missing" /\ records = <<>>

-----------------------------------------------------------------------------
LEMMA InitUntouched == Init => Untouched
<1> SUFFICES ASSUME Init, ~agreed PROVE load.kind = "missing" /\ records = <<>>
  BY DEF Untouched
<1>1. load \in Starts /\ load.kind = "missing" /\ records = load.list
  BY DEF Init
<1>2. \A s \in Starts : s.kind # "ok" => s.list = <<>>
  BY RescanAssumption
<1> QED BY <1>1, <1>2

\* There is nothing to edit, and no port to confirm, in a list that is empty.
LEMMA UntouchedStep == ASSUME Untouched, [Next]_vars PROVE Untouched'
<1> USE DEF Untouched
<1>1. CASE StartRescan
  BY <1>1 DEF StartRescan
<1>2. CASE Worker
  BY <1>2 DEF Worker, ScanFails, ScanEnds
<1>3. CASE RescanFailed
  BY <1>3 DEF RescanFailed
<1>4. CASE RescanDone
  BY <1>4 DEF RescanDone, FirstRun
<1>5. CASE DialogNotNow
  BY <1>5 DEF DialogNotNow
<1>6. ASSUME NEW paths, DialogSave(paths) PROVE Untouched'
  BY <1>6 DEF DialogSave
<1>7. CASE UserEdits
  <2> PICK p \in {records[i].path : i \in DOMAIN records} :
        \/ \E c \in Choice : ChangeChoice(p, c)
        \/ \E m \in Mine : ChangeMine(p, m)
        \/ \E port \in Port \cup {None} : ChangePort(p, port)
    BY <1>7 DEF UserEdits
  <2>1. records # <<>>
    OBVIOUS
  <2>2. agreed' = agreed
    BY DEF ChangeChoice, ChangeMine, ChangePort
  <2> QED BY <2>1, <2>2
<1>8. CASE Export
  BY <1>8 DEF Export, Acts
<1>9. CASE Import
  BY <1>9 DEF Import
<1>10. CASE Polls
  <2> PICK i \in DOMAIN records : \E port \in Port : Confirm(i, port)
    BY <1>10 DEF Polls
  <2>1. records # <<>> /\ agreed' = agreed
    BY DEF Confirm
  <2> QED BY <2>1
<1>11. CASE Shutdown
  BY <1>11 DEF Shutdown
<1>12. CASE UNCHANGED vars
  BY <1>12 DEF vars
<1> QED
  BY <1>1, <1>2, <1>3, <1>4, <1>5, <1>6, <1>7, <1>8, <1>9, <1>10, <1>11, <1>12
     DEF Next, Slot, Dialog

\* Each writer of the records looks whether the window is shut down; the dialog
\* looks when it returns.
LEMMA QuietStep == ASSUME stopped, [Next]_vars PROVE UNCHANGED <<records, load>>
<1>1. CASE Worker
  BY <1>1 DEF Worker, ScanFails, ScanEnds
<1>2. CASE Dialog
  BY <1>2 DEF Dialog, DialogNotNow, DialogSave
<1>3. CASE Shutdown
  BY <1>3 DEF Shutdown
<1>4. CASE UNCHANGED vars
  BY <1>4 DEF vars
<1>5. ~(StartRescan \/ Slot)
  BY DEF StartRescan, Slot, RescanFailed, RescanDone
<1>6. ~(UserEdits \/ Export \/ Import \/ Polls)
  BY DEF UserEdits, ChangeChoice, ChangeMine, ChangePort, Export, Import, Polls,
     Confirm, Acts
<1> QED BY <1>1, <1>2, <1>3, <1>4, <1>5, <1>6 DEF Next

\* Whatever overlaps the first run's question, and however often a save failed
\* before it: no list before the answer, and no change after the shutdown.
THEOREM WrittenWithConsentAlways == Spec => WrittenWithConsent
<1>1. Init => Untouched
  BY InitUntouched
<1>2. Untouched /\ [Next]_vars => Untouched'
  BY UntouchedStep
<1>3. Untouched => AskedFirst
  BY DEF Untouched, AskedFirst
<1>4. Spec => []AskedFirst
  BY <1>1, <1>2, <1>3, PTL DEF Spec
<1>5. [Next]_vars => [stopped => UNCHANGED <<records, load>>]_vars
  BY QuietStep
<1>6. Spec => QuietWhenStopped
  BY <1>5, PTL DEF Spec, QuietWhenStopped
<1> QED BY <1>4, <1>6 DEF WrittenWithConsent

-----------------------------------------------------------------------------
(* What is applied when a rescan ends                                      *)

\* `_with_current_user_half`: whatever a merge made of an older list, the user's
\* choices that are applied are those of now, the sighting of the same declared
\* port too, and what the scan observed is what the merge made of it.
THEOREM CurrentHalfWins ==
  ASSUME records \in Seq(Record), NEW list \in Seq(Record),
         NEW j \in DOMAIN list, NEW i \in DOMAIN records,
         records[i].path = list[j].path,
         \A k \in (i + 1)..Len(records) : records[k].path # records[i].path
  PROVE LET new == WithCurrentUserHalf(list)[j]
        IN /\ UserHalf(new) = UserHalf(records[i])
           /\ list[j].port = records[i].port => new.seen = records[i].seen
           /\ new.port = list[j].port /\ new.launch = list[j].launch
<1> DEFINE at == RecordsAt(list[j].path)
<1>1. /\ DOMAIN records = 1..Len(records) /\ Len(records) \in Nat
      /\ list[j] \in Record /\ records[i] \in Record
  OBVIOUS
<1>2. at # {} /\ i \in at /\ at \subseteq DOMAIN records
      /\ \A k \in at : k <= i
  BY <1>1 DEF RecordsAt
<1>3. (CHOOSE n \in at : \A k \in at : k <= n) = i
  BY <1>1, <1>2
<1> HIDE DEF at
<1>4. WithCurrentUserHalf(list)[j] = CurrentHalf(list[j], records[i])
  <2>1. Current(list[j]) = CurrentHalf(list[j], records[i])
    BY <1>2, <1>3 DEF Current, at
  <2> QED BY <2>1 DEF WithCurrentUserHalf
<1>5. \A r, p \in Record :
        LET new == CurrentHalf(r, p)
        IN /\ UserHalf(new) = UserHalf(p)
           /\ r.port = p.port => new.seen = p.seen
           /\ new.port = r.port /\ new.launch = r.launch
  BY DEF CurrentHalf, UserHalfApplied, UserHalf, Record
<1> QED BY <1>1, <1>4, <1>5

-----------------------------------------------------------------------------
(* The places of a sequence, in order                                      *)

LEMMA Smallest ==
  ASSUME NEW S, S \subseteq Nat, S # {}
  PROVE  \E m \in S : \A k \in S : m <= k
<1> DEFINE R == {ss \in Nat \X Nat : ss[1] < ss[2]}
<1>1. IsWellFoundedOn(R, Nat)
  BY NatLessThanWellFounded DEF OpToRel
<1> HIDE DEF R
<1>2. \E m \in S : \A k \in S : ~ (<<k, m>> \in R)
  BY <1>1, WFMin
<1>3. ASSUME NEW m \in S, NEW k \in S, ~ (<<k, m>> \in R) PROVE m <= k
  BY <1>3 DEF R
<1> QED BY <1>2, <1>3

Enumerates(at, I) ==
  /\ at \in [1..Cardinality(I) -> I]
  /\ {at[k] : k \in DOMAIN at} = I
  /\ \A k, m \in DOMAIN at : k < m => at[k] < at[m]

\* Every set of places has them in order, by the last of them.
LEMMA Enumerable ==
  ASSUME NEW N \in Nat, NEW I \in SUBSET (1..N)
  PROVE  Cardinality(I) \in Nat /\ \E at : Enumerates(at, I)
<1> DEFINE Bad == {n \in Nat : \E J \in SUBSET (1..n) : ~ \E at : Enumerates(at, J)}
<1>1. ASSUME NEW n \in Nat, NEW J \in SUBSET (1..n)
      PROVE  IsFiniteSet(J) /\ Cardinality(J) \in Nat
  <2>1. IsFiniteSet(1..n)
    BY FS_Interval
  <2>2. IsFiniteSet(J)
    BY <2>1, FS_Subset
  <2> QED BY <2>2, FS_CardinalityType
<1>2. Bad = {}
  <2> SUFFICES ASSUME Bad # {} PROVE FALSE
    OBVIOUS
  <2>1. PICK n \in Bad : \A k \in Bad : n <= k
    BY Smallest
  <2>2. PICK J \in SUBSET (1..n) : ~ \E at : Enumerates(at, J)
    OBVIOUS
  <2> HIDE DEF Bad
  <2>3. n \in Nat
    BY DEF Bad
  <2>4. CASE n \notin J
    <3>1. n # 0
      <4> SUFFICES ASSUME n = 0 PROVE FALSE
        OBVIOUS
      <4>0. J = {}
        OBVIOUS
      <4>1. J = {} /\ Cardinality(J) = 0
        BY <4>0, FS_EmptySet
      <4> DEFINE none == [k \in 1..0 |-> 0]
      <4>2. 1..0 = {} /\ none \in [1..0 -> {}] /\ DOMAIN none = {}
        OBVIOUS
      <4>3. {none[k] : k \in DOMAIN none} = {}
        BY <4>2
      <4> HIDE DEF none
      <4>4. Enumerates(none, J)
        BY <4>1, <4>2, <4>3 DEF Enumerates
      <4> QED BY <2>2, <4>4
    <3>2. J \in SUBSET (1..(n - 1)) /\ n - 1 \in Nat
      BY <2>3, <2>4, <3>1
    <3>3. n - 1 \in Bad
      BY <2>2, <3>2 DEF Bad
    <3> QED BY <2>1, <2>3, <3>3
  <2>5. CASE n \in J
    <3> PICK K : K = J \ {n}
      OBVIOUS
    <3>1. n > 0 /\ n - 1 \in Nat /\ K \in SUBSET (1..(n - 1)) /\ J = K \cup {n} /\ n \notin K
      BY <2>3, <2>5
    <3>2. n - 1 \notin Bad
      BY <2>1, <2>3, <3>1
    <3>3. PICK at : Enumerates(at, K)
      BY <3>1, <3>2 DEF Bad
    <3> PICK c : c = Cardinality(K)
      OBVIOUS
    <3>4. c \in Nat /\ Cardinality(J) = c + 1
      BY <1>1, <3>1, FS_AddElement
    <3> DEFINE all == [k \in 1..(c + 1) |-> IF k = c + 1 THEN n ELSE at[k]]
    <3>5. /\ at \in [1..c -> K] /\ \A i \in K : \E k \in 1..c : at[k] = i
          /\ \A k, m \in 1..c : k < m => at[k] < at[m]
      <4> HIDE DEF all
      <4>1. /\ at \in [1..c -> K] /\ {at[k] : k \in DOMAIN at} = K
            /\ \A k, m \in DOMAIN at : k < m => at[k] < at[m]
        BY <3>3 DEF Enumerates
      <4>2. DOMAIN at = 1..c
        BY <4>1
      <4> QED BY <4>1, <4>2
    <3>6. all \in [1..(c + 1) -> J]
      <4>1. ASSUME NEW k \in 1..(c + 1), k # c + 1 PROVE at[k] \in J
        <5>1. k \in 1..c
          BY <3>4, <4>1
        <5>2. at[k] \in K
          BY <3>5, <5>1
        <5> QED BY <3>1, <5>2
      <4> QED BY <2>5, <4>1
    <3>7. ASSUME NEW i \in J PROVE \E k \in 1..(c + 1) : all[k] = i
      <4>1. CASE i = n
        BY <3>4, <4>1
      <4>2. CASE i # n
        <5>1. PICK k \in 1..c : at[k] = i
          BY <3>1, <3>5, <4>2
        <5>2. k \in 1..(c + 1) /\ all[k] = i
          BY <3>4, <5>1
        <5> QED BY <5>2
      <4> QED BY <4>1, <4>2
    <3>8. ASSUME NEW k \in 1..(c + 1), NEW m \in 1..(c + 1), k < m PROVE all[k] < all[m]
      <4>1. k \in 1..c
        BY <3>4, <3>8
      <4>2. all[k] = at[k] /\ at[k] \in K
        <5>1. at[k] \in K
          BY <3>5, <4>1
        <5>2. k \in 1..(c + 1) /\ k # c + 1
          BY <3>4, <4>1
        <5> QED BY <5>1, <5>2
      <4>3. at[k] \in 1..(n - 1)
        BY <3>1, <4>2
      <4>4. CASE m = c + 1
        <5>1. all[m] = n
          <6>1. m \in 1..(c + 1) /\ m = c + 1
            BY <4>4
          <6> QED BY <6>1
        <5>2. at[k] < n
          BY <2>3, <3>1, <4>3
        <5> QED BY <4>2, <5>1, <5>2
      <4>5. CASE m # c + 1
        <5>1. m \in 1..c /\ all[m] = at[m]
          BY <3>4, <4>5
        <5> QED BY <3>5, <3>8, <4>1, <4>2, <5>1
      <4> QED BY <4>4, <4>5
    <3>9. {all[k] : k \in DOMAIN all} = J
      <4>1. DOMAIN all = 1..(c + 1)
        BY <3>6
      <4> HIDE DEF all
      <4> QED BY <3>6, <3>7, <4>1
    <3> HIDE DEF all
    <3>10. Enumerates(all, J)
      BY <3>4, <3>6, <3>8, <3>9 DEF Enumerates
    <3> QED BY <2>2, <3>10
  <2> QED BY <2>4, <2>5
<1>3. N \notin Bad
  BY <1>2
<1> QED BY <1>1, <1>3

LEMMA InOrderProperties ==
  ASSUME NEW N \in Nat, NEW I \in SUBSET (1..N)
  PROVE  LET c == Cardinality(I)
         IN /\ c \in Nat
            /\ InOrder(I) \in [1..c -> I]
            /\ \A i \in I : \E k \in 1..c : InOrder(I)[k] = i
            /\ \A k, m \in 1..c : k < m => InOrder(I)[k] < InOrder(I)[m]
<1>1. Cardinality(I) \in Nat /\ \E at : Enumerates(at, I)
  BY Enumerable
<1>2. Enumerates(InOrder(I), I)
  <2>1. PICK one : Enumerates(one, I)
    BY <1>1
  <2>2. \E at \in [1..Cardinality(I) -> I] :
          /\ {at[k] : k \in DOMAIN at} = I
          /\ \A k, m \in DOMAIN at : k < m => at[k] < at[m]
    BY <2>1 DEF Enumerates
  <2> QED BY <2>2 DEF InOrder, Enumerates
<1>3. DOMAIN InOrder(I) = 1..Cardinality(I)
  BY <1>2 DEF Enumerates
<1>4. ASSUME NEW i \in I PROVE \E k \in 1..Cardinality(I) : InOrder(I)[k] = i
  BY <1>2, <1>3 DEF Enumerates
<1>5. ASSUME NEW k \in 1..Cardinality(I), NEW m \in 1..Cardinality(I), k < m
      PROVE  InOrder(I)[k] < InOrder(I)[m]
  BY <1>2, <1>3, <1>5 DEF Enumerates
<1> QED BY <1>1, <1>2, <1>4, <1>5 DEF Enumerates

\* What is kept of a sequence is a sequence, in the same order.
LEMMA KeptProperties ==
  ASSUME NEW S, NEW s \in Seq(S), NEW I \in SUBSET DOMAIN s
  PROVE  LET c == Cardinality(I)
         IN /\ c \in Nat
            /\ Kept(s, I) \in Seq(S) /\ Len(Kept(s, I)) = c
            /\ \A k \in 1..c : InOrder(I)[k] \in I /\ Kept(s, I)[k] = s[InOrder(I)[k]]
            /\ \A i \in I : \E k \in 1..c : InOrder(I)[k] = i
            /\ \A k, m \in 1..c : k < m => InOrder(I)[k] < InOrder(I)[m]
<1>1. Len(s) \in Nat /\ DOMAIN s = 1..Len(s)
  OBVIOUS
<1>2. /\ Cardinality(I) \in Nat
      /\ InOrder(I) \in [1..Cardinality(I) -> I]
      /\ \A i \in I : \E k \in 1..Cardinality(I) : InOrder(I)[k] = i
      /\ \A k, m \in 1..Cardinality(I) : k < m => InOrder(I)[k] < InOrder(I)[m]
  BY <1>1, InOrderProperties
<1>3. \A k \in 1..Cardinality(I) : InOrder(I)[k] \in I /\ s[InOrder(I)[k]] \in S
  BY <1>1, <1>2
<1>4. Kept(s, I) \in [1..Cardinality(I) -> S]
  BY <1>3 DEF Kept
<1>5. Kept(s, I) \in Seq(S) /\ Len(Kept(s, I)) = Cardinality(I)
  BY <1>2, <1>4
<1>6. \A k \in 1..Cardinality(I) : Kept(s, I)[k] = s[InOrder(I)[k]]
  BY DEF Kept
<1> QED BY <1>2, <1>3, <1>5, <1>6

-----------------------------------------------------------------------------
(* One record                                                              *)

SameHalf(new, old) ==
  /\ new.override = old.override /\ new.choice = old.choice
  /\ new.mine = old.mine /\ new.added = old.added

\* What a scan made of a record.
Observed(new, old, f, asked) ==
  /\ new.launch # old.launch => new.launch = f.launch /\ (old.launch \in Unit => asked)
  /\ new.port # old.port => new.port = f.port /\ (f.port = None => f.clean)

LEMMA DetectedIs ==
  ASSUME NEW r \in Record, NEW f \in Found, NEW asked \in BOOLEAN
  PROVE  LET d == Detected(r, f, asked)
         IN /\ d \in Record /\ d.path = r.path /\ SameHalf(d, r)
            /\ Observed(d, r, f, asked)
            /\ d.port # r.port => d.seen = None
            /\ d.port = r.port => d.seen = r.seen
            /\ Detected(d, f, asked) = d
<1>1. PICK port \in Port \cup {None} : port = (IF f.port # None \/ f.clean THEN f.port ELSE r.port)
  BY DEF Record, Found
<1>2. PICK seen \in Port \cup {None} : seen = (IF port = r.port THEN r.seen ELSE None)
  BY DEF Record
<1>3. PICK launch \in Launcher \cup {None} :
        launch = (IF ~asked /\ r.launch \in Unit THEN r.launch ELSE f.launch)
  BY DEF Record, Found
<1>4. PICK d : d = [r EXCEPT !.port = port, !.seen = seen, !.launch = launch]
  OBVIOUS
<1>5. d = Detected(r, f, asked)
  BY <1>1, <1>2, <1>3, <1>4 DEF Detected, Record
<1>6. /\ d \in Record /\ d.path = r.path /\ SameHalf(d, r)
      /\ d.port = port /\ d.seen = seen /\ d.launch = launch
  BY <1>4 DEF Record, SameHalf
<1>7. Observed(d, r, f, asked)
  BY <1>1, <1>3, <1>6 DEF Observed
<1>8. port = (IF f.port # None \/ f.clean THEN f.port ELSE d.port)
  BY <1>1, <1>6
<1>9. launch = (IF ~asked /\ d.launch \in Unit THEN d.launch ELSE f.launch)
  BY <1>3, <1>6
<1>10. [d EXCEPT !.port = port, !.seen = seen, !.launch = launch] = d
  BY <1>6 DEF Record
<1>11. Detected(d, f, asked) = [d EXCEPT !.port = port, !.seen = seen, !.launch = launch]
  BY <1>6, <1>8, <1>9 DEF Detected, Record
<1> QED BY <1>2, <1>5, <1>6, <1>7, <1>10, <1>11

LEMMA NewRecordIs ==
  ASSUME NEW f \in Found, NEW asked \in BOOLEAN, NEW now \in Nat
  PROVE  LET d == NewRecord(f, now)
         IN /\ d \in Record /\ d.path = f.path /\ d.port = f.port /\ d.launch = f.launch
            /\ Detected(d, f, asked) = d
<1> USE MergeAssumption
<1>1. PICK d : d = NewRecord(f, now)
  OBVIOUS
<1>2. /\ d \in Record /\ d.path = f.path /\ d.port = f.port /\ d.launch = f.launch
      /\ d.seen = None
  BY <1>1 DEF NewRecord, Record, Found
<1>3. Detected(d, f, asked) = [d EXCEPT !.port = d.port, !.seen = d.seen, !.launch = d.launch]
  BY <1>2 DEF Detected, Record
<1>4. [d EXCEPT !.port = d.port, !.seen = d.seen, !.launch = d.launch] = d
  BY <1>2 DEF Record
<1> QED BY <1>1, <1>2, <1>3, <1>4

LEMMA ImportedIs ==
  ASSUME NEW r \in Record, NEW p \in Record
  PROVE  LET d == Imported(r, p)
         IN /\ d \in Record /\ d.path = r.path
            /\ d.port = r.port /\ d.launch = r.launch /\ d.mine = r.mine
            /\ d.override # r.override => d.seen = None
            /\ d.override = r.override => d.seen = r.seen
            /\ Imported(d, p) = d
            /\ Imported(r, r) = r
<1>1. PICK seen \in Port \cup {None} : seen = (IF p.override # r.override THEN None ELSE r.seen)
  BY DEF Record
<1>2. PICK d : d = [r EXCEPT !.override = p.override, !.choice = p.choice,
                             !.added = p.added, !.seen = seen]
  OBVIOUS
<1>3. Imported(r, p) = d
  <2>1. CASE p.override = r.override
    BY <1>1, <1>2, <2>1 DEF Imported, UserHalfApplied, Record
  <2>2. CASE p.override # r.override
    BY <1>1, <1>2, <2>2 DEF Imported, UserHalfApplied, Record
  <2> QED BY <2>1, <2>2
<1>4. /\ d \in Record /\ d.path = r.path
      /\ d.port = r.port /\ d.launch = r.launch /\ d.mine = r.mine
      /\ d.override = p.override /\ d.choice = p.choice /\ d.added = p.added /\ d.seen = seen
  BY <1>2 DEF Record
<1>5. Imported(d, p) = d
  BY <1>4 DEF Imported, UserHalfApplied, Record
<1>6. Imported(r, r) = r
  BY DEF Imported, UserHalfApplied, Record
<1> QED BY <1>1, <1>3, <1>4, <1>5, <1>6

LEMMA AddedIs ==
  ASSUME NEW p \in Record
  PROVE  LET d == Added(p)
         IN /\ d \in Record /\ d.path = p.path /\ d.port = None /\ d.launch = None
            /\ Imported(d, p) = d
<1> USE MergeAssumption
<1>1. PICK d : d = Added(p)
  OBVIOUS
<1>2. /\ d \in Record /\ d.path = p.path /\ d.port = None /\ d.launch = None
      /\ d.seen = None /\ d.mine = Default
      /\ d.override = p.override /\ d.choice = p.choice /\ d.added = p.added
  BY <1>1 DEF Added, Record
<1>3. Imported(d, p) = d
  BY <1>2 DEF Imported, UserHalfApplied, Record
<1> QED BY <1>1, <1>2, <1>3

LEMMA OverrideIs ==
  ASSUME NEW r \in Record, NEW port \in Port \cup {None}
  PROVE  LET d == WithPortOverride(r, port)
         IN /\ d \in Record /\ d.path = r.path /\ d.added = r.added
            /\ d.port = r.port /\ d.launch = r.launch
            /\ d.override # r.override => d.seen = None
            /\ d.override = r.override => d.seen = r.seen
BY DEF WithPortOverride, Record

LEMMA CurrentHalfIs ==
  ASSUME NEW r \in Record, NEW now \in Record
  PROVE  LET d == CurrentHalf(r, now)
         IN /\ d \in Record /\ d.path = r.path /\ SameHalf(d, now)
            /\ d.port = r.port /\ d.launch = r.launch
            /\ r.port = now.port => d.seen = now.seen
            /\ r.port # now.port => d.seen = r.seen
<1>1. PICK seen \in Port \cup {None} : seen = (IF r.port = now.port THEN now.seen ELSE r.seen)
  BY DEF Record
<1>2. PICK d : d = [r EXCEPT !.override = now.override, !.choice = now.choice,
                             !.mine = now.mine, !.added = now.added, !.seen = seen]
  OBVIOUS
<1>3. CurrentHalf(r, now) = d
  BY <1>1, <1>2 DEF CurrentHalf, UserHalfApplied, Record
<1>4. /\ d \in Record /\ d.path = r.path /\ SameHalf(d, now)
      /\ d.port = r.port /\ d.launch = r.launch /\ d.seen = seen
  BY <1>2 DEF Record, SameHalf
<1> QED BY <1>1, <1>3, <1>4

-----------------------------------------------------------------------------
(* What the merges make of a list                                          *)

\* The rows stay, in their order, and what is appended is of a place no row
\* before it has.
Grown(out, list) ==
  /\ Len(list) <= Len(out)
  /\ \A i \in 1..Len(list) : out[i].path = list[i].path
  /\ \A j \in (Len(list) + 1)..Len(out) : \A i \in 1..(j - 1) :
       Place[out[i].path] # Place[out[j].path]

LEMMA GrownOnePerPath ==
  ASSUME NEW list \in Seq(Record), NEW out \in Seq(Record), Grown(out, list), OnePerPath(list)
  PROVE  OnePerPath(out)
<1> SUFFICES ASSUME NEW i \in 1..Len(out), NEW j \in 1..Len(out), i < j,
                    out[i].path = out[j].path
             PROVE  FALSE
  BY DEF OnePerPath
<1>1. /\ DOMAIN list = 1..Len(list) /\ Len(list) \in Nat /\ Len(out) \in Nat
      /\ i \in Nat /\ j \in Nat
  OBVIOUS
<1>2. CASE j <= Len(list)
  <2>1. i \in 1..Len(list) /\ j \in 1..Len(list)
    BY <1>1, <1>2
  <2>2. list[i].path = list[j].path
    BY <2>1 DEF Grown
  <2> QED BY <1>1, <2>1, <2>2 DEF OnePerPath
<1>3. CASE ~(j <= Len(list))
  <2>1. j \in (Len(list) + 1)..Len(out) /\ i \in 1..(j - 1)
    BY <1>1, <1>3
  <2> QED BY <2>1 DEF Grown
<1> QED BY <1>2, <1>3

SawAt(list, found, i) ==
  {k \in DOMAIN found : SamePlace(list[i], found[k].path) /\ found[k].saveable}

NewIn(list, found) ==
  {k \in DOMAIN found : found[k].saveable /\ ~Known(list, found[k].path)}

IsJoin(out, a, b) ==
  /\ out \in Seq(Record) /\ Len(out) = Len(a) + Len(b)
  /\ \A i \in 1..Len(a) : out[i] = a[i]
  /\ \A k \in 1..Len(b) : out[Len(a) + k] = b[k]

LEMMA Joined ==
  ASSUME NEW a \in Seq(Record), NEW b \in Seq(Record)
  PROVE  IsJoin(a \o b, a, b)
<1>1. (a \o b) \in Seq(Record) /\ Len(a \o b) = Len(a) + Len(b)
  BY ConcatProperties
<1>2. \A i \in 1..(Len(a) + Len(b)) :
        (a \o b)[i] = IF i <= Len(a) THEN a[i] ELSE b[i - Len(a)]
  BY ConcatProperties
<1>3. Len(a) \in Nat /\ Len(b) \in Nat
  OBVIOUS
<1>4. ASSUME NEW k \in 1..Len(b) PROVE (a \o b)[Len(a) + k] = b[k]
  <2>1. /\ Len(a) + k \in 1..(Len(a) + Len(b)) /\ ~(Len(a) + k <= Len(a))
        /\ (Len(a) + k) - Len(a) = k
    BY <1>3
  <2>2. (a \o b)[Len(a) + k] = b[(Len(a) + k) - Len(a)]
    BY <1>2, <2>1
  <2> QED BY <2>1, <2>2
<1> QED BY <1>1, <1>2, <1>3, <1>4 DEF IsJoin

\* `out` is `list` after a merge of what was found.
IsMerged(out, list, found, asked, now) ==
  LET n == Len(list)
      I == NewIn(list, found)
      c == Cardinality(I)
  IN /\ n \in Nat /\ c \in Nat /\ out \in Seq(Record) /\ Len(out) = n + c
     /\ \A i \in 1..n :
          /\ Owns(list, i) /\ SawAt(list, found, i) # {} =>
               out[i] = Detected(list[i], found[CHOOSE k \in SawAt(list, found, i) : TRUE], asked)
          /\ ~(Owns(list, i) /\ SawAt(list, found, i) # {}) => out[i] = list[i]
     /\ \A k \in 1..c : /\ InOrder(I)[k] \in I
                        /\ out[n + k] = NewRecord(found[InOrder(I)[k]], now)
     /\ \A i \in I : \E k \in 1..c : InOrder(I)[k] = i
     /\ \A k, m \in 1..c : k < m => InOrder(I)[k] < InOrder(I)[m]

LEMMA MergedShape ==
  ASSUME NEW list \in Seq(Record), NEW found \in Seq(Found),
         NEW asked \in BOOLEAN, NEW now \in Nat
  PROVE  IsMerged(Merged(list, found, asked, now), list, found, asked, now)
<1> DEFINE Row(i) == IF Owns(list, i) /\ SawAt(list, found, i) # {}
                       THEN Detected(list[i], found[CHOOSE k \in SawAt(list, found, i) : TRUE], asked)
                       ELSE list[i]
           rows == [i \in DOMAIN list |-> Row(i)]
<1> PICK I : I = NewIn(list, found)
  OBVIOUS
<1> PICK c : c = Cardinality(I)
  OBVIOUS
<1> PICK news : news = Kept(found, I)
  OBVIOUS
<1> DEFINE added == [k \in DOMAIN news |-> NewRecord(news[k], now)]
<1>1. Len(list) \in Nat /\ DOMAIN list = 1..Len(list)
  OBVIOUS
<1>2. I \in SUBSET DOMAIN found
  BY DEF NewIn
<1>3. /\ c \in Nat /\ news \in Seq(Found) /\ Len(news) = c
      /\ \A k \in 1..c : InOrder(I)[k] \in I /\ news[k] = found[InOrder(I)[k]]
      /\ \A i \in I : \E k \in 1..c : InOrder(I)[k] = i
      /\ \A k, m \in 1..c : k < m => InOrder(I)[k] < InOrder(I)[m]
  <2> HIDE DEF rows, added
  <2> QED BY <1>2, KeptProperties
<1>4. ASSUME NEW i \in 1..Len(list) PROVE Row(i) \in Record
  <2>1. list[i] \in Record
    BY <1>1
  <2>2. ASSUME SawAt(list, found, i) # {}
        PROVE  found[CHOOSE k \in SawAt(list, found, i) : TRUE] \in Found
    <3>1. (CHOOSE k \in SawAt(list, found, i) : TRUE) \in SawAt(list, found, i)
      BY <2>2
    <3>2. SawAt(list, found, i) \subseteq DOMAIN found
      BY DEF SawAt
    <3> QED BY <3>1, <3>2
  <2> QED BY <2>1, <2>2, DetectedIs
<1>5. rows \in Seq(Record) /\ Len(rows) = Len(list)
  <2> HIDE DEF Row
  <2>1. rows \in [1..Len(list) -> Record]
    BY <1>1, <1>4
  <2> QED BY <1>1, <2>1
<1>6. ASSUME NEW k \in 1..c PROVE NewRecord(news[k], now) \in Record
  BY <1>3, NewRecordIs
<1>7. added \in Seq(Record) /\ Len(added) = c
  <2>1. added \in [1..c -> Record]
    BY <1>3, <1>6
  <2> HIDE DEF added
  <2> QED BY <1>3, <2>1
<1>8. Merged(list, found, asked, now) = rows \o added
  BY DEF Merged, SawAt, NewIn
<1>9. \A i \in 1..Len(list) : rows[i] = Row(i)
  BY <1>1
<1>10. \A k \in 1..c : added[k] = NewRecord(found[InOrder(I)[k]], now)
  BY <1>3
<1> PICK old : old = rows
  OBVIOUS
<1> PICK new : new = added
  OBVIOUS
<1> PICK out : out = Merged(list, found, asked, now)
  OBVIOUS
<1> HIDE DEF rows, added
<1>11. /\ out \in Seq(Record) /\ Len(out) = Len(list) + c
       /\ \A i \in 1..Len(list) : out[i] = old[i]
       /\ \A k \in 1..c : out[Len(list) + k] = new[k]
  <2>1. /\ old \in Seq(Record) /\ Len(old) = Len(list)
        /\ new \in Seq(Record) /\ Len(new) = c
        /\ out = old \o new
    BY <1>5, <1>7, <1>8
  <2>2. IsJoin(old \o new, old, new)
    BY <2>1, Joined
  <2> QED BY ONLY <2>1, <2>2 DEF IsJoin
<1>12. ASSUME NEW i \in 1..Len(list) PROVE out[i] = Row(i)
  BY <1>9, <1>11
<1>13. ASSUME NEW k \in 1..c PROVE out[Len(list) + k] = NewRecord(found[InOrder(I)[k]], now)
  BY <1>10, <1>11
<1> QED BY <1>1, <1>3, <1>11, <1>12, <1>13 DEF IsMerged

EntryAt(list, file, i) ==
  {k \in DOMAIN file : Owns(file, k) /\ SamePlace(file[k], list[i].path)}

OnlyIn(list, file) ==
  {k \in DOMAIN file : Owns(file, k) /\ ~Known(list, file[k].path)}

\* `out` is `list` after a profile was merged into it.
IsImported(out, list, file) ==
  LET n == Len(list)
      I == OnlyIn(list, file)
      c == Cardinality(I)
  IN /\ n \in Nat /\ c \in Nat /\ out \in Seq(Record) /\ Len(out) = n + c
     /\ \A i \in 1..n :
          /\ Owns(list, i) /\ EntryAt(list, file, i) # {} =>
               out[i] = Imported(list[i], file[CHOOSE k \in EntryAt(list, file, i) : TRUE])
          /\ ~(Owns(list, i) /\ EntryAt(list, file, i) # {}) => out[i] = list[i]
     /\ \A k \in 1..c : /\ InOrder(I)[k] \in I
                        /\ out[n + k] = Added(file[InOrder(I)[k]])
     /\ \A i \in I : \E k \in 1..c : InOrder(I)[k] = i
     /\ \A k, m \in 1..c : k < m => InOrder(I)[k] < InOrder(I)[m]

LEMMA MergedProfileShape ==
  ASSUME NEW list \in Seq(Record), NEW file \in Seq(Record)
  PROVE  IsImported(MergedProfile(list, file), list, file)
<1> DEFINE Row(i) == IF Owns(list, i) /\ EntryAt(list, file, i) # {}
                       THEN Imported(list[i], file[CHOOSE k \in EntryAt(list, file, i) : TRUE])
                       ELSE list[i]
           rows == [i \in DOMAIN list |-> Row(i)]
<1> PICK I : I = OnlyIn(list, file)
  OBVIOUS
<1> PICK c : c = Cardinality(I)
  OBVIOUS
<1> PICK news : news = Kept(file, I)
  OBVIOUS
<1> DEFINE added == [k \in DOMAIN news |-> Added(news[k])]
<1>1. Len(list) \in Nat /\ DOMAIN list = 1..Len(list)
  OBVIOUS
<1>2. I \in SUBSET DOMAIN file
  BY DEF OnlyIn
<1>3. /\ c \in Nat /\ news \in Seq(Record) /\ Len(news) = c
      /\ \A k \in 1..c : InOrder(I)[k] \in I /\ news[k] = file[InOrder(I)[k]]
      /\ \A i \in I : \E k \in 1..c : InOrder(I)[k] = i
      /\ \A k, m \in 1..c : k < m => InOrder(I)[k] < InOrder(I)[m]
  <2> HIDE DEF rows, added
  <2> QED BY <1>2, KeptProperties
<1>4. ASSUME NEW i \in 1..Len(list) PROVE Row(i) \in Record
  <2>1. list[i] \in Record
    BY <1>1
  <2>2. ASSUME EntryAt(list, file, i) # {}
        PROVE  file[CHOOSE k \in EntryAt(list, file, i) : TRUE] \in Record
    <3>1. (CHOOSE k \in EntryAt(list, file, i) : TRUE) \in EntryAt(list, file, i)
      BY <2>2
    <3>2. EntryAt(list, file, i) \subseteq DOMAIN file
      BY DEF EntryAt
    <3> QED BY <3>1, <3>2
  <2> QED BY <2>1, <2>2, ImportedIs
<1>5. rows \in Seq(Record) /\ Len(rows) = Len(list)
  <2> HIDE DEF Row
  <2>1. rows \in [1..Len(list) -> Record]
    BY <1>1, <1>4
  <2> QED BY <1>1, <2>1
<1>6. ASSUME NEW k \in 1..c PROVE Added(news[k]) \in Record
  BY <1>3, AddedIs
<1>7. added \in Seq(Record) /\ Len(added) = c
  <2>1. added \in [1..c -> Record]
    BY <1>3, <1>6
  <2> HIDE DEF added
  <2> QED BY <1>3, <2>1
<1>8. MergedProfile(list, file) = rows \o added
  BY DEF MergedProfile, EntryAt, OnlyIn
<1>9. \A i \in 1..Len(list) : rows[i] = Row(i)
  BY <1>1
<1>10. \A k \in 1..c : added[k] = Added(file[InOrder(I)[k]])
  BY <1>3
<1> PICK old : old = rows
  OBVIOUS
<1> PICK new : new = added
  OBVIOUS
<1> PICK out : out = MergedProfile(list, file)
  OBVIOUS
<1> HIDE DEF rows, added
<1>11. /\ out \in Seq(Record) /\ Len(out) = Len(list) + c
       /\ \A i \in 1..Len(list) : out[i] = old[i]
       /\ \A k \in 1..c : out[Len(list) + k] = new[k]
  <2>1. /\ old \in Seq(Record) /\ Len(old) = Len(list)
        /\ new \in Seq(Record) /\ Len(new) = c
        /\ out = old \o new
    BY <1>5, <1>7, <1>8
  <2>2. IsJoin(old \o new, old, new)
    BY <2>1, Joined
  <2> QED BY ONLY <2>1, <2>2 DEF IsJoin
<1>12. ASSUME NEW i \in 1..Len(list) PROVE out[i] = Row(i)
  BY <1>9, <1>11
<1>13. ASSUME NEW k \in 1..c PROVE out[Len(list) + k] = Added(file[InOrder(I)[k]])
  BY <1>10, <1>11
<1> QED BY <1>1, <1>3, <1>11, <1>12, <1>13 DEF IsImported

\* What a scan makes of a list: what it observed of the rows that are there, and
\* the rows it found.
Ahead(out, list, scan) ==
  /\ Grown(out, list)
  /\ \A i \in 1..Len(list) :
       /\ out[i].port # list[i].port => out[i].seen = None
       /\ \/ out[i].port = list[i].port /\ out[i].launch = list[i].launch
          \/ \E k \in DOMAIN scan.found :
               /\ SamePlace(out[i], scan.found[k].path)
               /\ Observed(out[i], list[i], scan.found[k], scan.asked)
  /\ \A j \in (Len(list) + 1)..Len(out) :
       \E k \in DOMAIN scan.found :
         /\ SamePlace(out[j], scan.found[k].path)
         /\ out[j].launch = scan.found[k].launch /\ out[j].port = scan.found[k].port

\* The places of what a scan found are each another's.
LEMMA FoundPlaces ==
  ASSUME NEW scan \in Scans
  PROVE  /\ scan.found \in Seq(Found) /\ scan.asked \in BOOLEAN
         /\ \A k, m \in DOMAIN scan.found :
              Place[scan.found[k].path] = Place[scan.found[m].path] => k = m
<1>1. /\ scan \in ScanResult /\ OnePerPath(scan.found)
      /\ \A k \in DOMAIN scan.found : Place[scan.found[k].path] = scan.found[k].path
  BY RescanAssumption
<1>2. ASSUME NEW k \in DOMAIN scan.found, NEW m \in DOMAIN scan.found,
             Place[scan.found[k].path] = Place[scan.found[m].path]
      PROVE  k = m
  BY <1>1, <1>2 DEF OnePerPath
<1> QED BY <1>1, <1>2 DEF ScanResult

LEMMA MergedAhead ==
  ASSUME NEW list \in Seq(Record), NEW scan \in Scans, NEW now \in Nat
  PROVE  LET out == Merged(list, scan.found, scan.asked, now)
         IN out \in Seq(Record) /\ Ahead(out, list, scan)
<1> PICK found : found = scan.found
  OBVIOUS
<1> PICK asked : asked = scan.asked
  OBVIOUS
<1> PICK out : out = Merged(list, found, asked, now)
  OBVIOUS
<1> PICK I : I = NewIn(list, found)
  OBVIOUS
<1> PICK c : c = Cardinality(I)
  OBVIOUS
<1> PICK n : n = Len(list)
  OBVIOUS
<1>1. /\ found \in Seq(Found) /\ asked \in BOOLEAN
      /\ \A k, m \in DOMAIN found : Place[found[k].path] = Place[found[m].path] => k = m
  BY FoundPlaces
<1>2. /\ n \in Nat /\ c \in Nat /\ out \in Seq(Record) /\ Len(out) = n + c
      /\ \A i \in 1..n :
           /\ Owns(list, i) /\ SawAt(list, found, i) # {} =>
                out[i] = Detected(list[i], found[CHOOSE k \in SawAt(list, found, i) : TRUE], asked)
           /\ ~(Owns(list, i) /\ SawAt(list, found, i) # {}) => out[i] = list[i]
      /\ \A k \in 1..c : /\ InOrder(I)[k] \in I
                         /\ out[n + k] = NewRecord(found[InOrder(I)[k]], now)
      /\ \A k, m \in 1..c : k < m => InOrder(I)[k] < InOrder(I)[m]
  <2>1. IsMerged(out, list, found, asked, now)
    BY <1>1, MergedShape
  <2> QED BY <2>1 DEF IsMerged
<1>3. ASSUME NEW i \in 1..n
      PROVE  /\ out[i].path = list[i].path
             /\ out[i].port # list[i].port => out[i].seen = None
             /\ \/ out[i].port = list[i].port /\ out[i].launch = list[i].launch
                \/ \E k \in DOMAIN found : /\ SamePlace(out[i], found[k].path)
                                           /\ Observed(out[i], list[i], found[k], asked)
  <2>1. CASE Owns(list, i) /\ SawAt(list, found, i) # {}
    <3>1. PICK k \in SawAt(list, found, i) : out[i] = Detected(list[i], found[k], asked)
      BY <1>2, <2>1
    <3>2. k \in DOMAIN found /\ SamePlace(list[i], found[k].path)
      BY DEF SawAt
    <3>3. list[i] \in Record /\ found[k] \in Found
      BY <1>1, <3>2
    <3>4. /\ out[i].path = list[i].path /\ Observed(out[i], list[i], found[k], asked)
          /\ out[i].port # list[i].port => out[i].seen = None
      BY <1>1, <3>1, <3>3, DetectedIs
    <3>5. SamePlace(out[i], found[k].path)
      BY <3>2, <3>4 DEF SamePlace
    <3> QED BY <3>2, <3>4, <3>5
  <2>2. CASE ~(Owns(list, i) /\ SawAt(list, found, i) # {})
    <3>1. out[i] = list[i]
      BY <1>2, <2>2
    <3> QED BY <3>1
  <2> QED BY <2>1, <2>2
<1>4. ASSUME NEW j \in (n + 1)..Len(out)
      PROVE  \E k \in DOMAIN found :
               /\ k = InOrder(I)[j - n] /\ k \in I
               /\ out[j].path = found[k].path
               /\ out[j].launch = found[k].launch /\ out[j].port = found[k].port
  <2>1. j - n \in 1..c /\ n + (j - n) = j
    BY <1>2
  <2>2. InOrder(I)[j - n] \in I /\ out[j] = NewRecord(found[InOrder(I)[j - n]], now)
    BY <1>2, <2>1
  <2>3. InOrder(I)[j - n] \in DOMAIN found
    BY <2>2 DEF NewIn
  <2>4. found[InOrder(I)[j - n]] \in Found
    BY <1>1, <2>3
  <2>5. /\ out[j].path = found[InOrder(I)[j - n]].path
        /\ out[j].launch = found[InOrder(I)[j - n]].launch
        /\ out[j].port = found[InOrder(I)[j - n]].port
    BY <1>1, <2>2, <2>4, NewRecordIs
  <2> QED BY <2>2, <2>3, <2>5
<1>5. ASSUME NEW j \in (n + 1)..Len(out), NEW i \in 1..(j - 1)
      PROVE  Place[out[i].path] # Place[out[j].path]
  <2>1. PICK k \in DOMAIN found :
          k = InOrder(I)[j - n] /\ k \in I /\ out[j].path = found[k].path
    BY <1>4
  <2>2. CASE i <= n
    <3>1. i \in 1..n /\ DOMAIN list = 1..n
      BY <1>2, <2>2
    <3>2. out[i].path = list[i].path
      BY <1>3, <3>1
    <3>3. ~SamePlace(list[i], found[k].path)
      BY <2>1, <3>1 DEF NewIn, Known
    <3> QED BY <2>1, <3>2, <3>3 DEF SamePlace
  <2>3. CASE ~(i <= n)
    <3>1. i \in (n + 1)..Len(out) /\ i - n \in 1..c /\ j - n \in 1..c /\ i - n < j - n
      BY <1>2, <2>3
    <3>2. PICK m \in DOMAIN found : m = InOrder(I)[i - n] /\ out[i].path = found[m].path
      BY <1>4, <3>1
    <3>3. m < k
      BY <1>2, <2>1, <3>1, <3>2
    <3>4. k # m
      BY <1>1, <3>3
    <3>5. Place[found[m].path] # Place[found[k].path]
      BY <1>1, <3>4
    <3> QED BY ONLY <2>1, <3>2, <3>5
  <2> QED BY <2>2, <2>3
<1>6. ASSUME NEW j \in (n + 1)..Len(out)
      PROVE  \E k \in DOMAIN found :
               /\ SamePlace(out[j], found[k].path)
               /\ out[j].launch = found[k].launch /\ out[j].port = found[k].port
  BY <1>4 DEF SamePlace
<1>7. Grown(out, list)
  BY <1>2, <1>3, <1>5 DEF Grown
<1>8. Ahead(out, list, scan)
  BY <1>3, <1>6, <1>7 DEF Ahead
<1> QED BY <1>2, <1>8

\* What an import makes of a list: no launcher, no port and nothing that is
\* never imported comes with it.
Restored(out, list) ==
  /\ Grown(out, list)
  /\ \A i \in 1..Len(list) :
       /\ out[i].port = list[i].port /\ out[i].launch = list[i].launch
       /\ out[i].mine = list[i].mine
       /\ out[i].override # list[i].override => out[i].seen = None
       /\ out[i].override = list[i].override => out[i].seen = list[i].seen
  /\ \A j \in (Len(list) + 1)..Len(out) : out[j].port = None /\ out[j].launch = None

LEMMA ImportRestores ==
  ASSUME NEW list \in Seq(Record), NEW file \in Seq(Record)
  PROVE  LET out == MergedProfile(list, file)
         IN out \in Seq(Record) /\ Restored(out, list)
<1> PICK out : out = MergedProfile(list, file)
  OBVIOUS
<1> PICK I : I = OnlyIn(list, file)
  OBVIOUS
<1> PICK c : c = Cardinality(I)
  OBVIOUS
<1> PICK n : n = Len(list)
  OBVIOUS
<1>2. /\ n \in Nat /\ c \in Nat /\ out \in Seq(Record) /\ Len(out) = n + c
      /\ \A i \in 1..n :
           /\ Owns(list, i) /\ EntryAt(list, file, i) # {} =>
                out[i] = Imported(list[i], file[CHOOSE k \in EntryAt(list, file, i) : TRUE])
           /\ ~(Owns(list, i) /\ EntryAt(list, file, i) # {}) => out[i] = list[i]
      /\ \A k \in 1..c : /\ InOrder(I)[k] \in I
                         /\ out[n + k] = Added(file[InOrder(I)[k]])
      /\ \A k, m \in 1..c : k < m => InOrder(I)[k] < InOrder(I)[m]
  <2>1. IsImported(out, list, file)
    BY MergedProfileShape
  <2> QED BY <2>1 DEF IsImported
<1>3. ASSUME NEW i \in 1..n
      PROVE  /\ out[i].path = list[i].path
             /\ out[i].port = list[i].port /\ out[i].launch = list[i].launch
             /\ out[i].mine = list[i].mine
             /\ out[i].override # list[i].override => out[i].seen = None
             /\ out[i].override = list[i].override => out[i].seen = list[i].seen
  <2>1. CASE Owns(list, i) /\ EntryAt(list, file, i) # {}
    <3>1. PICK k \in EntryAt(list, file, i) : out[i] = Imported(list[i], file[k])
      BY <1>2, <2>1
    <3>2. k \in DOMAIN file
      BY DEF EntryAt
    <3>3. list[i] \in Record /\ file[k] \in Record
      BY <3>2
    <3> QED BY <3>1, <3>3, ImportedIs
  <2>2. CASE ~(Owns(list, i) /\ EntryAt(list, file, i) # {})
    <3>1. out[i] = list[i]
      BY <1>2, <2>2
    <3> QED BY <3>1
  <2> QED BY <2>1, <2>2
<1>4. ASSUME NEW j \in (n + 1)..Len(out)
      PROVE  \E k \in DOMAIN file :
               /\ k = InOrder(I)[j - n] /\ k \in I
               /\ out[j].path = file[k].path /\ out[j].launch = None /\ out[j].port = None
  <2>1. j - n \in 1..c /\ n + (j - n) = j
    BY <1>2
  <2>2. InOrder(I)[j - n] \in I /\ out[j] = Added(file[InOrder(I)[j - n]])
    BY <1>2, <2>1
  <2>3. InOrder(I)[j - n] \in DOMAIN file
    BY <2>2 DEF OnlyIn
  <2>4. file[InOrder(I)[j - n]] \in Record
    BY <2>3
  <2>5. /\ out[j].path = file[InOrder(I)[j - n]].path
        /\ out[j].launch = None /\ out[j].port = None
    BY <2>2, <2>4, AddedIs
  <2> QED BY <2>2, <2>3, <2>5
<1>5. ASSUME NEW j \in (n + 1)..Len(out), NEW i \in 1..(j - 1)
      PROVE  Place[out[i].path] # Place[out[j].path]
  <2>1. PICK k \in DOMAIN file :
          k = InOrder(I)[j - n] /\ k \in I /\ out[j].path = file[k].path
    BY <1>4
  <2>2. CASE i <= n
    <3>1. i \in 1..n /\ DOMAIN list = 1..n
      BY <1>2, <2>2
    <3>2. out[i].path = list[i].path
      BY <1>3, <3>1
    <3>3. ~SamePlace(list[i], file[k].path)
      BY <2>1, <3>1 DEF OnlyIn, Known
    <3> QED BY <2>1, <3>2, <3>3 DEF SamePlace
  <2>3. CASE ~(i <= n)
    <3>1. i \in (n + 1)..Len(out) /\ i - n \in 1..c /\ j - n \in 1..c /\ i - n < j - n
      BY <1>2, <2>3
    <3>2. PICK m \in DOMAIN file : m = InOrder(I)[i - n] /\ out[i].path = file[m].path
      BY <1>4, <3>1
    <3>3. m < k
      BY <1>2, <2>1, <3>1, <3>2
    <3>4. m \in 1..(k - 1)
      BY <3>3
    <3>5. ~SamePlace(file[m], file[k].path)
      BY <2>1, <3>4 DEF OnlyIn, Owns
    <3> QED BY <2>1, <3>2, <3>5 DEF SamePlace
  <2> QED BY <2>2, <2>3
<1>7. Grown(out, list)
  BY <1>2, <1>3, <1>5 DEF Grown
<1>8. Restored(out, list)
  BY <1>3, <1>4, <1>7 DEF Restored
<1> QED BY <1>2, <1>8

-----------------------------------------------------------------------------
(* A merge settles                                                         *)

LEMMA SameRows ==
  ASSUME NEW a \in Seq(Record), NEW b \in Seq(Record), Len(a) = Len(b),
         \A i \in 1..Len(a) : a[i] = b[i]
  PROVE  a = b
<1>1. DOMAIN a = 1..Len(a) /\ DOMAIN b = 1..Len(a)
  OBVIOUS
<1>2. a = [i \in 1..Len(a) |-> a[i]] /\ b = [i \in 1..Len(a) |-> b[i]]
  BY <1>1
<1> QED BY <1>2

LEMMA MergedTwice ==
  ASSUME NEW list \in Seq(Record), NEW scan \in Scans, NEW now \in Nat
  PROVE  LET Again(rows) == Merged(rows, scan.found, scan.asked, now)
         IN Again(Again(list)) = Again(list)
<1> PICK found : found = scan.found
  OBVIOUS
<1> PICK asked : asked = scan.asked
  OBVIOUS
<1> PICK out : out = Merged(list, found, asked, now)
  OBVIOUS
<1> PICK twice : twice = Merged(out, found, asked, now)
  OBVIOUS
<1> PICK n : n = Len(list)
  OBVIOUS
<1>1. /\ found \in Seq(Found) /\ asked \in BOOLEAN
      /\ \A k, m \in DOMAIN found : Place[found[k].path] = Place[found[m].path] => k = m
  BY FoundPlaces
<1>2. IsMerged(out, list, found, asked, now)
  BY <1>1, MergedShape
<1>3. out \in Seq(Record)
  BY <1>2 DEF IsMerged
<1>4. IsMerged(twice, out, found, asked, now)
  BY <1>1, <1>3, MergedShape
<1>5. out \in Seq(Record) /\ Ahead(out, list, scan)
  BY MergedAhead
<1>6. n \in Nat /\ Len(out) \in Nat /\ n <= Len(out) /\ DOMAIN out = 1..Len(out)
  BY <1>3, <1>5 DEF Ahead, Grown
<1>7. \A i \in 1..n : out[i].path = list[i].path
  BY <1>5 DEF Ahead, Grown
<1>8. ASSUME NEW j \in (n + 1)..Len(out)
      PROVE  \E k \in NewIn(list, found) : out[j] = NewRecord(found[k], now)
  <2>1. /\ Len(out) = n + Cardinality(NewIn(list, found))
        /\ Cardinality(NewIn(list, found)) \in Nat
        /\ \A k \in 1..Cardinality(NewIn(list, found)) :
             /\ InOrder(NewIn(list, found))[k] \in NewIn(list, found)
             /\ out[n + k] = NewRecord(found[InOrder(NewIn(list, found))[k]], now)
    BY <1>2 DEF IsMerged
  <2>2. j - n \in 1..Cardinality(NewIn(list, found)) /\ n + (j - n) = j
    BY <1>6, <2>1
  <2> QED BY <2>1, <2>2
<1>9. ASSUME NEW k \in NewIn(list, found) PROVE Known(out, found[k].path)
  <2>1. /\ Len(out) = n + Cardinality(NewIn(list, found))
        /\ Cardinality(NewIn(list, found)) \in Nat
        /\ \A m \in 1..Cardinality(NewIn(list, found)) :
             out[n + m] = NewRecord(found[InOrder(NewIn(list, found))[m]], now)
        /\ \E m \in 1..Cardinality(NewIn(list, found)) : InOrder(NewIn(list, found))[m] = k
    BY <1>2 DEF IsMerged
  <2>2. PICK m \in 1..Cardinality(NewIn(list, found)) : out[n + m] = NewRecord(found[k], now)
    BY <2>1
  <2>3. n + m \in DOMAIN out
    BY <1>6, <2>1
  <2>4. found[k] \in Found
    BY <1>1 DEF NewIn
  <2>5. out[n + m].path = found[k].path
    BY <1>1, <2>2, <2>4, NewRecordIs
  <2> QED BY <2>3, <2>5 DEF Known, SamePlace
<1>10. NewIn(out, found) = {}
  <2> SUFFICES ASSUME NEW k \in NewIn(out, found) PROVE FALSE
    OBVIOUS
  <2>1. k \in DOMAIN found /\ found[k].saveable /\ ~Known(out, found[k].path)
    BY DEF NewIn
  <2>2. k \notin NewIn(list, found)
    BY <1>9, <2>1
  <2>3. Known(list, found[k].path)
    BY <2>1, <2>2 DEF NewIn
  <2>4. PICK i \in DOMAIN list : SamePlace(list[i], found[k].path)
    BY <2>3 DEF Known
  <2>5. i \in 1..n
    OBVIOUS
  <2>6. i \in DOMAIN out /\ SamePlace(out[i], found[k].path)
    BY <1>6, <1>7, <2>4, <2>5 DEF SamePlace
  <2> QED BY <2>1, <2>6 DEF Known
<1>11. twice \in Seq(Record) /\ Len(twice) = Len(out)
  <2>1. Cardinality(NewIn(out, found)) = 0
    BY <1>10, FS_EmptySet
  <2>2. twice \in Seq(Record) /\ Len(twice) = Len(out) + Cardinality(NewIn(out, found))
    BY <1>4 DEF IsMerged
  <2> QED BY <1>6, <2>1, <2>2
<1>12. ASSUME NEW i \in 1..Len(out), Owns(out, i), SawAt(out, found, i) # {}
       PROVE  twice[i] = out[i]
  <2>1. PICK k \in SawAt(out, found, i) :
          /\ twice[i] = Detected(out[i], found[k], asked)
          /\ k = CHOOSE m \in SawAt(out, found, i) : TRUE
    BY <1>4, <1>12 DEF IsMerged
  <2>2. k \in DOMAIN found /\ SamePlace(out[i], found[k].path) /\ found[k] \in Found
    BY <1>1 DEF SawAt
  <2>3. CASE i <= n
    <3>1. i \in 1..n /\ list[i] \in Record
      BY <1>6, <2>3
    <3>2. SawAt(list, found, i) = SawAt(out, found, i)
      BY <1>7, <3>1 DEF SawAt, SamePlace
    <3>3. Owns(list, i)
      <4> SUFFICES ASSUME NEW j \in 1..(i - 1) PROVE ~SamePlace(list[j], list[i].path)
        BY DEF Owns
      <4>1. j \in 1..n
        BY <1>6, <3>1
      <4>2. ~SamePlace(out[j], out[i].path)
        BY <1>12 DEF Owns
      <4> QED BY <1>7, <3>1, <4>1, <4>2 DEF SamePlace
    <3>4. out[i] = Detected(list[i], found[k], asked)
      BY <1>2, <1>12, <2>1, <3>1, <3>2, <3>3 DEF IsMerged
    <3> QED BY <1>1, <2>1, <2>2, <3>1, <3>4, DetectedIs
  <2>4. CASE ~(i <= n)
    <3>1. i \in (n + 1)..Len(out)
      BY <1>6, <2>4
    <3>2. PICK m \in NewIn(list, found) : out[i] = NewRecord(found[m], now)
      BY <1>8, <3>1
    <3>3. m \in DOMAIN found /\ found[m] \in Found
      BY <1>1 DEF NewIn
    <3>4. out[i].path = found[m].path
      BY <1>1, <3>2, <3>3, NewRecordIs
    <3>5. k = m
      BY <1>1, <2>2, <3>3, <3>4 DEF SamePlace
    <3>6. Detected(out[i], found[m], asked) = out[i]
      BY <1>1, <3>2, <3>3, NewRecordIs
    <3> QED BY <2>1, <3>5, <3>6
  <2> QED BY <2>3, <2>4
<1>13. ASSUME NEW i \in 1..Len(out) PROVE twice[i] = out[i]
  <2>1. CASE Owns(out, i) /\ SawAt(out, found, i) # {}
    BY <1>12, <2>1
  <2>2. CASE ~(Owns(out, i) /\ SawAt(out, found, i) # {})
    BY <1>4, <2>2 DEF IsMerged
  <2> QED BY <2>1, <2>2
<1>14. twice = out
  BY <1>3, <1>11, <1>13, SameRows
<1> QED BY <1>14

LEMMA ImportedTwice ==
  ASSUME NEW list \in Seq(Record), NEW file \in Seq(Record)
  PROVE  LET Again(rows) == MergedProfile(rows, file)
         IN Again(Again(list)) = Again(list)
<1> PICK out : out = MergedProfile(list, file)
  OBVIOUS
<1> PICK twice : twice = MergedProfile(out, file)
  OBVIOUS
<1> PICK n : n = Len(list)
  OBVIOUS
<1>1. \A k, m \in DOMAIN file :
        Owns(file, k) /\ Owns(file, m) /\ Place[file[k].path] = Place[file[m].path] => k = m
  <2> SUFFICES ASSUME NEW k \in 1..Len(file), NEW m \in 1..Len(file), k < m, Owns(file, m),
                      Place[file[k].path] = Place[file[m].path]
               PROVE  FALSE
    OBVIOUS
  <2>1. k \in 1..(m - 1)
    OBVIOUS
  <2> QED BY <2>1 DEF Owns, SamePlace
<1>2. IsImported(out, list, file)
  BY MergedProfileShape
<1>3. out \in Seq(Record)
  BY <1>2 DEF IsImported
<1>4. IsImported(twice, out, file)
  BY <1>3, MergedProfileShape
<1>5. out \in Seq(Record) /\ Restored(out, list)
  BY ImportRestores
<1>6. n \in Nat /\ Len(out) \in Nat /\ n <= Len(out) /\ DOMAIN out = 1..Len(out)
  BY <1>3, <1>5 DEF Restored, Grown
<1>7. \A i \in 1..n : out[i].path = list[i].path
  BY <1>5 DEF Restored, Grown
<1>8. ASSUME NEW j \in (n + 1)..Len(out)
      PROVE  \E k \in OnlyIn(list, file) : out[j] = Added(file[k])
  <2>1. /\ Len(out) = n + Cardinality(OnlyIn(list, file))
        /\ Cardinality(OnlyIn(list, file)) \in Nat
        /\ \A k \in 1..Cardinality(OnlyIn(list, file)) :
             /\ InOrder(OnlyIn(list, file))[k] \in OnlyIn(list, file)
             /\ out[n + k] = Added(file[InOrder(OnlyIn(list, file))[k]])
    BY <1>2 DEF IsImported
  <2>2. j - n \in 1..Cardinality(OnlyIn(list, file)) /\ n + (j - n) = j
    BY <1>6, <2>1
  <2> QED BY <2>1, <2>2
<1>9. ASSUME NEW k \in OnlyIn(list, file) PROVE Known(out, file[k].path)
  <2>1. /\ Len(out) = n + Cardinality(OnlyIn(list, file))
        /\ Cardinality(OnlyIn(list, file)) \in Nat
        /\ \A m \in 1..Cardinality(OnlyIn(list, file)) :
             out[n + m] = Added(file[InOrder(OnlyIn(list, file))[m]])
        /\ \E m \in 1..Cardinality(OnlyIn(list, file)) : InOrder(OnlyIn(list, file))[m] = k
    BY <1>2 DEF IsImported
  <2>2. PICK m \in 1..Cardinality(OnlyIn(list, file)) : out[n + m] = Added(file[k])
    BY <2>1
  <2>3. n + m \in DOMAIN out
    BY <1>6, <2>1
  <2>4. file[k] \in Record
    BY DEF OnlyIn
  <2>5. out[n + m].path = file[k].path
    BY <2>2, <2>4, AddedIs
  <2> QED BY <2>3, <2>5 DEF Known, SamePlace
<1>10. OnlyIn(out, file) = {}
  <2> SUFFICES ASSUME NEW k \in OnlyIn(out, file) PROVE FALSE
    OBVIOUS
  <2>1. k \in DOMAIN file /\ Owns(file, k) /\ ~Known(out, file[k].path)
    BY DEF OnlyIn
  <2>2. k \notin OnlyIn(list, file)
    BY <1>9, <2>1
  <2>3. Known(list, file[k].path)
    BY <2>1, <2>2 DEF OnlyIn
  <2>4. PICK i \in DOMAIN list : SamePlace(list[i], file[k].path)
    BY <2>3 DEF Known
  <2>5. i \in 1..n
    OBVIOUS
  <2>6. i \in DOMAIN out /\ SamePlace(out[i], file[k].path)
    BY <1>6, <1>7, <2>4, <2>5 DEF SamePlace
  <2> QED BY <2>1, <2>6 DEF Known
<1>11. twice \in Seq(Record) /\ Len(twice) = Len(out)
  <2>1. Cardinality(OnlyIn(out, file)) = 0
    BY <1>10, FS_EmptySet
  <2>2. twice \in Seq(Record) /\ Len(twice) = Len(out) + Cardinality(OnlyIn(out, file))
    BY <1>4 DEF IsImported
  <2> QED BY <1>6, <2>1, <2>2
<1>12. ASSUME NEW i \in 1..Len(out), Owns(out, i), EntryAt(out, file, i) # {}
       PROVE  twice[i] = out[i]
  <2>1. PICK k \in EntryAt(out, file, i) :
          /\ twice[i] = Imported(out[i], file[k])
          /\ k = CHOOSE m \in EntryAt(out, file, i) : TRUE
    BY <1>4, <1>12 DEF IsImported
  <2>2. /\ k \in DOMAIN file /\ Owns(file, k) /\ SamePlace(file[k], out[i].path)
        /\ file[k] \in Record
    BY DEF EntryAt
  <2>3. CASE i <= n
    <3>1. i \in 1..n /\ list[i] \in Record
      BY <1>6, <2>3
    <3>2. EntryAt(list, file, i) = EntryAt(out, file, i)
      BY <1>7, <3>1 DEF EntryAt, SamePlace
    <3>3. Owns(list, i)
      <4> SUFFICES ASSUME NEW j \in 1..(i - 1) PROVE ~SamePlace(list[j], list[i].path)
        BY DEF Owns
      <4>1. j \in 1..n
        BY <1>6, <3>1
      <4>2. ~SamePlace(out[j], out[i].path)
        BY <1>12 DEF Owns
      <4> QED BY <1>7, <3>1, <4>1, <4>2 DEF SamePlace
    <3>4. out[i] = Imported(list[i], file[k])
      BY <1>2, <1>12, <2>1, <3>1, <3>2, <3>3 DEF IsImported
    <3>5. Imported(out[i], file[k]) = out[i]
      BY <2>2, <3>1, <3>4, ImportedIs
    <3> QED BY <2>1, <3>5
  <2>4. CASE ~(i <= n)
    <3>1. i \in (n + 1)..Len(out)
      BY <1>6, <2>4
    <3>2. PICK m \in OnlyIn(list, file) : out[i] = Added(file[m])
      BY <1>8, <3>1
    <3>3. m \in DOMAIN file /\ file[m] \in Record /\ Owns(file, m)
      BY DEF OnlyIn
    <3>4. out[i].path = file[m].path /\ Imported(out[i], file[m]) = out[i]
      BY <3>2, <3>3, AddedIs
    <3>5. k = m
      BY <1>1, <2>2, <3>3, <3>4 DEF SamePlace
    <3> QED BY <2>1, <3>4, <3>5
  <2> QED BY <2>3, <2>4
<1>13. ASSUME NEW i \in 1..Len(out) PROVE twice[i] = out[i]
  <2>1. CASE Owns(out, i) /\ EntryAt(out, file, i) # {}
    BY <1>12, <2>1
  <2>2. CASE ~(Owns(out, i) /\ EntryAt(out, file, i) # {})
    BY <1>4, <2>2 DEF IsImported
  <2> QED BY <2>1, <2>2
<1>14. twice = out
  BY <1>3, <1>11, <1>13, SameRows
<1> QED BY <1>14

\* A list that is exported and imported again is the list.
LEMMA ImportedBack ==
  ASSUME NEW list \in Seq(Record)
  PROVE  MergedProfile(list, list) = list
<1> PICK out : out = MergedProfile(list, list)
  OBVIOUS
<1>1. IsImported(out, list, list)
  BY MergedProfileShape
<1>2. OnlyIn(list, list) = {}
  BY DEF OnlyIn, Known, SamePlace
<1>3. out \in Seq(Record) /\ Len(out) = Len(list)
  <2>1. Cardinality(OnlyIn(list, list)) = 0
    BY <1>2, FS_EmptySet
  <2>2. out \in Seq(Record) /\ Len(out) = Len(list) + Cardinality(OnlyIn(list, list))
    BY <1>1 DEF IsImported
  <2> QED BY <2>1, <2>2
<1>4. ASSUME NEW i \in 1..Len(list) PROVE out[i] = list[i]
  <2>1. CASE Owns(list, i) /\ EntryAt(list, list, i) # {}
    <3>1. PICK k \in EntryAt(list, list, i) : out[i] = Imported(list[i], list[k])
      BY <1>1, <2>1 DEF IsImported
    <3>2. k \in 1..Len(list) /\ Owns(list, k) /\ SamePlace(list[k], list[i].path)
      BY DEF EntryAt
    <3>3. k = i
      <4>1. CASE k < i
        <5>1. k \in 1..(i - 1)
          BY <3>2, <4>1
        <5> QED BY <2>1, <3>2, <5>1 DEF Owns
      <4>2. CASE i < k
        <5>1. i \in 1..(k - 1)
          BY <3>2, <4>2
        <5> QED BY <3>2, <5>1 DEF Owns, SamePlace
      <4> QED BY <3>2, <4>1, <4>2
    <3>4. list[i] \in Record
      OBVIOUS
    <3> QED BY <3>1, <3>3, <3>4, ImportedIs
  <2>2. CASE ~(Owns(list, i) /\ EntryAt(list, list, i) # {})
    BY <1>1, <2>2 DEF IsImported
  <2> QED BY <2>1, <2>2
<1>5. out = list
  BY <1>3, <1>4, SameRows
<1> QED BY <1>5

-----------------------------------------------------------------------------
(* The invariant                                                           *)

\* The same rows, of the same paths, with the same ports and launchers.
Aligned(out, list) ==
  /\ Len(out) = Len(list)
  /\ \A i \in 1..Len(list) :
       /\ out[i].path = list[i].path
       /\ out[i].port = list[i].port /\ out[i].launch = list[i].launch

\* What a scan makes of a list, with the user's half of the list.
Rejoined(out, list, scan) ==
  /\ Ahead(out, list, scan)
  /\ \A i \in 1..Len(list) :
       SameHalf(out[i], list[i]) /\ (out[i].port = list[i].port => out[i].seen = list[i].seen)

\* What is merged is the records as they were: what the user and the polls
\* changed since is in no row's path, declared port or launcher.  The question of
\* the first run is about the records as they are.
RescanOfThese ==
  /\ task.state = "running" => Aligned(task.list, records)
  /\ task.state = "done" => task.scan \in Scans /\ Ahead(task.list, records, task.scan)
  /\ task.state = "asked" =>
       /\ Ahead(task.list, records, task.scan)
       /\ Hazard = {} => load.kind = "missing" /\ Rejoined(task.list, records, task.scan)

\* No row of the file that loaded is missing from the records.
FileWithin ==
  /\ load.kind # "ok" => load.list = <<>>
  /\ Paths(load.list) \subseteq Paths(records)

RecordsInv ==
  /\ OnePerPath(records) /\ RescanOfThese
  /\ Hazard = {} => FileWithin

LEMMA AheadAligned ==
  ASSUME NEW out, NEW old \in Seq(Record), NEW new \in Seq(Record), NEW scan,
         Ahead(out, old, scan), Aligned(new, old)
  PROVE  Ahead(out, new, scan)
<1> PICK n \in Nat : n = Len(old) /\ n = Len(new)
  BY DEF Aligned
<1>1. \A i \in 1..n : /\ new[i].path = old[i].path
                      /\ new[i].port = old[i].port /\ new[i].launch = old[i].launch
  BY DEF Aligned
<1>2. Grown(out, new)
  BY <1>1 DEF Ahead, Grown
<1>3. ASSUME NEW i \in 1..n
      PROVE  /\ out[i].port # new[i].port => out[i].seen = None
             /\ \/ out[i].port = new[i].port /\ out[i].launch = new[i].launch
                \/ \E k \in DOMAIN scan.found :
                     /\ SamePlace(out[i], scan.found[k].path)
                     /\ Observed(out[i], new[i], scan.found[k], scan.asked)
  BY <1>1 DEF Ahead, Observed
<1>4. \A j \in (n + 1)..Len(out) :
        \E k \in DOMAIN scan.found :
          /\ SamePlace(out[j], scan.found[k].path)
          /\ out[j].launch = scan.found[k].launch /\ out[j].port = scan.found[k].port
  BY DEF Ahead
<1> QED BY <1>2, <1>3, <1>4 DEF Ahead

\* Rows that stay keep a list's paths; a row is found again by its path.
LEMMA GrownPaths ==
  ASSUME NEW list \in Seq(Record), NEW out \in Seq(Record), Grown(out, list)
  PROVE  /\ Paths(list) \subseteq Paths(out)
         /\ \A j \in DOMAIN out : out[j].path \notin Paths(list) => j \in (Len(list) + 1)..Len(out)
         /\ \A j \in (Len(list) + 1)..Len(out) : out[j].path \notin Paths(list)
<1>1. /\ DOMAIN list = 1..Len(list) /\ DOMAIN out = 1..Len(out)
      /\ Len(list) \in Nat /\ Len(out) \in Nat /\ Len(list) <= Len(out)
  BY DEF Grown
<1>2. \A i \in 1..Len(list) : i \in 1..Len(out) /\ out[i].path = list[i].path
  BY <1>1 DEF Grown
<1>3. Paths(list) \subseteq Paths(out)
  BY <1>1, <1>2 DEF Paths
<1>4. ASSUME NEW j \in 1..Len(out), out[j].path \notin Paths(list)
      PROVE  j \in (Len(list) + 1)..Len(out)
  <2>1. j \notin 1..Len(list)
    BY <1>1, <1>2, <1>4 DEF Paths
  <2> QED BY <1>1, <2>1
<1>5. ASSUME NEW j \in (Len(list) + 1)..Len(out) PROVE out[j].path \notin Paths(list)
  <2> SUFFICES ASSUME NEW i \in 1..Len(list), out[j].path = list[i].path PROVE FALSE
    BY <1>1 DEF Paths
  <2>1. i \in 1..(j - 1)
    BY <1>1
  <2>2. Place[out[i].path] # Place[out[j].path]
    BY <2>1 DEF Grown
  <2> QED BY <1>2, <2>2
<1> QED BY <1>1, <1>3, <1>4, <1>5

LEMMA CurrentHalves ==
  ASSUME records \in Seq(Record), OnePerPath(records),
         NEW list \in Seq(Record), NEW scan, Ahead(list, records, scan)
  PROVE  /\ WithCurrentUserHalf(list) \in Seq(Record)
         /\ Rejoined(WithCurrentUserHalf(list), records, scan)
<1> PICK out : out = WithCurrentUserHalf(list)
  OBVIOUS
<1> PICK n : n = Len(records)
  OBVIOUS
<1>1. /\ n \in Nat /\ Len(list) \in Nat /\ n <= Len(list)
      /\ DOMAIN records = 1..n /\ DOMAIN list = 1..Len(list)
      /\ \A i \in 1..n : i \in 1..Len(list) /\ list[i].path = records[i].path
  BY DEF Ahead, Grown
<1>2. \A j \in 1..Len(list) : out[j] = Current(list[j])
  BY <1>1 DEF WithCurrentUserHalf
<1>3. ASSUME NEW i \in 1..n PROVE out[i] = CurrentHalf(list[i], records[i])
  <2>1. RecordsAt(list[i].path) = {i}
    BY <1>1 DEF RecordsAt, OnePerPath
  <2>2. (CHOOSE k \in {i} : \A m \in {i} : m <= k) = i
    BY <1>1
  <2>3. Current(list[i]) = CurrentHalf(list[i], records[i])
    BY <2>1, <2>2 DEF Current
  <2> QED BY <1>1, <1>2, <2>3
<1>4. ASSUME NEW j \in (n + 1)..Len(list) PROVE out[j] = list[j]
  <2>1. list[j].path \notin Paths(records)
    BY <1>1, <1>4, GrownPaths DEF Ahead
  <2>2. RecordsAt(list[j].path) = {}
    BY <2>1 DEF RecordsAt, Paths
  <2>3. Current(list[j]) = list[j]
    BY <2>2 DEF Current
  <2>4. j \in 1..Len(list)
    BY <1>1
  <2> QED BY <1>2, <2>3, <2>4
<1>5. ASSUME NEW i \in 1..n
      PROVE  /\ out[i] \in Record /\ out[i].path = list[i].path
             /\ SameHalf(out[i], records[i])
             /\ out[i].port = list[i].port /\ out[i].launch = list[i].launch
             /\ list[i].port = records[i].port => out[i].seen = records[i].seen
             /\ list[i].port # records[i].port => out[i].seen = list[i].seen
  <2>1. list[i] \in Record /\ records[i] \in Record
    BY <1>1
  <2> QED BY <1>3, <2>1, CurrentHalfIs
<1>6. ASSUME NEW j \in 1..Len(list) PROVE out[j] \in Record /\ out[j].path = list[j].path
  <2>1. CASE j \in 1..n
    BY <1>5, <2>1
  <2>2. CASE j \notin 1..n
    <3>1. j \in (n + 1)..Len(list)
      BY <1>1, <2>2
    <3> QED BY <1>1, <1>4, <3>1
  <2> QED BY <2>1, <2>2
<1>7. out \in Seq(Record) /\ Len(out) = Len(list)
  <2>1. out = [j \in 1..Len(list) |-> Current(list[j])]
    BY <1>1 DEF WithCurrentUserHalf
  <2>2. out \in [1..Len(list) -> Record]
    BY <1>2, <1>6, <2>1
  <2> QED BY <1>1, <2>2
<1>8. Grown(out, records)
  <2>1. ASSUME NEW j \in (n + 1)..Len(list), NEW i \in 1..(j - 1)
        PROVE  Place[out[i].path] # Place[out[j].path]
    <3>1. i \in 1..Len(list) /\ j \in 1..Len(list)
      BY <1>1
    <3>2. Place[list[i].path] # Place[list[j].path]
      BY DEF Ahead, Grown
    <3> QED BY <1>6, <3>1, <3>2
  <2> QED BY <1>1, <1>5, <1>7, <2>1 DEF Grown
<1>9. ASSUME NEW i \in 1..n
      PROVE  /\ out[i].port # records[i].port => out[i].seen = None
             /\ \/ out[i].port = records[i].port /\ out[i].launch = records[i].launch
                \/ \E k \in DOMAIN scan.found :
                     /\ SamePlace(out[i], scan.found[k].path)
                     /\ Observed(out[i], records[i], scan.found[k], scan.asked)
  <2>1. /\ list[i].port # records[i].port => list[i].seen = None
        /\ \/ list[i].port = records[i].port /\ list[i].launch = records[i].launch
           \/ \E k \in DOMAIN scan.found :
                /\ SamePlace(list[i], scan.found[k].path)
                /\ Observed(list[i], records[i], scan.found[k], scan.asked)
    BY DEF Ahead
  <2> QED BY <1>5, <2>1 DEF SamePlace, Observed
<1>10. ASSUME NEW j \in (n + 1)..Len(list)
       PROVE  \E k \in DOMAIN scan.found :
                /\ SamePlace(out[j], scan.found[k].path)
                /\ out[j].launch = scan.found[k].launch /\ out[j].port = scan.found[k].port
  BY <1>4 DEF Ahead
<1>11. Ahead(out, records, scan)
  BY <1>7, <1>8, <1>9, <1>10 DEF Ahead
<1>12. ASSUME NEW i \in 1..n
       PROVE  /\ SameHalf(out[i], records[i])
              /\ out[i].port = records[i].port => out[i].seen = records[i].seen
  BY <1>5
<1> QED BY <1>7, <1>11, <1>12 DEF Rejoined

LEMMA AlignedGrown ==
  ASSUME NEW list \in Seq(Record), NEW out \in Seq(Record), Aligned(out, list)
  PROVE  Grown(out, list)
<1>1. Len(list) \in Nat /\ Len(out) = Len(list) /\ (Len(list) + 1)..Len(out) = {}
  BY DEF Aligned
<1> QED BY <1>1 DEF Aligned, Grown

LEMMA WrittenTyped ==
  ASSUME load \in Loads, NEW list \in Seq(Record), Written(list)
  PROVE  records' \in Seq(Record) /\ load' \in Loads
BY DEF Written, Loads

\* A row of a list is replaced by one of the same path, ports declared and launcher.
LEMMA Replaced ==
  ASSUME NEW list \in Seq(Record), NEW out,
         DOMAIN out = DOMAIN list, out = [i \in DOMAIN list |-> out[i]],
         \A i \in DOMAIN list :
           /\ out[i] \in Record /\ out[i].path = list[i].path
           /\ out[i].port = list[i].port /\ out[i].launch = list[i].launch
  PROVE  out \in Seq(Record) /\ Aligned(out, list)
<1>1. Len(list) \in Nat /\ DOMAIN list = 1..Len(list)
  OBVIOUS
<1>2. out \in [1..Len(list) -> Record]
  BY <1>1
<1>3. out \in Seq(Record) /\ Len(out) = Len(list)
  BY <1>1, <1>2
<1> QED BY <1>1, <1>3 DEF Aligned

\* What an edit makes of the records.
Edited(out) ==
  /\ out \in Seq(Record) /\ Aligned(out, records)
  /\ \A i \in 1..Len(records) :
       /\ out[i].added = records[i].added
       /\ out[i].override # records[i].override => out[i].seen = None
       /\ out[i].override = records[i].override => out[i].seen = records[i].seen

LEMMA EditIs ==
  ASSUME TypeOK, UserEdits
  PROVE  \E list : Written(list) /\ Edited(list)
<1>1. records \in Seq(Record) /\ Len(records) \in Nat /\ DOMAIN records = 1..Len(records)
  BY DEF TypeOK
<1>2. ASSUME NEW p, NEW c \in Choice, ChangeChoice(p, c) PROVE \E list : Written(list) /\ Edited(list)
  <2>1. PICK list : list = [i \in DOMAIN records |->
                IF records[i].path = p THEN [records[i] EXCEPT !.choice = c]
                ELSE records[i]]
    OBVIOUS
  <2>2. Written(list)
    BY <1>2, <2>1 DEF ChangeChoice
  <2>3. ASSUME NEW i \in DOMAIN records
        PROVE  /\ list[i] \in Record /\ list[i].path = records[i].path
               /\ list[i].port = records[i].port /\ list[i].launch = records[i].launch
               /\ list[i].added = records[i].added
               /\ list[i].override = records[i].override /\ list[i].seen = records[i].seen
    <3>1. records[i] \in Record
      BY <1>1
    <3>2. \A r \in Record : LET d == [r EXCEPT !.choice = c]
                            IN /\ d \in Record /\ d.path = r.path
                               /\ d.port = r.port /\ d.launch = r.launch
                               /\ d.added = r.added
                               /\ d.override = r.override /\ d.seen = r.seen
      BY DEF Record
    <3>3. list[i] = records[i] \/ list[i] = [records[i] EXCEPT !.choice = c]
      BY <2>1
    <3> QED BY <3>1, <3>2, <3>3
  <2>4. list \in Seq(Record) /\ Aligned(list, records)
    BY <1>1, <2>1, <2>3, Replaced
  <2> QED BY <1>1, <2>2, <2>3, <2>4 DEF Edited
<1>3. ASSUME NEW p, NEW m \in Mine, ChangeMine(p, m) PROVE \E list : Written(list) /\ Edited(list)
  <2>1. PICK list : list = [i \in DOMAIN records |->
                IF records[i].path = p THEN [records[i] EXCEPT !.mine = m]
                ELSE records[i]]
    OBVIOUS
  <2>2. Written(list)
    BY <1>3, <2>1 DEF ChangeMine
  <2>3. ASSUME NEW i \in DOMAIN records
        PROVE  /\ list[i] \in Record /\ list[i].path = records[i].path
               /\ list[i].port = records[i].port /\ list[i].launch = records[i].launch
               /\ list[i].added = records[i].added
               /\ list[i].override = records[i].override /\ list[i].seen = records[i].seen
    <3>1. records[i] \in Record
      BY <1>1
    <3>2. \A r \in Record : LET d == [r EXCEPT !.mine = m]
                            IN /\ d \in Record /\ d.path = r.path
                               /\ d.port = r.port /\ d.launch = r.launch
                               /\ d.added = r.added
                               /\ d.override = r.override /\ d.seen = r.seen
      BY DEF Record
    <3>3. list[i] = records[i] \/ list[i] = [records[i] EXCEPT !.mine = m]
      BY <2>1
    <3> QED BY <3>1, <3>2, <3>3
  <2>4. list \in Seq(Record) /\ Aligned(list, records)
    BY <1>1, <2>1, <2>3, Replaced
  <2> QED BY <1>1, <2>2, <2>3, <2>4 DEF Edited
<1>4. ASSUME NEW p, NEW port \in Port \cup {None}, ChangePort(p, port)
      PROVE  \E list : Written(list) /\ Edited(list)
  <2>1. PICK list : list = [i \in DOMAIN records |->
                IF records[i].path = p THEN WithPortOverride(records[i], port)
                ELSE records[i]]
    OBVIOUS
  <2>2. Written(list)
    BY <1>4, <2>1 DEF ChangePort
  <2>3. ASSUME NEW i \in DOMAIN records
        PROVE  /\ list[i] \in Record /\ list[i].path = records[i].path
               /\ list[i].port = records[i].port /\ list[i].launch = records[i].launch
               /\ list[i].added = records[i].added
               /\ list[i].override # records[i].override => list[i].seen = None
               /\ list[i].override = records[i].override => list[i].seen = records[i].seen
    <3>1. records[i] \in Record
      BY <1>1
    <3>2. list[i] = records[i] \/ list[i] = WithPortOverride(records[i], port)
      BY <2>1
    <3> QED BY <3>1, <3>2, OverrideIs
  <2>4. list \in Seq(Record) /\ Aligned(list, records)
    BY <1>1, <2>1, <2>3, Replaced
  <2> QED BY <1>1, <2>2, <2>3, <2>4 DEF Edited
<1> QED BY <1>2, <1>3, <1>4 DEF UserEdits

\* A sighting replaces nothing but the sighting.
LEMMA ConfirmIs ==
  ASSUME TypeOK, NEW i \in DOMAIN records, NEW port \in Port, Confirm(i, port)
  PROVE  \E list : /\ Written(list) /\ list \in Seq(Record) /\ Aligned(list, records)
                   /\ \A k \in 1..Len(records) : SameHalf(list[k], records[k])
<1>1. records \in Seq(Record) /\ Len(records) \in Nat /\ DOMAIN records = 1..Len(records)
  BY DEF TypeOK
<1>2. PICK list : list = [records EXCEPT ![i].seen = port]
  OBVIOUS
<1>3. Written(list)
  BY <1>2 DEF Confirm
<1>4. ASSUME NEW k \in DOMAIN records
      PROVE  /\ list[k] \in Record /\ list[k].path = records[k].path
             /\ list[k].port = records[k].port /\ list[k].launch = records[k].launch
             /\ SameHalf(list[k], records[k])
  <2>1. records[k] \in Record
    BY <1>1
  <2>2. \A r \in Record : LET d == [r EXCEPT !.seen = port]
                          IN /\ d \in Record /\ d.path = r.path
                             /\ d.port = r.port /\ d.launch = r.launch
                             /\ SameHalf(d, r)
    BY DEF Record, SameHalf
  <2>3. list[k] = records[k] \/ list[k] = [records[k] EXCEPT !.seen = port]
    BY <1>1, <1>2
  <2>4. SameHalf(records[k], records[k])
    BY DEF SameHalf
  <2> QED BY <2>1, <2>2, <2>3, <2>4
<1>5. DOMAIN list = DOMAIN records /\ list = [k \in DOMAIN records |-> list[k]]
  BY <1>1, <1>2
<1>6. list \in Seq(Record) /\ Aligned(list, records)
  BY <1>1, <1>4, <1>5, Replaced
<1> QED BY <1>1, <1>3, <1>4, <1>6

-----------------------------------------------------------------------------
(* Types                                                                   *)

Tasks == [state : {"idle", "running", "done", "failed", "asked"},
          scan : ScanResult, list : Seq(Record)]

LEMMA IdleTyped == Idle \in Tasks
BY DEF Idle, NoScan, ScanResult, Tasks

LEMMA TypeInit == Init => TypeOK
<1> SUFFICES ASSUME Init PROVE TypeOK
  OBVIOUS
<1>1. load \in Loads /\ records \in Seq(Record) /\ profile \in Seq(Record)
  BY RescanAssumption DEF Init, Loads
<1>2. task \in Tasks
  BY IdleTyped DEF Init
<1>3. scans \in 0..MaxScans /\ steps \in 0..MaxSteps
  BY RescanAssumption DEF Init
<1>4. stopped \in BOOLEAN /\ agreed \in BOOLEAN
  BY DEF Init
<1> QED BY <1>1, <1>2, <1>3, <1>4 DEF TypeOK, Tasks

\* What the dialog saves is a list of the rows ticked.
LEMMA TickedTyped ==
  ASSUME NEW list \in Seq(Record), NEW paths PROVE Ticked(list, paths) \in Seq(Record)
<1> PICK I : I = {i \in DOMAIN list : list[i].path \in paths}
  OBVIOUS
<1>1. I \in SUBSET DOMAIN list
  OBVIOUS
<1>2. Kept(list, I) \in Seq(Record)
  BY <1>1, KeptProperties
<1> QED BY <1>2 DEF Ticked

LEMMA TypeStep == ASSUME TypeOK, RecordsInv, [Next]_vars PROVE TypeOK'
<1>0. /\ records \in Seq(Record) /\ load \in Loads /\ task \in Tasks
      /\ stopped \in BOOLEAN /\ agreed \in BOOLEAN /\ profile \in Seq(Record)
      /\ scans \in 0..MaxScans /\ steps \in 0..MaxSteps
      /\ MaxScans \in Nat /\ MaxSteps \in Nat
  BY RescanAssumption DEF TypeOK, Tasks
<1>00. (/\ records' \in Seq(Record) /\ load' \in Loads /\ task' \in Tasks
       /\ stopped' \in BOOLEAN /\ agreed' \in BOOLEAN /\ profile' \in Seq(Record)
       /\ scans' \in 0..MaxScans /\ steps' \in 0..MaxSteps) => TypeOK'
  BY DEF TypeOK, Tasks
<1>1. CASE StartRescan
  <2>1. task' \in Tasks
    BY <1>0, <1>1, IdleTyped DEF StartRescan, Tasks
  <2>2. scans' \in 0..MaxScans
    BY <1>0, <1>1 DEF StartRescan
  <2> QED BY <1>0, <1>00, <1>1, <2>1, <2>2 DEF StartRescan
<1>2. ASSUME NEW s \in Scans, ScanEnds(s) PROVE TypeOK'
  <2>1. s \in ScanResult /\ task.list \in Seq(Record) /\ Now \in Nat
    BY <1>0, RescanAssumption DEF Tasks, Now
  <2>2. Merged(task.list, s.found, s.asked, Now) \in Seq(Record)
    BY <2>1, MergedAhead
  <2>3. task' \in Tasks
    BY <1>2, <2>1, <2>2 DEF ScanEnds, Tasks
  <2> QED BY <1>0, <1>00, <1>2, <2>3 DEF ScanEnds
<1>3. CASE ScanFails
  <2>1. task' \in Tasks
    BY <1>3, IdleTyped DEF ScanFails, Tasks
  <2> QED BY <1>0, <1>00, <1>3, <2>1 DEF ScanFails
<1>4. CASE RescanFailed
  BY <1>0, <1>00, <1>4, IdleTyped DEF RescanFailed
<1>5. CASE RescanDone
  <2>1. PICK list : list = WithCurrentUserHalf(task.list)
    OBVIOUS
  <2>2. list \in Seq(Record)
    <3>1. task.list \in Seq(Record) /\ Ahead(task.list, records, task.scan)
      BY <1>0, <1>5 DEF RescanDone, RecordsInv, RescanOfThese, Tasks
    <3> QED BY <1>0, <2>1, <3>1, CurrentHalves DEF RecordsInv
  <2>3. CASE /\ task' = [task EXCEPT !.state = "asked", !.list = list]
             /\ UNCHANGED <<records, load>>
    <3>1. task' \in Tasks
      BY <1>0, <2>2, <2>3 DEF Tasks
    <3> QED BY <1>0, <1>00, <1>5, <2>3, <3>1 DEF RescanDone
  <2>4. CASE Written(list) /\ task' = Idle
    BY <1>0, <1>00, <1>5, <2>2, <2>4, IdleTyped, WrittenTyped DEF RescanDone
  <2>5. CASE task' = Idle /\ UNCHANGED <<records, load>>
    BY <1>0, <1>00, <1>5, <2>5, IdleTyped DEF RescanDone
  <2> QED BY <1>5, <2>1, <2>3, <2>4, <2>5 DEF RescanDone
<1>6. CASE DialogNotNow
  BY <1>0, <1>00, <1>6, IdleTyped DEF DialogNotNow
<1>7. ASSUME NEW paths, DialogSave(paths) PROVE TypeOK'
  <2>1. CASE stopped
    BY <1>0, <1>00, <1>7, <2>1, IdleTyped DEF DialogSave
  <2>2. CASE ~stopped
    <3> PICK list : list = Ticked(task.list, paths)
      OBVIOUS
    <3>1. list \in Seq(Record)
      BY <1>0, TickedTyped DEF Tasks
    <3>2. Written(list) /\ agreed' = TRUE /\ task' = Idle /\ UNCHANGED <<stopped, profile, scans, steps>>
      BY <1>7, <2>2 DEF DialogSave
    <3> QED BY <1>0, <1>00, <3>1, <3>2, IdleTyped, WrittenTyped
  <2> QED BY <2>1, <2>2
<1>8. CASE UserEdits
  <2>1. PICK list : Written(list) /\ Edited(list)
    BY <1>8, EditIs
  <2>2. records' \in Seq(Record) /\ load' \in Loads
    BY <1>0, <2>1, WrittenTyped DEF Edited
  <2>3. Acts /\ UNCHANGED <<profile, agreed>>
    BY <1>8 DEF UserEdits, ChangeChoice, ChangeMine, ChangePort
  <2> QED BY <1>0, <1>00, <2>2, <2>3 DEF Acts
<1>9. CASE Export
  BY <1>0, <1>00, <1>9 DEF Export, Acts
<1>10. CASE Import
  <2> PICK list : list = MergedProfile(records, profile)
    OBVIOUS
  <2>1. list \in Seq(Record)
    BY <1>0, ImportRestores
  <2>2. Written(list) /\ Acts /\ agreed' = TRUE /\ UNCHANGED profile
    BY <1>10 DEF Import
  <2>3. records' \in Seq(Record) /\ load' \in Loads
    BY <1>0, <2>1, <2>2, WrittenTyped
  <2> QED BY <1>0, <1>00, <2>2, <2>3 DEF Acts
<1>11. CASE Polls
  <2>1. PICK i \in DOMAIN records, port \in Port : Confirm(i, port)
    BY <1>11 DEF Polls
  <2>2. PICK list : Written(list) /\ list \in Seq(Record)
    BY <2>1, ConfirmIs
  <2>3. records' \in Seq(Record) /\ load' \in Loads
    BY <1>0, <2>2, WrittenTyped
  <2> QED BY <1>0, <1>00, <2>1, <2>3 DEF Confirm, Acts
<1>12. CASE Shutdown
  BY <1>0, <1>00, <1>12 DEF Shutdown
<1>13. CASE UNCHANGED vars
  BY <1>0, <1>00, <1>13 DEF vars
<1> QED
  BY <1>1, <1>2, <1>3, <1>4, <1>5, <1>6, <1>7, <1>8, <1>9, <1>10, <1>11, <1>12, <1>13
     DEF Next, Worker, Slot, Dialog

-----------------------------------------------------------------------------
(* The invariant, step by step                                             *)

LEMMA RecordsInit == Init => RecordsInv
<1> SUFFICES ASSUME Init PROVE RecordsInv
  OBVIOUS
<1>1. OnePerPath(records) /\ FileWithin
  BY RescanAssumption DEF Init, FileWithin
<1>2. task.state = "idle"
  BY DEF Init, Idle
<1> QED BY <1>1, <1>2 DEF RecordsInv, RescanOfThese

\* What is written with every row there was keeps every row of the file.
LEMMA WrittenGrown ==
  ASSUME TypeOK, OnePerPath(records),
         NEW list \in Seq(Record), Written(list), Grown(list, records)
  PROVE  /\ records' = list /\ OnePerPath(records')
         /\ Paths(records) \subseteq Paths(records')
         /\ FileWithin => FileWithin' /\ Paths(load.list) \subseteq Paths(load'.list)
         /\ \A j \in DOMAIN records' :
              records'[j].path \notin Paths(records) =>
                \A i \in 1..(j - 1) : Place[records'[i].path] # Place[records'[j].path]
<1>1. records \in Seq(Record) /\ records' = list
  BY DEF TypeOK, Written
<1>2. OnePerPath(list)
  BY <1>1, GrownOnePerPath
<1>3. Paths(records) \subseteq Paths(list)
  BY <1>1, GrownPaths
<1>4. load' = load \/ load' = [kind |-> "ok", list |-> list]
  BY DEF Written
<1>5. ASSUME FileWithin PROVE FileWithin' /\ Paths(load.list) \subseteq Paths(load'.list)
  <2>1. Paths(load.list) \subseteq Paths(list)
    BY <1>3, <1>5 DEF FileWithin
  <2>2. Paths(load'.list) \subseteq Paths(records') /\ Paths(load.list) \subseteq Paths(load'.list)
    BY <1>1, <1>4, <2>1
  <2>3. load'.kind # "ok" => load'.list = <<>>
    BY <1>4, <1>5 DEF FileWithin
  <2> QED BY <2>2, <2>3 DEF FileWithin
<1>9. ASSUME NEW j \in DOMAIN list, list[j].path \notin Paths(records), NEW i \in 1..(j - 1)
      PROVE  Place[list[i].path] # Place[list[j].path]
  <2>1. j \in (Len(records) + 1)..Len(list)
    BY <1>1, <1>9, GrownPaths
  <2> QED BY <2>1 DEF Grown
<1> QED BY <1>1, <1>2, <1>3, <1>5, <1>9

LEMMA AlignedKeeps ==
  ASSUME TypeOK, RescanOfThese, task.state = "asked" => Hazard # {}, task' = task,
         records' \in Seq(Record), Aligned(records', records)
  PROVE  RescanOfThese'
<1>1. CASE task.state = "running"
  <2>1. Aligned(task.list, records)
    BY <1>1 DEF RescanOfThese
  <2>2. Aligned(task'.list, records')
    BY <2>1 DEF Aligned
  <2> QED BY <1>1, <2>2 DEF RescanOfThese
<1>2. CASE task.state = "done"
  <2>1. Ahead(task.list, records, task.scan) /\ task.scan \in Scans /\ records \in Seq(Record)
    BY <1>2 DEF RescanOfThese, TypeOK
  <2>2. Ahead(task.list, records', task.scan)
    BY <2>1, AheadAligned
  <2> QED BY <1>2, <2>1, <2>2 DEF RescanOfThese
<1>3. CASE task.state = "asked"
  <2>1. Ahead(task.list, records, task.scan) /\ records \in Seq(Record)
    BY <1>3 DEF RescanOfThese, TypeOK
  <2>2. Ahead(task.list, records', task.scan)
    BY <2>1, AheadAligned
  <2> QED BY <1>3, <2>2 DEF RescanOfThese
<1>4. CASE task.state \notin {"running", "done", "asked"}
  BY <1>4 DEF RescanOfThese
<1> QED BY <1>1, <1>2, <1>3, <1>4

\* What is kept of a list, in its order: by the place each row had in it.
Selected(out, list, at) ==
  /\ out \in Seq(Record)
  /\ \A j \in 1..Len(out) : at[j] \in 1..Len(list) /\ out[j] = list[at[j]]
  /\ \A j, k \in 1..Len(out) : j < k => at[j] < at[k]

LEMMA TickedSelects ==
  ASSUME NEW list \in Seq(Record), NEW paths
  PROVE  \E at : Selected(Ticked(list, paths), list, at)
<1> PICK I : I = {i \in DOMAIN list : list[i].path \in paths}
  OBVIOUS
<1> PICK out : out = Kept(list, I)
  OBVIOUS
<1>1. I \in SUBSET DOMAIN list /\ DOMAIN list = 1..Len(list)
  OBVIOUS
<1>2. /\ out \in Seq(Record) /\ Len(out) = Cardinality(I)
      /\ \A k \in 1..Cardinality(I) : InOrder(I)[k] \in I /\ out[k] = list[InOrder(I)[k]]
      /\ \A k, m \in 1..Cardinality(I) : k < m => InOrder(I)[k] < InOrder(I)[m]
  <2>1. LET c == Cardinality(I)
        IN /\ c \in Nat
           /\ Kept(list, I) \in Seq(Record) /\ Len(Kept(list, I)) = c
           /\ \A k \in 1..c : InOrder(I)[k] \in I /\ Kept(list, I)[k] = list[InOrder(I)[k]]
           /\ \A i \in I : \E k \in 1..c : InOrder(I)[k] = i
           /\ \A k, m \in 1..c : k < m => InOrder(I)[k] < InOrder(I)[m]
    BY ONLY <1>1, list \in Seq(Record), KeptProperties
  <2> QED BY <2>1
<1>3. Selected(out, list, InOrder(I))
  BY <1>1, <1>2 DEF Selected
<1> QED BY <1>3 DEF Ticked

LEMMA AllSelected ==
  ASSUME NEW list \in Seq(Record)
  PROVE  \E at : Selected(list, list, at)
<1>1. Selected(list, list, [k \in 1..Len(list) |-> k])
  BY DEF Selected
<1> QED BY <1>1

\* What is selected of a list names no path twice, and no place that a row it
\* selected before has.
LEMMA SelectedOnePerPath ==
  ASSUME NEW list \in Seq(Record), OnePerPath(list), NEW out, NEW at, Selected(out, list, at)
  PROVE  OnePerPath(out)
<1> SUFFICES ASSUME NEW i \in 1..Len(out), NEW j \in 1..Len(out), i < j,
                    out[i].path = out[j].path
             PROVE  FALSE
  <2>1. DOMAIN out = 1..Len(out) /\ Len(out) \in Nat
    BY DEF Selected
  <2> QED BY <2>1 DEF OnePerPath
<1>1. /\ at[i] \in 1..Len(list) /\ at[j] \in 1..Len(list) /\ at[i] < at[j]
      /\ out[i] = list[at[i]] /\ out[j] = list[at[j]]
  BY DEF Selected
<1>2. at[i] = at[j]
  BY <1>1 DEF OnePerPath
<1> QED BY <1>1, <1>2

LEMMA SelectedNew ==
  ASSUME NEW list \in Seq(Record), NEW old \in Seq(Record), Grown(list, old),
         NEW out, NEW at, Selected(out, list, at),
         NEW j \in DOMAIN out, out[j].path \notin Paths(old), NEW i \in 1..(j - 1)
  PROVE  Place[out[i].path] # Place[out[j].path]
<1>1. i \in 1..Len(out) /\ j \in 1..Len(out) /\ i < j
  BY DEF Selected
<1>2. /\ at[i] \in 1..Len(list) /\ at[j] \in 1..Len(list) /\ at[i] < at[j]
      /\ out[i] = list[at[i]] /\ out[j] = list[at[j]]
  BY <1>1 DEF Selected
<1>3. at[j] \in (Len(old) + 1)..Len(list) /\ at[i] \in 1..(at[j] - 1)
  BY <1>2, GrownPaths
<1> QED BY <1>2, <1>3 DEF Grown

LEMMA RecordsStep ==
  ASSUME TypeOK, RecordsInv, [Next]_vars
  PROVE  RecordsInv'
<1>0. /\ records \in Seq(Record) /\ load \in Loads /\ task \in Tasks
      /\ OnePerPath(records) /\ RescanOfThese /\ (Hazard = {} => FileWithin)
      /\ records' \in Seq(Record)
  <2>1. TypeOK'
    BY TypeStep
  <2> QED BY <2>1 DEF TypeOK, Tasks, RecordsInv
<1>00. UNCHANGED <<records, load>> => OnePerPath(records') /\ (Hazard = {} => FileWithin')
  BY <1>0 DEF FileWithin
<1>000. /\ OnePerPath(records') /\ RescanOfThese'
        /\ Hazard = {} => FileWithin'
        => RecordsInv'
  BY DEF RecordsInv
<1>1. CASE StartRescan
  <2>1. Aligned(records, records)
    BY DEF Aligned
  <2>2. task'.state = "running" /\ task'.list = records /\ records' = records
    BY <1>1 DEF StartRescan, Idle
  <2>3. RescanOfThese'
    BY <2>1, <2>2 DEF RescanOfThese
  <2> QED BY <1>00, <1>000, <1>1, <2>3 DEF StartRescan
<1>2. ASSUME NEW s \in Scans, ScanEnds(s) PROVE RecordsInv'
  <2>1. task.list \in Seq(Record) /\ Now \in Nat /\ Aligned(task.list, records)
    <3>1. scans \in 0..MaxScans /\ MaxScans \in Nat
      BY RescanAssumption DEF TypeOK
    <3> QED BY <1>0, <1>2, <3>1 DEF Tasks, Now, ScanEnds, RescanOfThese
  <2>2. Aligned(records, task.list)
    BY <2>1 DEF Aligned
  <2>3. PICK list : list = Merged(task.list, s.found, s.asked, Now)
    OBVIOUS
  <2>4. Ahead(list, task.list, s)
    BY <2>1, <2>3, MergedAhead
  <2>5. Ahead(list, records, s)
    BY <1>0, <2>1, <2>2, <2>4, AheadAligned
  <2>6. /\ task'.state = "done" /\ task'.scan = s /\ task'.list = list
        /\ UNCHANGED <<records, load>>
    BY <1>2, <2>3 DEF ScanEnds
  <2>7. RescanOfThese'
    BY <2>5, <2>6 DEF RescanOfThese
  <2> QED BY <1>00, <1>000, <2>6, <2>7
<1>3. CASE ScanFails
  <2>1. RescanOfThese'
    BY <1>3 DEF ScanFails, RescanOfThese, Idle
  <2> QED BY <1>00, <1>000, <1>3, <2>1 DEF ScanFails
<1>4. CASE RescanFailed
  <2>1. RescanOfThese'
    BY <1>4 DEF RescanFailed, RescanOfThese, Idle
  <2> QED BY <1>00, <1>000, <1>4, <2>1 DEF RescanFailed
<1>5. CASE RescanDone
  <2>1. PICK list : list = WithCurrentUserHalf(task.list)
    OBVIOUS
  <2>2. list \in Seq(Record) /\ Rejoined(list, records, task.scan)
    <3>1. task.list \in Seq(Record) /\ Ahead(task.list, records, task.scan)
      BY <1>0, <1>5 DEF RescanDone, RescanOfThese, Tasks
    <3> QED BY <1>0, <2>1, <3>1, CurrentHalves
  <2>3. task' = Idle => RescanOfThese'
    BY DEF RescanOfThese, Idle
  <2>4. CASE /\ FirstRun /\ task' = [task EXCEPT !.state = "asked", !.list = list]
             /\ UNCHANGED <<records, load>>
    <3>1. /\ task'.state = "asked" /\ task'.list = list /\ task'.scan = task.scan
          /\ load'.kind = "missing"
      BY <1>0, <2>4 DEF Tasks, FirstRun
    <3>2. RescanOfThese'
      BY <2>2, <2>4, <3>1 DEF RescanOfThese, Rejoined
    <3> QED BY <1>00, <1>000, <2>4, <3>2
  <2>5. CASE Written(list) /\ task' = Idle
    <3>1. Grown(list, records)
      BY <2>2 DEF Rejoined, Ahead
    <3>2. OnePerPath(records') /\ (Hazard = {} => FileWithin')
      BY <1>0, <2>2, <2>5, <3>1, WrittenGrown
    <3> QED BY <1>000, <2>3, <2>5, <3>2
  <2>6. CASE task' = Idle /\ UNCHANGED <<records, load>>
    BY <1>00, <1>000, <2>3, <2>6
  <2> QED BY <1>5, <2>1, <2>4, <2>5, <2>6 DEF RescanDone
<1>6. CASE DialogNotNow
  <2>1. RescanOfThese'
    BY <1>6 DEF DialogNotNow, RescanOfThese, Idle
  <2> QED BY <1>00, <1>000, <1>6, <2>1 DEF DialogNotNow
<1>7. ASSUME NEW paths, DialogSave(paths) PROVE RecordsInv'
  <2>1. RescanOfThese'
    BY <1>7 DEF DialogSave, RescanOfThese, Idle
  <2>2. CASE stopped
    BY <1>00, <1>000, <1>7, <2>1, <2>2 DEF DialogSave
  <2>3. CASE ~stopped
    <3> PICK list \in Seq(Record) : list = task.list
      BY <1>0 DEF Tasks
    <3> PICK out : out = Ticked(list, paths)
      OBVIOUS
    <3>1. /\ Written(out) /\ Grown(list, records)
          /\ Hazard = {} => load.kind = "missing"
      BY <1>0, <1>7, <2>3 DEF DialogSave, RescanOfThese, Ahead
    <3>2. OnePerPath(out)
      <4>1. OnePerPath(list)
        BY <1>0, <3>1, GrownOnePerPath
      <4>2. PICK at : Selected(out, list, at)
        BY TickedSelects
      <4> QED BY <4>1, <4>2, SelectedOnePerPath
    <3>3. records' = out /\ (load' = load \/ load' = [kind |-> "ok", list |-> out])
      BY <3>1 DEF Written
    <3>4. ASSUME Hazard = {} PROVE FileWithin'
      <4>1. load.list = <<>> /\ Paths(<<>>) = {}
        BY <1>0, <3>1, <3>4 DEF FileWithin, Paths
      <4> QED BY <3>1, <3>3, <3>4, <4>1 DEF FileWithin
    <3> QED BY <1>000, <2>1, <3>2, <3>3, <3>4
  <2> QED BY <2>2, <2>3
<1>8. CASE UserEdits
  <2>1. PICK list : Written(list) /\ Edited(list)
    BY <1>8, EditIs
  <2>2. list \in Seq(Record) /\ Aligned(list, records) /\ Grown(list, records)
    BY <1>0, <2>1, AlignedGrown DEF Edited
  <2>3. records' = list /\ OnePerPath(records') /\ (Hazard = {} => FileWithin')
    BY <1>0, <2>1, <2>2, WrittenGrown
  <2>4. task.state # "asked" /\ task' = task
    BY <1>8 DEF UserEdits, ChangeChoice, ChangeMine, ChangePort, Acts
  <2>5. RescanOfThese'
    BY <1>0, <2>2, <2>3, <2>4, AlignedKeeps
  <2> QED BY <1>000, <2>3, <2>5
<1>9. CASE Export
  <2>1. RescanOfThese'
    BY <1>0, <1>9 DEF Export, Acts, RescanOfThese
  <2> QED BY <1>00, <1>000, <1>9, <2>1 DEF Export
<1>10. CASE Import
  <2> PICK list : list = MergedProfile(records, profile)
    OBVIOUS
  <2>1. list \in Seq(Record) /\ Grown(list, records)
    <3>1. profile \in Seq(Record)
      BY DEF TypeOK
    <3> QED BY <1>0, <3>1, ImportRestores DEF Restored
  <2>2. Written(list) /\ task'.state = "idle"
    BY <1>10 DEF Import, Acts
  <2>3. OnePerPath(records') /\ (Hazard = {} => FileWithin')
    BY <1>0, <2>1, <2>2, WrittenGrown
  <2>4. RescanOfThese'
    BY <2>2 DEF RescanOfThese
  <2> QED BY <1>000, <2>3, <2>4
<1>11. CASE Polls
  <2>1. PICK i \in DOMAIN records, port \in Port : Confirm(i, port)
    BY <1>11 DEF Polls
  <2>2. PICK list : Written(list) /\ list \in Seq(Record) /\ Aligned(list, records)
    BY <2>1, ConfirmIs
  <2>3. Grown(list, records)
    BY <1>0, <2>2, AlignedGrown
  <2>4. records' = list /\ OnePerPath(records') /\ (Hazard = {} => FileWithin')
    BY <1>0, <2>2, <2>3, WrittenGrown
  <2>5. (task.state = "asked" => Hazard # {}) /\ task' = task
    BY <2>1 DEF Confirm, Acts
  <2>6. RescanOfThese'
    BY <1>0, <2>2, <2>4, <2>5, AlignedKeeps
  <2> QED BY <1>000, <2>4, <2>6
<1>12. CASE Shutdown
  <2>1. RescanOfThese'
    BY <1>0, <1>12 DEF Shutdown, RescanOfThese
  <2> QED BY <1>00, <1>000, <1>12, <2>1 DEF Shutdown
<1>13. CASE UNCHANGED vars
  <2>1. RescanOfThese'
    BY <1>0, <1>13 DEF vars, RescanOfThese
  <2> QED BY <1>00, <1>000, <1>13, <2>1 DEF vars
<1> QED
  BY <1>1, <1>2, <1>3, <1>4, <1>5, <1>6, <1>7, <1>8, <1>9, <1>10, <1>11, <1>12, <1>13
     DEF Next, Worker, Slot, Dialog

-----------------------------------------------------------------------------
(* What each step does to the rows that stay, and to the list              *)

\* The bodies of the action properties.
ChoicesStep ==
  \A c \in Became :
    LET old == records[c[1]]
        new == records'[c[2]]
    IN /\ UserHalf(new) # UserHalf(old) => UserEdits \/ Import
       /\ new.mine # old.mine => UserEdits
       /\ new.seen # old.seen =>
            Polls \/ new.port # old.port \/ new.override # old.override
       /\ new.port # old.port \/ new.override # old.override => new.seen = None

ObservedStep ==
  /\ \A c \in Became :
       LET old == records[c[1]]
           new == records'[c[2]]
       IN /\ new.launch # old.launch =>
               \E f \in Said(new) :
                 f.launch = new.launch /\ (old.launch \in Unit => task.scan.asked)
          /\ new.port # old.port =>
               \E f \in Said(new) : f.port = new.port /\ (f.port = None => f.clean)
  /\ \A j \in DOMAIN records' :
       LET new == records'[j]
       IN \/ new.path \in Paths(records)
          \/ new.launch = None /\ new.port = None
          \/ \E f \in Said(new) : f.launch = new.launch /\ f.port = new.port

SameStep ==
  /\ Paths(records) \subseteq Paths(records') \/ (FirstRun /\ Dialog)
  /\ load.kind = "ok" => Paths(load.list) \subseteq Paths(load'.list)
  /\ OnePerPath(records')
  /\ \A j \in DOMAIN records' :
       records'[j].path \notin Paths(records) =>
         \A i \in 1..(j - 1) : Place[records'[i].path] # Place[records'[j].path]

TieStep ==
  \A c \in Claims(records) : \A l, w \in Became :
    l[1] = c[1] /\ w[1] = c[2] /\ ~Import => Before(records', w[2], l[2])

\* A row that stays is one row of what its list became, and of what is selected
\* of that.
LEMMA BecameRow ==
  ASSUME records \in Seq(Record), records' \in Seq(Record), OnePerPath(records),
         NEW list \in Seq(Record), NEW at,
         Grown(list, records), Selected(records', list, at),
         NEW c \in Became
  PROVE  /\ c[1] \in 1..Len(records) /\ c[2] \in 1..Len(records')
         /\ at[c[2]] = c[1] /\ records'[c[2]] = list[c[1]]
<1>1. /\ c[1] \in 1..Len(records) /\ c[2] \in 1..Len(records')
      /\ records[c[1]].path = records'[c[2]].path
  BY DEF Became
<1>2. OnePerPath(list)
  BY GrownOnePerPath
<1>3. at[c[2]] \in 1..Len(list) /\ records'[c[2]] = list[at[c[2]]]
  BY <1>1 DEF Selected
<1>4. c[1] \in 1..Len(list) /\ list[c[1]].path = records[c[1]].path
  BY <1>1 DEF Grown
<1>5. at[c[2]] = c[1]
  BY <1>1, <1>2, <1>3, <1>4 DEF OnePerPath
<1> QED BY <1>1, <1>3, <1>5

\* Who was before whom, is.
LEMMA ClaimsBefore ==
  ASSUME NEW c \in Claims(records)
  PROVE  Before(records, c[2], c[1]) /\ c[1] \in DOMAIN records /\ c[2] \in DOMAIN records
<1>1. /\ c \in (DOMAIN records) \X (DOMAIN records)
      /\ LET port == EffectivePort(records[c[1]])
             rivals == {i \in DOMAIN records : EffectivePort(records[i]) = port}
         IN /\ port # None /\ c[1] # c[2] /\ c[2] \in rivals
            /\ \A i \in rivals \ {c[2]} : Before(records, c[2], i)
  BY DEF Claims
<1>2. c[1] \in DOMAIN records /\ c[2] \in DOMAIN records
  BY <1>1
<1>3. c[1] \in {i \in DOMAIN records : EffectivePort(records[i]) = EffectivePort(records[c[1]])} \ {c[2]}
  BY <1>1, <1>2
<1> QED BY <1>1, <1>2, <1>3

LEMMA TieKept ==
  ASSUME records \in Seq(Record), records' \in Seq(Record), OnePerPath(records),
         NEW list \in Seq(Record), NEW at,
         Grown(list, records), Selected(records', list, at),
         \A i \in 1..Len(records) : list[i].added = records[i].added
  PROVE  TieStep
<1> SUFFICES ASSUME NEW c \in Claims(records), NEW l \in Became, NEW w \in Became,
                    l[1] = c[1], w[1] = c[2]
             PROVE  Before(records', w[2], l[2])
  BY DEF TieStep
<1>1. Before(records, c[2], c[1])
  BY ClaimsBefore
<1>2. /\ l[1] \in 1..Len(records) /\ l[2] \in 1..Len(records')
      /\ at[l[2]] = l[1] /\ records'[l[2]].added = records[l[1]].added
  BY BecameRow
<1>3. /\ w[1] \in 1..Len(records) /\ w[2] \in 1..Len(records')
      /\ at[w[2]] = w[1] /\ records'[w[2]].added = records[w[1]].added
  BY BecameRow
<1>4. ASSUME c[2] < c[1] PROVE w[2] < l[2]
  <2> SUFFICES ASSUME ~(w[2] < l[2]) PROVE FALSE
    OBVIOUS
  <2>1. l[2] < w[2] \/ l[2] = w[2]
    BY <1>2, <1>3
  <2>2. CASE l[2] < w[2]
    <3>1. at[l[2]] < at[w[2]]
      BY <1>2, <1>3, <2>2 DEF Selected
    <3> QED BY <1>2, <1>3, <1>4, <3>1
  <2>3. CASE l[2] = w[2]
    BY <1>2, <1>3, <1>4, <2>3
  <2> QED BY <2>1, <2>2, <2>3
<1> QED BY <1>1, <1>2, <1>3, <1>4 DEF Before

\* A rescan, applied as it is or ticked row by row.
LEMMA RescanWrites ==
  ASSUME records \in Seq(Record), records' \in Seq(Record), OnePerPath(records),
         NEW list \in Seq(Record), NEW at,
         Rejoined(list, records, task.scan), Selected(records', list, at)
  PROVE  ChoicesStep /\ ObservedStep /\ TieStep
<1>1. Ahead(list, records, task.scan) /\ Grown(list, records)
  BY DEF Rejoined, Ahead
<1>2. ASSUME NEW c \in Became
      PROVE  /\ SameHalf(records'[c[2]], records[c[1]])
             /\ records'[c[2]].port = records[c[1]].port =>
                  records'[c[2]].seen = records[c[1]].seen
             /\ records'[c[2]].port # records[c[1]].port => records'[c[2]].seen = None
  <2>1. c[1] \in 1..Len(records) /\ records'[c[2]] = list[c[1]]
    BY <1>1, BecameRow
  <2> QED BY <1>1, <2>1 DEF Rejoined, Ahead
<1>3. ChoicesStep
  BY <1>2 DEF ChoicesStep, SameHalf, UserHalf
<1>4. ASSUME NEW c \in Became
      PROVE  \/ /\ records'[c[2]].port = records[c[1]].port
                /\ records'[c[2]].launch = records[c[1]].launch
             \/ \E f \in Said(records'[c[2]]) :
                  Observed(records'[c[2]], records[c[1]], f, task.scan.asked)
  <2>1. c[1] \in 1..Len(records) /\ records'[c[2]] = list[c[1]]
    BY <1>1, BecameRow
  <2>2. \/ list[c[1]].port = records[c[1]].port /\ list[c[1]].launch = records[c[1]].launch
        \/ \E k \in DOMAIN task.scan.found :
             /\ SamePlace(list[c[1]], task.scan.found[k].path)
             /\ Observed(list[c[1]], records[c[1]], task.scan.found[k], task.scan.asked)
    BY <1>1, <2>1 DEF Ahead
  <2> QED BY <2>1, <2>2 DEF Said
<1>5. ASSUME NEW j \in DOMAIN records', records'[j].path \notin Paths(records)
      PROVE  \E f \in Said(records'[j]) :
               f.launch = records'[j].launch /\ f.port = records'[j].port
  <2>1. at[j] \in 1..Len(list) /\ records'[j] = list[at[j]]
    BY DEF Selected
  <2>2. at[j] \in (Len(records) + 1)..Len(list)
    BY <1>1, <1>5, <2>1, GrownPaths
  <2>3. \E k \in DOMAIN task.scan.found :
          /\ SamePlace(list[at[j]], task.scan.found[k].path)
          /\ list[at[j]].launch = task.scan.found[k].launch
          /\ list[at[j]].port = task.scan.found[k].port
    BY <1>1, <2>2 DEF Ahead
  <2> QED BY <2>1, <2>3 DEF Said
<1>6. ObservedStep
  BY <1>4, <1>5 DEF ObservedStep, Observed
<1>7. TieStep
  <2>1. \A i \in 1..Len(records) : list[i].added = records[i].added
    BY DEF Rejoined, SameHalf
  <2> QED BY <1>1, <2>1, TieKept
<1> QED BY <1>3, <1>6, <1>7

LEMMA QuietSteps ==
  ASSUME TypeOK, RecordsInv, UNCHANGED <<records, load>>
  PROVE  ChoicesStep /\ ObservedStep /\ SameStep /\ TieStep
<1>1. records \in Seq(Record) /\ records' = records /\ OnePerPath(records)
  BY DEF TypeOK, RecordsInv
<1>2. PICK list \in Seq(Record) : list = records
  BY <1>1
<1>3. PICK at : Selected(list, list, at)
  BY AllSelected
<1>4. Grown(list, records)
  <2>1. Aligned(list, records)
    BY <1>2 DEF Aligned
  <2> QED BY <1>1, <2>1, AlignedGrown
<1>5. Selected(records', list, at)
  BY <1>1, <1>2, <1>3
<1>6. ASSUME NEW c \in Became PROVE records'[c[2]] = records[c[1]]
  BY <1>1, <1>2, <1>4, <1>5, BecameRow
<1>7. ChoicesStep
  BY <1>6 DEF ChoicesStep
<1>8. ObservedStep
  BY <1>1, <1>6 DEF ObservedStep, Paths
<1>9. SameStep
  BY <1>1 DEF SameStep, Paths
<1>10. TieStep
  BY <1>1, <1>2, <1>4, <1>5, TieKept
<1> QED BY <1>7, <1>8, <1>9, <1>10

LEMMA RowsStep ==
  ASSUME Hazard = {}, TypeOK, RecordsInv, [Next]_vars
  PROVE  ChoicesStep /\ ObservedStep /\ SameStep /\ TieStep
<1>0. /\ records \in Seq(Record) /\ load \in Loads /\ task \in Tasks
      /\ OnePerPath(records) /\ FileWithin /\ RescanOfThese
      /\ records' \in Seq(Record) /\ OnePerPath(records')
  <2>1. TypeOK' /\ RecordsInv'
    BY TypeStep, RecordsStep
  <2> QED BY <2>1 DEF TypeOK, Tasks, RecordsInv
<1>1. CASE UNCHANGED <<records, load>>
  BY <1>1, QuietSteps
<1>2. ASSUME RescanDone, NEW list, list = WithCurrentUserHalf(task.list), Written(list)
      PROVE  ChoicesStep /\ ObservedStep /\ SameStep /\ TieStep
  <2>1. list \in Seq(Record) /\ Rejoined(list, records, task.scan)
    <3>1. task.list \in Seq(Record) /\ Ahead(task.list, records, task.scan)
      BY <1>0, <1>2 DEF RescanDone, RescanOfThese, Tasks
    <3> QED BY <1>0, <1>2, <3>1, CurrentHalves
  <2>2. Grown(list, records) /\ records' = list
    BY <1>2, <2>1 DEF Rejoined, Ahead, Written
  <2>3. PICK at : Selected(list, list, at)
    BY <2>1, AllSelected
  <2>4. Selected(records', list, at)
    BY <2>2, <2>3
  <2>5. ChoicesStep /\ ObservedStep /\ TieStep
    BY <1>0, <2>1, <2>4, RescanWrites
  <2>6. SameStep
    BY <1>0, <1>2, <2>1, <2>2, WrittenGrown DEF SameStep
  <2> QED BY <2>5, <2>6
<1>3. ASSUME NEW paths, DialogSave(paths), ~stopped, Dialog
      PROVE  ChoicesStep /\ ObservedStep /\ SameStep /\ TieStep
  <2> PICK list \in Seq(Record) : list = task.list
    BY <1>0 DEF Tasks
  <2> PICK out : out = Ticked(list, paths)
    OBVIOUS
  <2>1. Written(out) /\ load.kind = "missing" /\ Rejoined(list, records, task.scan)
    BY <1>0, <1>3 DEF DialogSave, RescanOfThese
  <2>2. PICK at : Selected(out, list, at)
    BY TickedSelects
  <2>3. records' = out
    BY <2>1 DEF Written
  <2>4. Grown(list, records)
    BY <2>1 DEF Rejoined, Ahead
  <2>5. ChoicesStep /\ ObservedStep /\ TieStep
    BY <1>0, <2>1, <2>2, <2>3, RescanWrites
  <2>6. FirstRun /\ Dialog /\ load.kind # "ok"
    BY <1>3, <2>1 DEF FirstRun
  <2>7. ASSUME NEW j \in DOMAIN records', records'[j].path \notin Paths(records), NEW i \in 1..(j - 1)
        PROVE  Place[records'[i].path] # Place[records'[j].path]
    BY <1>0, <2>2, <2>3, <2>4, <2>7, SelectedNew
  <2>8. SameStep
    BY <1>0, <2>6, <2>7 DEF SameStep
  <2> QED BY <2>5, <2>8
<1>4. CASE UserEdits
  <2>1. PICK list : Written(list) /\ Edited(list)
    BY <1>4, EditIs
  <2>2. list \in Seq(Record) /\ Aligned(list, records) /\ Grown(list, records) /\ records' = list
    BY <1>0, <2>1, AlignedGrown DEF Edited, Written
  <2>3. PICK at : Selected(list, list, at)
    BY <2>2, AllSelected
  <2>4. Selected(records', list, at)
    BY <2>2, <2>3
  <2>5. ASSUME NEW c \in Became PROVE c[1] \in 1..Len(records) /\ records'[c[2]] = list[c[1]]
    BY <1>0, <2>2, <2>4, BecameRow
  <2>6. ASSUME NEW c \in Became
        PROVE  /\ records'[c[2]].port = records[c[1]].port
               /\ records'[c[2]].launch = records[c[1]].launch
               /\ records'[c[2]].override # records[c[1]].override => records'[c[2]].seen = None
               /\ records'[c[2]].override = records[c[1]].override =>
                    records'[c[2]].seen = records[c[1]].seen
    BY <2>1, <2>2, <2>5 DEF Edited, Aligned
  <2>7. ChoicesStep
    BY <1>4, <2>6 DEF ChoicesStep
  <2>8. Paths(records') \subseteq Paths(records)
    BY <1>0, <2>2 DEF Paths, Aligned
  <2>9. ObservedStep
    BY <2>6, <2>8 DEF ObservedStep, Paths
  <2>10. SameStep
    BY <1>0, <2>1, <2>2, WrittenGrown DEF SameStep
  <2>11. TieStep
    BY <1>0, <2>1, <2>2, <2>4, TieKept DEF Edited
  <2> QED BY <2>7, <2>9, <2>10, <2>11
<1>5. CASE Import
  <2> PICK list : list = MergedProfile(records, profile)
    OBVIOUS
  <2>1. list \in Seq(Record) /\ Restored(list, records) /\ Grown(list, records)
    <3>1. profile \in Seq(Record)
      BY DEF TypeOK
    <3> QED BY <1>0, <3>1, ImportRestores DEF Restored
  <2>2. Written(list) /\ records' = list
    BY <1>5 DEF Import, Written
  <2>3. PICK at : Selected(list, list, at)
    BY <2>1, AllSelected
  <2>4. Selected(records', list, at)
    BY <2>2, <2>3
  <2>5. ASSUME NEW c \in Became PROVE c[1] \in 1..Len(records) /\ records'[c[2]] = list[c[1]]
    BY <1>0, <2>1, <2>4, BecameRow
  <2>6. ASSUME NEW c \in Became
        PROVE  /\ records'[c[2]].port = records[c[1]].port
               /\ records'[c[2]].launch = records[c[1]].launch
               /\ records'[c[2]].mine = records[c[1]].mine
               /\ records'[c[2]].override # records[c[1]].override => records'[c[2]].seen = None
               /\ records'[c[2]].override = records[c[1]].override =>
                    records'[c[2]].seen = records[c[1]].seen
    BY <2>1, <2>5 DEF Restored
  <2>7. ChoicesStep
    BY <1>5, <2>6 DEF ChoicesStep
  <2>8. ASSUME NEW j \in DOMAIN records', records'[j].path \notin Paths(records)
        PROVE  records'[j].launch = None /\ records'[j].port = None
    <3>1. j \in (Len(records) + 1)..Len(list)
      BY <1>0, <2>1, <2>2, <2>8, GrownPaths
    <3> QED BY <2>1, <2>2, <3>1 DEF Restored
  <2>9. ObservedStep
    BY <2>6, <2>8 DEF ObservedStep
  <2>10. SameStep
    BY <1>0, <2>1, <2>2, WrittenGrown DEF SameStep
  <2>11. TieStep
    BY <1>5 DEF TieStep
  <2> QED BY <2>7, <2>9, <2>10, <2>11
<1>6. CASE Polls
  <2>1. PICK i \in DOMAIN records, port \in Port : Confirm(i, port)
    BY <1>6 DEF Polls
  <2>2. PICK list : /\ Written(list) /\ list \in Seq(Record) /\ Aligned(list, records)
                    /\ \A k \in 1..Len(records) : SameHalf(list[k], records[k])
    BY <2>1, ConfirmIs
  <2>3. Grown(list, records) /\ records' = list
    BY <1>0, <2>2, AlignedGrown DEF Written
  <2>4. PICK at : Selected(list, list, at)
    BY <2>2, AllSelected
  <2>5. Selected(records', list, at)
    BY <2>3, <2>4
  <2>6. ASSUME NEW c \in Became PROVE c[1] \in 1..Len(records) /\ records'[c[2]] = list[c[1]]
    BY <1>0, <2>2, <2>3, <2>5, BecameRow
  <2>7. ASSUME NEW c \in Became
        PROVE  /\ records'[c[2]].port = records[c[1]].port
               /\ records'[c[2]].launch = records[c[1]].launch
               /\ SameHalf(records'[c[2]], records[c[1]])
    BY <2>2, <2>6 DEF Aligned
  <2>8. ChoicesStep
    BY <1>6, <2>7 DEF ChoicesStep, SameHalf, UserHalf
  <2>9. Paths(records') \subseteq Paths(records)
    BY <1>0, <2>2, <2>3 DEF Paths, Aligned
  <2>10. ObservedStep
    BY <2>7, <2>9 DEF ObservedStep, Paths
  <2>11. SameStep
    BY <1>0, <2>2, <2>3, WrittenGrown DEF SameStep
  <2>12. TieStep
    BY <1>0, <2>2, <2>3, <2>5, TieKept DEF SameHalf
  <2> QED BY <2>8, <2>10, <2>11, <2>12
<1>7. CASE StartRescan \/ Worker \/ RescanFailed \/ DialogNotNow \/ Export \/ Shutdown \/ UNCHANGED vars
  BY <1>1, <1>7 DEF StartRescan, Worker, ScanFails, ScanEnds, RescanFailed, DialogNotNow,
     Export, Shutdown, vars
<1>8. CASE RescanDone
  BY <1>1, <1>2, <1>8 DEF RescanDone
<1>9. ASSUME Dialog PROVE ChoicesStep /\ ObservedStep /\ SameStep /\ TieStep
  <2>1. CASE DialogNotNow
    BY <1>7, <2>1
  <2>2. ASSUME NEW paths, DialogSave(paths)
        PROVE  ChoicesStep /\ ObservedStep /\ SameStep /\ TieStep
    <3>1. CASE stopped
      BY <1>1, <2>2, <3>1 DEF DialogSave
    <3>2. CASE ~stopped
      BY <1>3, <1>9, <2>2, <3>2
    <3> QED BY <3>1, <3>2
  <2> QED BY <1>9, <2>1, <2>2 DEF Dialog
<1> QED
  BY <1>4, <1>5, <1>6, <1>7, <1>8, <1>9 DEF Next, Slot

-----------------------------------------------------------------------------
(* Theorems                                                                *)

Inv == TypeOK /\ RecordsInv

LEMMA InvAlways == Spec => []Inv
<1>1. Init => Inv
  BY TypeInit, RecordsInit DEF Inv
<1>2. Inv /\ [Next]_vars => Inv'
  BY TypeStep, RecordsStep DEF Inv
<1> QED BY <1>1, <1>2, PTL DEF Spec

\* The records, the load, the rescan in flight and the profile are of their types:
\* what a merge, an edit or an import makes of a list is a list of records.
THEOREM TypeCorrect == Spec => []TypeOK
<1>1. Inv => TypeOK
  BY DEF Inv
<1> QED BY <1>1, InvAlways, PTL

LEMMA SettlesNow == Inv => Settles
<1> SUFFICES ASSUME Inv PROVE Settles
  OBVIOUS
<1>1. records \in Seq(Record) /\ profile \in Seq(Record) /\ Now \in Nat
  BY RescanAssumption DEF Inv, TypeOK, Now
<1>2. ASSUME task.state = "done"
      PROVE  LET Again(list) == Merged(list, task.scan.found, task.scan.asked, Now)
             IN Again(Again(records)) = Again(records)
  <2>1. task.scan \in Scans
    BY <1>2 DEF Inv, RecordsInv, RescanOfThese
  <2> QED BY <1>1, <2>1, MergedTwice
<1>3. LET Again(list) == MergedProfile(list, profile)
      IN Again(Again(records)) = Again(records)
  BY <1>1, ImportedTwice
<1>4. MergedProfile(records, records) = records
  BY <1>1, ImportedBack
<1> QED BY <1>2, <1>3, <1>4 DEF Settles

\* Whatever a list has become, and however many of its rows name one directory: what
\* was merged once changes nothing when it is merged again, and an export comes back
\* as the list it was.
THEOREM SettlesAlways == Spec => []Settles
BY InvAlways, SettlesNow, PTL

\* As long as no poll confirms a port while the first run's question is open: a
\* rescan, whatever overlaps it, keeps what the user chose and what a poll saw.
THEOREM ChoicesKeptAlways == ASSUME Hazard = {} PROVE Spec => ChoicesKept
<1>1. Inv /\ [Next]_vars => ChoicesStep
  BY RowsStep DEF Inv
<1>2. Inv /\ [Next]_vars =>
        [\A c \in Became :
           LET old == records[c[1]]
               new == records'[c[2]]
           IN /\ UserHalf(new) # UserHalf(old) => UserEdits \/ Import
              /\ new.mine # old.mine => UserEdits]_vars
  BY <1>1 DEF ChoicesStep
<1>3. Inv /\ [Next]_vars =>
        [\A c \in Became :
           LET old == records[c[1]]
               new == records'[c[2]]
           IN /\ new.seen # old.seen =>
                   Polls \/ new.port # old.port \/ new.override # old.override
              /\ new.port # old.port \/ new.override # old.override =>
                   new.seen = None]_vars
  BY <1>1 DEF ChoicesStep
<1>4. Spec => UserHalfKept
  BY <1>2, InvAlways, PTL DEF Spec, UserHalfKept
<1>5. Spec => SightingKept
  BY <1>3, InvAlways, PTL DEF Spec, SightingKept
<1> QED BY <1>4, <1>5 DEF ChoicesKept

\* A rescan and an import add and change only what was observed, and no project
\* leaves the list or its file, or comes a second time.
THEOREM NothingInventedOrLostAlways ==
  ASSUME Hazard = {} PROVE Spec => NothingInventedOrLost
<1>1. Inv /\ [Next]_vars => ObservedStep /\ SameStep
  BY RowsStep DEF Inv
<1>2. Spec => [][ObservedStep]_vars /\ [][SameStep]_vars
  BY <1>1, InvAlways, PTL DEF Spec
<1>3. [][ObservedStep]_vars => OnlyObserved
  BY PTL DEF OnlyObserved, ObservedStep
<1>4. [][SameStep]_vars => SameProjects
  BY PTL DEF SameProjects, SameStep
<1> QED BY <1>2, <1>3, <1>4 DEF NothingInventedOrLost

\* Of two projects that claim one port, whoever could start on it still can.
THEOREM TieBreakKeptAlways == ASSUME Hazard = {} PROVE Spec => TieBreakKept
<1>1. Inv /\ [Next]_vars => TieStep
  BY RowsStep DEF Inv
<1>2. Spec => [][TieStep]_vars
  BY <1>1, InvAlways, PTL DEF Spec
<1> QED BY <1>2, PTL DEF TieBreakKept, TieStep

=============================================================================
