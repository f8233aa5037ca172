--------------------------- MODULE StorefrontProofs ---------------------------
(***************************************************************************)
(* Proofs about the storefront builder, for any number of versions and     *)
(* sections: the versions of the storefront's layout with the undo history *)
(* of a draft, and a page with its locked sections, rows and containers.   *)
(***************************************************************************)
EXTENDS LayoutVersions, PageLayout, FoldProofs, FiniteSetTheorems, SequenceTheorems, TLAPS

-----------------------------------------------------------------------------
(* Versions of the storefront's layout, and the undo history of a draft.   *)

Versions == [status : {"draft", "published", "archived", "gone"}, content : Content,
             fingerprint : Content, history : Seq(Entry)]

\* What is done comes before what is undone, and each entry starts where the
\* one before it ended; the content that a history ends at.
StackOf(h) == \A i \in DOMAIN h : h[i].undone <=> i > Cardinality(Done(h))
Chained(h) == \A i \in DOMAIN h : i > 1 => h[i].before = h[i - 1].after
Top(h) == IF Done(h) = {} THEN h[1].before ELSE h[Cardinality(Done(h))].after

\* The greatest and the least of some numbers.
LEMMA GreatestIs ==
    ASSUME NEW S, S \subseteq Int, NEW m \in S, \A x \in S : x <= m
    PROVE  Max(S) = m
  <1>1. \E x \in S : \A y \in S : x >= y
    OBVIOUS
  <1>2. Max(S) \in S /\ \A y \in S : Max(S) >= y
    BY <1>1 DEF Max
  <1>3. m \in Int /\ Max(S) \in Int /\ Max(S) >= m /\ Max(S) <= m
    BY <1>2
  <1> QED
    BY <1>3

LEMMA LeastIs ==
    ASSUME NEW S, S \subseteq Int, NEW m \in S, \A x \in S : m <= x
    PROVE  Min(S) = m
  <1>1. \E x \in S : \A y \in S : x <= y
    OBVIOUS
  <1>2. Min(S) \in S /\ \A y \in S : Min(S) <= y
    BY <1>1 DEF Min
  <1>3. m \in Int /\ Min(S) \in Int /\ m <= Min(S) /\ Min(S) <= m
    BY <1>2
  <1> QED
    BY <1>3

\* An entry is done exactly if it is one of the first n.
LEMMA StackUpTo ==
    ASSUME NEW h \in Seq(Entry), NEW n \in 0..Len(h), \A i \in DOMAIN h : h[i].undone <=> i > n
    PROVE  StackOf(h) /\ Done(h) = 1..n /\ Cardinality(Done(h)) = n
  <1>1. DOMAIN h = 1..Len(h) /\ Len(h) \in Nat
    OBVIOUS
  <1>2. Done(h) = 1..n
    <2>1. \A i : i \in Done(h) <=> (i \in DOMAIN h /\ ~(i > n))
      BY Zenon DEF Done
    <2>2. \A i : i \in Done(h) <=> i \in 1..n
      BY <1>1, <2>1
    <2> QED
      BY <2>2
  <1>3. Cardinality(1..n) = n
    <2>1. n \in Nat
      BY <1>1
    <2> QED
      BY <2>1, FS_Interval
  <1> QED
    BY <1>2, <1>3, Zenon DEF StackOf

\* Of a stack, the entries that are done come first, and the positions that
\* undo and redo turn to are the last of them and the next.
LEMMA StackParts ==
    ASSUME NEW h \in Seq(Entry), StackOf(h), NEW n, n = Cardinality(Done(h))
    PROVE  /\ n \in 0..Len(h) /\ Done(h) = 1..n
           /\ Applied(h) \in Seq(Entry) /\ Len(Applied(h)) = n
           /\ \A k \in 1..n : Applied(h)[k] = h[k]
           /\ Done(h) # {} => n > 0 /\ Max(Done(h)) = n
           /\ Done(h) # DOMAIN h => n < Len(h) /\ Min(DOMAIN h \ Done(h)) = n + 1
  <1>1. DOMAIN h = 1..Len(h) /\ Len(h) \in Nat /\ \A i \in 1..Len(h) : h[i] \in Entry
    OBVIOUS
  <1>2. Done(h) \subseteq 1..Len(h)
    BY <1>1 DEF Done
  <1>3. IsFiniteSet(1..Len(h)) /\ Cardinality(1..Len(h)) = Len(h)
    <2> DEFINE l == Len(h)
    <2>1. l \in Nat
      BY <1>1
    <2> HIDE DEF l
    <2>2. IsFiniteSet(1..l) /\ Cardinality(1..l) = l
      BY <2>1, FS_Interval
    <2> QED
      BY <2>2 DEF l
  <1>4. IsFiniteSet(Done(h)) /\ Cardinality(Done(h)) <= Len(h)
    BY <1>2, <1>3, FS_Subset
  <1>5. n \in 0..Len(h)
    BY <1>1, <1>4, FS_CardinalityType
  <1>6. Done(h) = 1..n
    <2>1. \A i : i \in Done(h) <=> (i \in DOMAIN h /\ ~(i > n))
      BY Zenon DEF Done, StackOf
    <2>2. \A i : i \in Done(h) <=> i \in 1..n
      BY <1>1, <1>5, <2>1
    <2> QED
      BY <2>2
  <1>7. ASSUME NEW k \in 1..n PROVE Nth(Done(h), k) = k
    <2>1. ASSUME NEW i \in 1..n PROVE {j \in Done(h) : j <= i} = 1..i /\ Cardinality(1..i) = i
      <3>1. i \in Nat /\ n \in Nat
        BY <1>1, <1>5
      <3>2. Cardinality(1..i) = i
        BY <3>1, FS_Interval
      <3>3. \A j : j \in {q \in Done(h) : q <= i} <=> j \in 1..i
        <4>1. \A j : j \in 1..n /\ j <= i <=> j \in 1..i
          BY <3>1
        <4> QED
          BY <1>6, <4>1
      <3> QED
        BY <3>2, <3>3
    <2>2. \A i \in Done(h) : Cardinality({j \in Done(h) : j <= i}) = i
      BY <1>6, <2>1
    <2> QED
      BY <1>6, <2>2 DEF Nth
  <1>8. Applied(h) = [k \in 1..n |-> h[Nth(Done(h), k)]]
    BY DEF Applied
  <1>9. \A k \in 1..n : Applied(h)[k] = h[k] /\ Applied(h)[k] \in Entry
    BY <1>1, <1>5, <1>7, <1>8
  <1>10. Applied(h) \in Seq(Entry) /\ Len(Applied(h)) = n
    BY <1>5, <1>8, <1>9
  <1>11. Done(h) # {} => n > 0 /\ Max(Done(h)) = n
    <2> SUFFICES ASSUME Done(h) # {} PROVE n > 0 /\ Max(Done(h)) = n
      OBVIOUS
    <2>1. n \in Nat /\ n > 0
      <3>1. n \in Nat
        BY <1>1, <1>5
      <3>2. 1..n # {}
        BY <1>6, Zenon
      <3> QED
        BY <3>1, <3>2
    <2>2. 1..n \subseteq Int /\ n \in 1..n /\ \A x \in 1..n : x <= n
      BY <2>1
    <2>3. Max(1..n) = n
      BY <2>2, GreatestIs
    <2> QED
      BY <1>6, <2>1, <2>3
  <1>12. Done(h) # DOMAIN h => n < Len(h) /\ Min(DOMAIN h \ Done(h)) = n + 1
    <2> SUFFICES ASSUME Done(h) # DOMAIN h
                 PROVE  n < Len(h) /\ Min(DOMAIN h \ Done(h)) = n + 1
      OBVIOUS
    <2>1. n \in Nat /\ n < Len(h)
      <3>1. n # Len(h)
        BY <1>1, <1>6
      <3> QED
        BY <1>1, <1>5, <3>1
    <2> DEFINE S == DOMAIN h \ Done(h)
    <2>2. S \subseteq Int /\ n + 1 \in S /\ \A x \in S : n + 1 <= x
      <3> DEFINE l == Len(h)
      <3>1. S = (1..l) \ (1..n) /\ l \in Nat /\ n < l
        BY <1>1, <1>6, <2>1
      <3> HIDE DEF S, l
      <3> QED
        BY <2>1, <3>1
    <2> HIDE DEF S
    <2>3. Min(S) = n + 1
      BY <2>2, LeastIs
    <2> QED
      BY <2>1, <2>3 DEF S
  <1> QED
    BY <1>5, <1>6, <1>9, <1>10, <1>11, <1>12

\* A change is recorded on top of what is done; the rest is dropped.
LEMMA RecordedIsStack ==
    ASSUME NEW h \in Seq(Entry), StackOf(h), NEW e \in Entry, ~e.undone
    PROVE  LET r == Recorded(h, e)
           IN  /\ r \in Seq(Entry) /\ Len(r) \in 1..MaxHistory /\ StackOf(r)
               /\ Cardinality(Done(r)) = Len(r) /\ Done(r) # {} /\ r[Len(r)] = e
               /\ Chained(h) /\ (h # <<>> => e.before = Top(h)) /\ Done(h) # {} => Chained(r)
               /\ Done(h) = {} => Chained(r)
  <1> DEFINE n == Cardinality(Done(h))
             a == Append(Applied(h), e)
             k == Max({1, Len(a) - MaxHistory + 1})
             r == Recorded(h, e)
  <1>1. /\ n \in 0..Len(h) /\ Done(h) = 1..n /\ Len(h) \in Nat
        /\ Applied(h) \in Seq(Entry) /\ Len(Applied(h)) = n
        /\ \A i \in 1..n : Applied(h)[i] = h[i]
    <2>1. DOMAIN h = 1..Len(h) /\ Len(h) \in Nat
      OBVIOUS
    <2>2. n = Cardinality(Done(h))
      OBVIOUS
    <2> HIDE DEF n
    <2> QED
      BY <2>1, <2>2, StackParts
  <1>2. /\ a \in Seq(Entry) /\ Len(a) = n + 1 /\ a[n + 1] = e /\ \A i \in 1..n : a[i] = h[i]
    BY <1>1
  <1>3. MaxHistory \in Nat \ {0}
    BY LayoutIsBounded
  <1>4. k \in 1..(n + 1) /\ n + 1 - k + 1 <= MaxHistory
    <2>1. n \in Nat /\ Len(a) = n + 1
      BY <1>1, <1>2
    <2> HIDE DEF a, n
    <2>2. CASE Len(a) - MaxHistory + 1 <= 1
      <3>1. k = 1
        <4> DEFINE S == {1, Len(a) - MaxHistory + 1}
        <4>1. S \subseteq Int /\ 1 \in S /\ \A x \in S : x <= 1
          BY <1>3, <2>1, <2>2
        <4> HIDE DEF S
        <4>2. Max(S) = 1
          BY <4>1, GreatestIs
        <4> QED
          BY <4>2 DEF S
      <3> QED
        BY <1>3, <2>1, <2>2, <3>1
    <2>3. CASE Len(a) - MaxHistory + 1 > 1
      <3>1. k = Len(a) - MaxHistory + 1
        <4> DEFINE S == {1, Len(a) - MaxHistory + 1}
                   top == Len(a) - MaxHistory + 1
        <4>1. S \subseteq Int /\ top \in S /\ \A x \in S : x <= top
          BY <1>3, <2>1, <2>3
        <4> HIDE DEF S, top
        <4>2. Max(S) = top
          BY <4>1, GreatestIs
        <4> QED
          BY <4>2 DEF S, top
      <3> QED
        BY <1>3, <2>1, <2>3, <3>1
    <2> QED
      BY <1>3, <2>1, <2>2, <2>3
  <1>5. r = SubSeq(a, k, n + 1)
    BY <1>2 DEF Recorded, Trimmed
  <1> HIDE DEF a, k, n
  <1>6. n \in Nat
    BY <1>1
  <1>7. /\ r \in Seq(Entry) /\ Len(r) = n + 1 - k + 1
        /\ \A i \in 1..Len(r) : r[i] = a[k + i - 1]
    BY <1>2, <1>4, <1>5, <1>6, SubSeqProperties
  <1> HIDE DEF r
  <1>8. Len(r) \in 1..MaxHistory /\ r[Len(r)] = e
    BY <1>2, <1>3, <1>4, <1>6, <1>7
  <1>9. \A i \in 1..n : ~h[i].undone
    BY <1>1 DEF Done
  <1>10. \A i \in 1..(n + 1) : ~a[i].undone
    BY <1>2, <1>6, <1>9
  <1>11. \A i \in DOMAIN r : r[i].undone <=> i > Len(r)
    <2>1. DOMAIN r = 1..Len(r) /\ Len(r) \in Nat
      BY <1>7
    <2>2. \A i \in DOMAIN r : k + i - 1 \in 1..(n + 1)
      BY <1>4, <1>6, <1>7, <2>1
    <2>3. \A i \in DOMAIN r : ~r[i].undone
      BY <1>7, <1>10, <2>1, <2>2
    <2> QED
      BY <2>1, <2>3
  <1>12. StackOf(r) /\ Done(r) = 1..Len(r) /\ Cardinality(Done(r)) = Len(r)
    BY SMTT(30), <1>7, <1>8, <1>11, StackUpTo
  <1>13. ASSUME Done(h) = {} \/ (Chained(h) /\ (h # <<>> => e.before = Top(h)))
         PROVE  Chained(r)
    <2> SUFFICES ASSUME NEW i \in 2..Len(r) PROVE r[i].before = r[i - 1].after
      BY <1>7 DEF Chained
    <2> DEFINE j == k + i - 1
    <2>1. /\ j \in 2..(n + 1) /\ r[i] = a[j] /\ r[i - 1] = a[j - 1] /\ j - 1 \in 1..n
      BY <1>4, <1>6, <1>7
    <2> HIDE DEF j
    <2>2. n > 0 /\ Done(h) # {} /\ h # <<>>
      <3>1. n > 0 /\ 1 \in 1..n
        BY <1>6, <2>1
      <3>2. Len(h) # 0
        BY <1>1, <1>6, <3>1
      <3> QED
        BY <1>1, <3>1, <3>2
    <2>3. Chained(h) /\ e.before = h[n].after
      BY <1>13, <2>2 DEF Top, n
    <2>4. CASE j = n + 1
      BY <1>2, <1>6, <2>1, <2>3, <2>4
    <2>5. CASE j \in 1..n
      <3>1. j \in DOMAIN h /\ j > 1
        BY <1>1, <1>6, <2>1, <2>5
      <3> QED
        BY <1>2, <2>1, <2>3, <2>5, <3>1 DEF Chained
    <2> QED
      BY <1>6, <2>1, <2>4, <2>5
  <1> QED
    BY <1>7, <1>8, <1>12, <1>13 DEF r

\* What requests hold while n versions have been made: the versions they and
\* the layout point to exist, or are gone.
Pointers(n) == [draft : 0..n, published : 0..n]
AskedOf(n)  == [op : LayoutOps, seen : Pointers(n), source : 0..n]
EditsOf(n)  == [op : {"begun"}, draft : 1..n, before : Content, target : {NoVersion}]
                 \cup [op : {"looked", "written"}, draft : 1..n, before : Content, target : 1..n]

VersionTypes ==
    /\ versions \in Seq(Versions) /\ Len(versions) <= MaxVersions
    /\ \A v \in DOMAIN versions : Len(versions[v].history) <= MaxHistory
    /\ layout \in Pointers(Len(versions))
    /\ editing \in [Designers -> {Absent} \cup AskedOf(Len(versions)) \cup EditsOf(Len(versions))]

\* A version that is no draft never becomes one again: those that were seen
\* as published cannot.
NoDraft(v) == v \in DOMAIN versions => versions[v].status # "draft"
PublishedBefore ==
    /\ NoDraft(layout.published)
    /\ \A m \in Designers :
           editing[m] # Absent /\ editing[m].op \in LayoutOps => NoDraft(editing[m].seen.published)

\* What an edit is about to write to is a draft, unless requests overlapped.
DraftsEdited ==
    ~crossed => \A m \in Designers : Asked(m, "looked") =>
        \/ editing[m].target \in raced
        \/ versions[editing[m].target].status \in {"draft", "gone"}

PointersInv ==
    PointersAgree /\ FingerprintHolds /\ NoUndoAfterPublish /\ PublishedBefore /\ DraftsEdited

\* An edit that went astray has disturbed the version it wrote to.
StraysMixed ==
    \A m \in Designers :
        Asked(m, "written") /\ editing[m].target # editing[m].draft => editing[m].target \in mixed

\* The first snapshot of an edit is what the history of the draft ends at,
\* unless an edit of the draft by another has yet to be recorded.
Snapping(m) == editing[m] # Absent /\ editing[m].op \in {"begun", "looked", "written"}
SnapshotsFit ==
    \A m \in Designers :
        (/\ Snapping(m) /\ editing[m].draft \notin mixed
         /\ IsDraft(editing[m].draft) /\ versions[editing[m].draft].history # <<>>)
        => \/ editing[m].before = Top(versions[editing[m].draft].history)
           \/ \E n \in Designers \ {m} : Asked(n, "written") /\ editing[n].target = editing[m].draft

HistoryInv ==
    /\ \A v \in DOMAIN versions : StackOf(versions[v].history)
    /\ HistoryFitsDraft /\ StraysMixed /\ SnapshotsFit

\* What makes VersionsSound inductive.
VersionsInv == VersionTypes /\ PointersInv /\ HistoryInv

\* What is asked of the layout while n versions exist may be asked later.
LEMMA RequestsGrow ==
    ASSUME NEW n \in Nat, NEW k \in Nat, n <= k
    PROVE  /\ Pointers(n) \subseteq Pointers(k) /\ AskedOf(n) \subseteq AskedOf(k)
           /\ EditsOf(n) \subseteq EditsOf(k)
  <1>1. 0..n \subseteq 0..k /\ 1..n \subseteq 1..k
    OBVIOUS
  <1>2. Pointers(n) \subseteq Pointers(k)
    BY <1>1 DEF Pointers
  <1>3. AskedOf(n) \subseteq AskedOf(k)
    BY <1>1, <1>2 DEF AskedOf
  <1>4. EditsOf(n) \subseteq EditsOf(k)
    BY <1>1 DEF EditsOf
  <1> QED
    BY <1>2, <1>3, <1>4

\* What is in flight is a request, and not its absence.
LEMMA RequestsAre ==
    ASSUME NEW n \in Nat, n <= MaxVersions
    PROVE  /\ AskedOf(n) \subseteq LayoutRequest /\ EditsOf(n) \subseteq EditRequest
           /\ Absent \notin AskedOf(n) \cup EditsOf(n)
  <1>1. MaxVersions \in Nat /\ 0..n \subseteq 0..MaxVersions /\ 1..n \subseteq 1..MaxVersions
    BY LayoutIsBounded
  <1>2. AskedOf(n) \subseteq LayoutRequest
    BY <1>1 DEF AskedOf, Pointers, LayoutRequest
  <1>3. EditsOf(n) \subseteq EditRequest
    BY <1>1 DEF EditsOf, EditRequest, NoVersion
  <1> QED
    BY <1>2, <1>3, AbsentIsNoRequest

LEMMA RequestParts ==
    ASSUME VersionTypes, NEW m \in Designers, editing[m] # Absent
    PROVE  /\ editing[m].op \in LayoutOps => editing[m] \in AskedOf(Len(versions))
           /\ editing[m].op \in {"begun", "looked", "written"} => editing[m] \in EditsOf(Len(versions))
           /\ editing[m].op \in {"looked", "written"} => editing[m].target \in DOMAIN versions
           /\ editing[m] \in AskedOf(Len(versions)) \cup EditsOf(Len(versions))
  <1> DEFINE e == editing[m]
             l == Len(versions)
  <1>1. e \in AskedOf(l) \cup EditsOf(l) /\ DOMAIN versions = 1..l
    BY DEF VersionTypes
  <1> HIDE DEF e, l
  <1>2. /\ e \in AskedOf(l) => e.op \in LayoutOps
        /\ e \in EditsOf(l) => e.op \in {"begun", "looked", "written"}
        /\ e \in EditsOf(l) /\ e.op \in {"looked", "written"} => e.target \in 1..l
    BY DEF AskedOf, EditsOf
  <1>3. LayoutOps \cap {"begun", "looked", "written"} = {}
    BY DEF LayoutOps
  <1>4. /\ e.op \in LayoutOps => e \in AskedOf(l)
        /\ e.op \in {"begun", "looked", "written"} => e \in EditsOf(l)
        /\ e.op \in {"looked", "written"} => e.target \in DOMAIN versions
    BY <1>1, <1>2, <1>3
  <1> QED
    BY <1>1, <1>4 DEF e, l

\* At first there is no version.
LEMMA InitVersions == LayoutVersionsInit => VersionsInv
  <1> SUFFICES ASSUME LayoutVersionsInit PROVE VersionsInv
    OBVIOUS
  <1>1. versions \in Seq(Versions) /\ Len(versions) = 0 /\ DOMAIN versions = {}
    BY DEF LayoutVersionsInit
  <1>2. VersionTypes
    BY <1>1, LayoutIsBounded DEF LayoutVersionsInit, VersionTypes, Pointers, NoVersion
  <1>3. /\ \A m \in Designers : editing[m] = Absent
        /\ layout.draft = 0 /\ layout.published = 0
    BY DEF LayoutVersionsInit, NoVersion
  <1>4. PointersInv
    BY <1>1, <1>3 DEF PointersInv, PointersAgree, FingerprintHolds, NoUndoAfterPublish, PublishedBefore,
          DraftsEdited, NoDraft, Asked
  <1>5. HistoryInv
    BY <1>1, <1>3 DEF HistoryInv, HistoryFitsDraft, StraysMixed, SnapshotsFit, Asked, Snapping
  <1> QED
    BY <1>2, <1>4, <1>5 DEF VersionsInv

\* The types follow.
LEMMA VersionTypesHold == ASSUME VersionTypes PROVE LayoutTypeOK
  <1> DEFINE l == Len(versions)
  <1>1. l \in Nat /\ MaxVersions \in Nat /\ l <= MaxVersions
    BY LayoutIsBounded DEF VersionTypes
  <1> HIDE DEF l
  <1>2. Pointers(l) \subseteq [draft : 0..MaxVersions, published : 0..MaxVersions]
    BY <1>1, RequestsGrow DEF Pointers
  <1>3. AskedOf(l) \subseteq LayoutRequest /\ EditsOf(l) \subseteq EditRequest
    BY <1>1, RequestsAre
  <1>4. editing \in [Designers -> {Absent} \cup LayoutRequest \cup EditRequest]
    BY <1>3 DEF VersionTypes, l
  <1>5. layout \in [draft : 0..MaxVersions, published : 0..MaxVersions]
    BY <1>2 DEF VersionTypes, l
  <1>6. ASSUME NEW v \in DOMAIN versions
        PROVE  /\ versions[v].status \in {"draft", "published", "archived", "gone"}
               /\ versions[v].content \in Content /\ Len(versions[v].history) <= MaxHistory
               /\ ToSet(versions[v].history) \subseteq Entry
    <2>1. versions[v] \in Versions
      BY DEF VersionTypes
    <2>2. versions[v].history \in Seq(Entry)
      BY <2>1 DEF Versions
    <2>3. ToSet(versions[v].history) \subseteq Entry
      BY <2>2 DEF ToSet
    <2> QED
      BY <2>1, <2>3 DEF Versions, VersionTypes
  <1> QED
    BY <1>1, <1>4, <1>5, <1>6 DEF LayoutTypeOK, l

\* What a step makes of the versions.
LEMMA NewDraftMakes ==
    ASSUME VersionTypes, NEW m \in Designers, NEW content \in Content,
           editing[m] \in AskedOf(Len(versions)), NewDraft(m, content)
    PROVE  LET old == editing[m].seen.draft
               n == Len(versions) + 1
           IN  /\ versions' \in Seq(Versions) /\ Len(versions') = n /\ n <= MaxVersions
               /\ versions'[n] = Draft(content)
               /\ \A v \in DOMAIN versions : versions'[v] = IF v = old THEN Gone ELSE versions[v]
               /\ layout' = [draft |-> n, published |-> IF layout.published = old THEN NoVersion
                                                        ELSE layout.published]
               /\ layout' \in Pointers(n)
  <1> DEFINE old == editing[m].seen.draft
             l == Len(versions)
             d == Deleted(old)
  <1>1. /\ versions \in Seq(Versions) /\ l \in Nat /\ DOMAIN versions = 1..l
        /\ MaxVersions \in Nat /\ l <= MaxVersions
    BY LayoutIsBounded DEF VersionTypes
  <1>2. old \in 0..l /\ layout \in Pointers(l)
    BY DEF VersionTypes, AskedOf, Pointers
  <1>3. Gone \in Versions /\ Draft(content) \in Versions
    BY DEF Gone, Draft, Versions, Content
  <1>4. /\ versions' = Append(d, Draft(content)) /\ l < MaxVersions
        /\ layout' = [draft |-> l + 1, published |-> IF old = NoVersion THEN layout.published
                                                     ELSE Pointer(layout.published, old)]
    BY DEF NewDraft
  <1>5. /\ d \in Seq(Versions) /\ Len(d) = l
        /\ \A v \in 1..l : d[v] = IF v = old THEN Gone ELSE versions[v]
    <2>1. CASE old = 0
      BY <1>1, <2>1 DEF Deleted, NoVersion
    <2>2. CASE old # 0
      BY <1>1, <1>2, <1>3, <2>2 DEF Deleted, NoVersion
    <2> QED
      BY <2>1, <2>2
  <1> HIDE DEF d, l, old
  <1>6. /\ versions' \in Seq(Versions) /\ Len(versions') = l + 1 /\ l + 1 <= MaxVersions
        /\ versions'[l + 1] = Draft(content)
        /\ \A v \in 1..l : versions'[v] = d[v]
    BY <1>1, <1>3, <1>4, <1>5
  <1>7. layout' = [draft |-> l + 1, published |-> IF layout.published = old THEN NoVersion
                                                   ELSE layout.published]
    BY <1>2, <1>4 DEF Pointer, Pointers, NoVersion
  <1>8. layout' \in Pointers(l + 1)
    <2>1. layout.published \in 0..(l + 1) /\ NoVersion \in 0..(l + 1) /\ l + 1 \in 0..(l + 1)
      BY <1>1, <1>2 DEF Pointers, NoVersion
    <2> QED
      BY <1>7, <2>1 DEF Pointers
  <1> QED
    BY <1>1, <1>5, <1>6, <1>7, <1>8 DEF l, old

\* The requests that make a new draft.
LEMMA NewDrafts ==
    ASSUME VersionTypes, NEW m \in Designers, Open(m) \/ Restore(m) \/ ApplyIndustry(m)
    PROVE  /\ editing[m] # Absent /\ editing[m] \in AskedOf(Len(versions)) /\ editing[m].op \in LayoutOps
           /\ \E content \in Content : NewDraft(m, content)
  <1>1. editing[m] # Absent /\ editing[m].op \in LayoutOps
    BY DEF Open, Restore, ApplyIndustry, Asked, LayoutOps
  <1>2. editing[m] \in AskedOf(Len(versions))
    BY <1>1, RequestParts
  <1>3. ASSUME NEW v \in DOMAIN versions PROVE versions[v].content \in Content
    <2>1. versions[v] \in Versions
      BY DEF VersionTypes
    <2> QED
      BY <2>1 DEF Versions
  <1>4. CASE Open(m)
    <2>1. FirstContent \in Content /\ Blank \in Content
      BY LayoutIsBounded DEF Content
    <2>2. editing[m].seen.published # NoVersion
            => versions[editing[m].seen.published].content \in Content
      BY <1>3, <1>4 DEF Open, Readable, Exists
    <2> QED
      BY <1>1, <1>2, <1>4, <2>1, <2>2 DEF Open
  <1>5. CASE Restore(m)
    <2>1. versions[editing[m].source].content \in Content
      BY <1>3, <1>5 DEF Restore, Exists
    <2> QED
      BY <1>1, <1>2, <1>5, <2>1 DEF Restore, Restored
  <1>6. CASE ApplyIndustry(m)
    <2>1. FirstContent \in Content
      BY LayoutIsBounded DEF Content
    <2> QED
      BY <1>1, <1>2, <1>6, <2>1 DEF ApplyIndustry
  <1> QED
    BY <1>4, <1>5, <1>6

LEMMA DiscardMakes ==
    ASSUME VersionTypes, NEW m \in Designers, Discard(m)
    PROVE  LET old == editing[m].seen.draft
           IN  /\ editing[m] # Absent /\ editing[m] \in AskedOf(Len(versions))
               /\ editing[m].op \in LayoutOps /\ old \in DOMAIN versions
               /\ versions' \in Seq(Versions) /\ Len(versions') = Len(versions)
               /\ \A v \in DOMAIN versions : versions'[v] = IF v = old THEN Gone ELSE versions[v]
               /\ layout' = [draft |-> NoVersion,
                             published |-> IF layout.published = old THEN NoVersion ELSE layout.published]
               /\ layout' \in Pointers(Len(versions))
  <1> DEFINE old == editing[m].seen.draft
  <1>1. editing[m] # Absent /\ editing[m].op \in LayoutOps /\ Exists(old)
    BY DEF Discard, Asked, LayoutOps
  <1>2. editing[m] \in AskedOf(Len(versions)) /\ old \in DOMAIN versions
    BY <1>1, RequestParts DEF Exists
  <1>3. Gone \in Versions /\ versions \in Seq(Versions) /\ layout \in Pointers(Len(versions))
    BY DEF Gone, Versions, Content, VersionTypes
  <1>4. old # NoVersion
    BY <1>2, <1>3 DEF NoVersion
  <1>5. /\ versions' = [versions EXCEPT ![old] = Gone]
        /\ layout' = [draft |-> NoVersion, published |-> Pointer(layout.published, old)]
    BY <1>4 DEF Discard, Deleted
  <1> HIDE DEF old
  <1>6. /\ versions' \in Seq(Versions) /\ Len(versions') = Len(versions)
        /\ \A v \in DOMAIN versions : versions'[v] = IF v = old THEN Gone ELSE versions[v]
    BY <1>2, <1>3, <1>5
  <1>7. layout' \in Pointers(Len(versions))
    BY <1>3, <1>5 DEF Pointer, Pointers, NoVersion
  <1> QED
    BY <1>1, <1>2, <1>5, <1>6, <1>7 DEF old, Pointer

LEMMA PublishMakes ==
    ASSUME VersionTypes, NEW m \in Designers, Publish(m)
    PROVE  LET draft == editing[m].seen.draft
               before == editing[m].seen.published
           IN  /\ editing[m] # Absent /\ editing[m] \in AskedOf(Len(versions))
               /\ editing[m].op \in LayoutOps /\ draft \in DOMAIN versions
               /\ versions' \in Seq(Versions) /\ Len(versions') = Len(versions)
               /\ layout' = [draft |-> NoVersion, published |-> draft]
               /\ layout' \in Pointers(Len(versions))
               /\ \A v \in DOMAIN versions :
                     /\ versions'[v].content = versions[v].content
                     /\ v = before =>
                            /\ versions'[v].status = "archived"
                            /\ versions'[v].history = versions[v].history
                            /\ versions'[v].fingerprint = versions[v].fingerprint
                     /\ v = draft /\ v # before =>
                            /\ versions'[v].status = "published" /\ versions'[v].history = <<>>
                            /\ versions'[v].fingerprint = versions[v].content
                     /\ v # draft /\ v # before => versions'[v] = versions[v]
  <1> DEFINE draft == editing[m].seen.draft
             before == editing[m].seen.published
  <1>1. editing[m] # Absent /\ editing[m].op \in LayoutOps /\ Exists(draft)
    BY DEF Publish, Asked, LayoutOps
  <1>2. editing[m] \in AskedOf(Len(versions)) /\ draft \in DOMAIN versions
    BY <1>1, RequestParts DEF Exists
  <1>3. /\ versions' = Published(draft, before) /\ layout' = [draft |-> NoVersion, published |-> draft]
        /\ versions \in Seq(Versions) /\ DOMAIN versions = 1..Len(versions) /\ Len(versions) \in Nat
    BY DEF Publish, VersionTypes
  <1> HIDE DEF draft, before
  <1>4. layout' \in Pointers(Len(versions))
    BY <1>2, <1>3 DEF Pointers, NoVersion
  <1>5. ASSUME NEW v \in DOMAIN versions
        PROVE  /\ versions'[v] \in Versions
               /\ versions'[v].content = versions[v].content
               /\ v = before =>
                      /\ versions'[v].status = "archived"
                      /\ versions'[v].history = versions[v].history
                      /\ versions'[v].fingerprint = versions[v].fingerprint
               /\ v = draft /\ v # before =>
                      /\ versions'[v].status = "published" /\ versions'[v].history = <<>>
                      /\ versions'[v].fingerprint = versions[v].content
               /\ v # draft /\ v # before => versions'[v] = versions[v]
    <2>1. versions[v] \in Versions /\ <<>> \in Seq(Entry)
      BY <1>3
    <2>2. CASE v = before
      <3>1. versions'[v] = [versions[v] EXCEPT !.status = "archived"]
        BY <1>3, <2>2 DEF Published
      <3> QED
        BY <2>1, <2>2, <3>1 DEF Versions
    <2>3. CASE v = draft /\ v # before
      <3>1. versions'[v] = [versions[v] EXCEPT !.status = "published", !.history = <<>>,
                                               !.fingerprint = versions[v].content]
        BY <1>3, <2>3 DEF Published
      <3> QED
        BY <2>1, <2>3, <3>1 DEF Versions
    <2>4. CASE v # draft /\ v # before
      <3>1. versions'[v] = versions[v]
        BY <1>3, <2>4 DEF Published
      <3> QED
        BY <2>1, <2>4, <3>1
    <2> QED
      BY <2>2, <2>3, <2>4
  <1>6. versions' \in Seq(Versions) /\ Len(versions') = Len(versions)
    <2>1. DOMAIN versions' = 1..Len(versions)
      BY <1>3 DEF Published
    <2>2. versions' = [v \in 1..Len(versions) |-> versions'[v]]
      BY <1>3 DEF Published
    <2> QED
      BY <1>3, <1>5, <2>1, <2>2
  <1> QED
    BY <1>1, <1>2, <1>3, <1>4, <1>5, <1>6 DEF draft, before

\* A version is given a content and a history.
LEMMA VersionChanged ==
    ASSUME VersionTypes, NEW v \in DOMAIN versions, NEW c \in Content, NEW h \in Seq(Entry),
           versions' = [versions EXCEPT ![v] = [@ EXCEPT !.content = c, !.history = h]]
    PROVE  /\ versions' \in Seq(Versions) /\ Len(versions') = Len(versions)
           /\ versions'[v].content = c /\ versions'[v].history = h
           /\ versions'[v].status = versions[v].status
           /\ versions'[v].fingerprint = versions[v].fingerprint
           /\ \A u \in DOMAIN versions : u # v => versions'[u] = versions[u]
  <1>1. versions \in Seq(Versions) /\ versions[v] \in Versions
    BY DEF VersionTypes
  <1> DEFINE r == [versions[v] EXCEPT !.content = c, !.history = h]
  <1>2. /\ r \in Versions /\ r.content = c /\ r.history = h /\ r.status = versions[v].status
        /\ r.fingerprint = versions[v].fingerprint
    BY <1>1 DEF Versions
  <1>3. versions' = [versions EXCEPT ![v] = r]
    OBVIOUS
  <1> HIDE DEF r
  <1>4. /\ versions' \in Seq(Versions) /\ Len(versions') = Len(versions) /\ versions'[v] = r
        /\ \A u \in DOMAIN versions : u # v => versions'[u] = versions[u]
    <2>1. r \in Versions
      BY <1>2
    <2> QED
      BY <1>1, <1>3, <2>1
  <1> QED
    BY <1>2, <1>4

LEMMA WriteMakes ==
    ASSUME VersionTypes, NEW m \in Designers, NEW c \in Contents, WriteEdit(m, c)
    PROVE  LET v == editing[m].target
           IN  /\ editing[m] # Absent /\ v \in DOMAIN versions /\ editing[m] \in EditsOf(Len(versions))
               /\ versions' \in Seq(Versions) /\ Len(versions') = Len(versions)
               /\ versions'[v].content = c /\ versions'[v].history = versions[v].history
               /\ versions'[v].status = versions[v].status
               /\ versions'[v].fingerprint = versions[v].fingerprint
               /\ \A u \in DOMAIN versions : u # v => versions'[u] = versions[u]
  <1> DEFINE v == editing[m].target
  <1>1. editing[m] # Absent /\ editing[m].op = "looked"
    BY DEF WriteEdit, Asked
  <1>2. editing[m] \in EditsOf(Len(versions)) /\ v \in DOMAIN versions
    BY <1>1, RequestParts
  <1>3. versions' = [versions EXCEPT ![v].content = c] /\ c \in Content /\ versions \in Seq(Versions)
    BY DEF WriteEdit, Content, VersionTypes
  <1> HIDE DEF v
  <1>4. versions[v] \in Versions /\ versions[v].history \in Seq(Entry)
    <2>1. versions[v] \in Versions
      BY <1>2, <1>3
    <2> QED
      BY <2>1 DEF Versions
  <1>5. [versions[v] EXCEPT !.content = c] = [versions[v] EXCEPT !.content = c, !.history = versions[v].history]
    BY <1>4 DEF Versions
  <1>6. versions' = [versions EXCEPT ![v] = [@ EXCEPT !.content = c, !.history = versions[v].history]]
    BY <1>3, <1>5
  <1>7. /\ versions' \in Seq(Versions) /\ Len(versions') = Len(versions)
        /\ versions'[v].content = c /\ versions'[v].history = versions[v].history
        /\ versions'[v].status = versions[v].status
        /\ versions'[v].fingerprint = versions[v].fingerprint
        /\ \A u \in DOMAIN versions : u # v => versions'[u] = versions[u]
    BY <1>2, <1>3, <1>4, <1>6, VersionChanged
  <1> QED
    BY <1>1, <1>2, <1>7 DEF v

\* An entry of a history is marked: nothing else of the history changes.
SameBut(g, h, n) ==
    /\ Len(g) = Len(h)
    /\ \A i \in DOMAIN h : g[i].before = h[i].before /\ g[i].after = h[i].after
    /\ \A i \in DOMAIN h : i # n => g[i] = h[i]

LEMMA EntryMarked ==
    ASSUME NEW h \in Seq(Entry), NEW n \in DOMAIN h, NEW r \in Entry,
           r.before = h[n].before, r.after = h[n].after, NEW g, g = ReplaceAt(h, n, r)
    PROVE  /\ g \in Seq(Entry) /\ g[n] = r /\ SameBut(g, h, n)
           /\ Chained(h) => Chained(g)
  <1>1. DOMAIN h = 1..Len(h) /\ Len(h) \in Nat
    OBVIOUS
  <1>4. g \in Seq(Entry) /\ Len(g) = Len(h) /\ g[n] = r /\ \A i \in DOMAIN h : i # n => g[i] = h[i]
    BY DEF ReplaceAt
  <1>5. \A i \in DOMAIN h : g[i].before = h[i].before /\ g[i].after = h[i].after
    BY <1>4
  <1>6. Chained(h) => Chained(g)
    <2> SUFFICES ASSUME Chained(h), NEW i \in DOMAIN g, i > 1 PROVE g[i].before = g[i - 1].after
      BY DEF Chained
    <2>1. i \in DOMAIN h /\ i - 1 \in DOMAIN h
      BY <1>1, <1>4
    <2>2. h[i].before = h[i - 1].after
      BY <2>1 DEF Chained
    <2> QED
      BY <1>5, <2>1, <2>2
  <1> QED
    BY <1>4, <1>5, <1>6 DEF SameBut

\* The last entry that is done is undone: the content goes back to what the
\* entry started from.
LEMMA UndoneIsStack ==
    ASSUME NEW h \in Seq(Entry), StackOf(h), Done(h) # {}, NEW n, n = Cardinality(Done(h)),
           NEW r \in Entry, r.before = h[n].before, r.after = h[n].after, r.undone,
           NEW g, g = ReplaceAt(h, n, r)
    PROVE  /\ n \in DOMAIN h /\ g \in Seq(Entry) /\ Len(g) = Len(h) /\ StackOf(g)
           /\ Chained(h) => Chained(g) /\ h[n].before = Top(g)
  <1>1. n \in 1..Len(h) /\ DOMAIN h = 1..Len(h) /\ Len(h) \in Nat
    <2>1. n \in 0..Len(h) /\ n > 0
      BY StackParts
    <2>2. DOMAIN h = 1..Len(h) /\ Len(h) \in Nat
      OBVIOUS
    <2> QED
      BY <2>1, <2>2
  <1>2. /\ g \in Seq(Entry) /\ Len(g) = Len(h) /\ g[n] = r
        /\ \A i \in DOMAIN h : g[i].before = h[i].before /\ g[i].after = h[i].after
        /\ \A i \in DOMAIN h : i # n => g[i] = h[i]
        /\ Chained(h) => Chained(g)
    <2>1. n \in DOMAIN h
      BY <1>1
    <2>2. g \in Seq(Entry) /\ g[n] = r /\ SameBut(g, h, n) /\ (Chained(h) => Chained(g))
      BY <2>1, EntryMarked
    <2> QED
      BY <2>2 DEF SameBut
  <1>3. \A i \in DOMAIN g : g[i].undone <=> i > n - 1
    <2> SUFFICES ASSUME NEW i \in DOMAIN g PROVE g[i].undone <=> i > n - 1
      OBVIOUS
    <2>1. i \in DOMAIN h /\ i \in 1..Len(h)
      BY <1>1, <1>2
    <2>2. CASE i = n
      <3>1. i > n - 1
        BY <1>1, <2>2
      <3> QED
        BY <1>2, <2>2, <3>1, Zenon
    <2>3. CASE i # n
      <3>1. i > n <=> i > n - 1
        BY <1>1, <2>1, <2>3
      <3>2. h[i].undone <=> i > n
        BY <2>1, Zenon DEF StackOf
      <3>3. g[i] = h[i]
        BY <1>2, <2>1, <2>3
      <3> QED
        BY <3>1, <3>2, <3>3, Zenon
    <2> QED
      BY <2>2, <2>3
  <1>4. StackOf(g) /\ Done(g) = 1..(n - 1) /\ Cardinality(Done(g)) = n - 1
    <2>1. n - 1 \in 0..Len(g)
      BY <1>1, <1>2
    <2> QED
      BY <1>2, <1>3, <2>1, StackUpTo
  <1>5. ASSUME Chained(h) PROVE h[n].before = Top(g)
    <2>1. CASE n = 1
      <3>1. Done(g) = {}
        <4>1. 1..(n - 1) = {}
          BY <2>1
        <4> QED
          BY <1>4, <4>1
      <3> QED
        BY <1>1, <1>2, <2>1, <3>1 DEF Top
    <2>2. CASE n > 1
      <3>1. Done(g) # {} /\ n - 1 \in DOMAIN h
        BY <1>1, <1>4, <2>2
      <3>2. h[n].before = h[n - 1].after
        BY <1>1, <1>5, <2>2 DEF Chained
      <3> QED
        BY <1>2, <1>4, <3>1, <3>2 DEF Top
    <2> QED
      BY <1>1, <2>1, <2>2
  <1> QED
    BY <1>1, <1>2, <1>4, <1>5

\* The first entry that is undone is redone.
LEMMA RedoneIsStack ==
    ASSUME NEW h \in Seq(Entry), StackOf(h), Done(h) # DOMAIN h, NEW n, n = Cardinality(Done(h)) + 1,
           NEW r \in Entry, r.before = h[n].before, r.after = h[n].after, ~r.undone,
           NEW g, g = ReplaceAt(h, n, r)
    PROVE  /\ n \in DOMAIN h /\ g \in Seq(Entry) /\ Len(g) = Len(h) /\ StackOf(g)
           /\ Chained(h) => Chained(g)
           /\ h[n].after = Top(g)
  <1>1. n \in 1..Len(h) /\ DOMAIN h = 1..Len(h) /\ Len(h) \in Nat
    <2> DEFINE c == Cardinality(Done(h))
    <2>1. c \in 0..Len(h) /\ c < Len(h)
      BY StackParts
    <2>2. DOMAIN h = 1..Len(h) /\ Len(h) \in Nat
      OBVIOUS
    <2> HIDE DEF c
    <2>3. n = c + 1
      BY DEF c
    <2> QED
      BY <2>1, <2>2, <2>3
  <1>2. /\ g \in Seq(Entry) /\ Len(g) = Len(h) /\ g[n] = r
        /\ \A i \in DOMAIN h : g[i].before = h[i].before /\ g[i].after = h[i].after
        /\ \A i \in DOMAIN h : i # n => g[i] = h[i]
        /\ Chained(h) => Chained(g)
    <2>1. n \in DOMAIN h
      BY <1>1
    <2>2. g \in Seq(Entry) /\ g[n] = r /\ SameBut(g, h, n) /\ (Chained(h) => Chained(g))
      BY <2>1, EntryMarked
    <2> QED
      BY <2>2 DEF SameBut
  <1>3. \A i \in DOMAIN g : g[i].undone <=> i > n
    <2> SUFFICES ASSUME NEW i \in DOMAIN g PROVE g[i].undone <=> i > n
      OBVIOUS
    <2>1. i \in DOMAIN h /\ i \in 1..Len(h)
      BY <1>1, <1>2
    <2>2. CASE i = n
      <3>1. ~(i > n)
        BY <1>1, <2>2
      <3> QED
        BY <1>2, <2>2, <3>1, Zenon
    <2>3. CASE i # n
      <3>1. i > Cardinality(Done(h)) <=> i > n
        <4> DEFINE c == Cardinality(Done(h))
        <4>1. c \in 0..Len(h) /\ n = c + 1
          BY StackParts
        <4> HIDE DEF c
        <4>2. i > c <=> i > n
          BY <1>1, <2>1, <2>3, <4>1
        <4> QED
          BY <4>2 DEF c
      <3>2. h[i].undone <=> i > Cardinality(Done(h))
        BY <2>1, Zenon DEF StackOf
      <3>3. g[i] = h[i]
        BY <1>2, <2>1, <2>3
      <3> QED
        BY <3>1, <3>2, <3>3, Zenon
    <2> QED
      BY <2>2, <2>3
  <1>4. StackOf(g) /\ Done(g) = 1..n /\ Cardinality(Done(g)) = n
    <2>1. n \in 0..Len(g)
      BY <1>1, <1>2
    <2> QED
      BY <1>2, <1>3, <2>1, StackUpTo
  <1>5. h[n].after = Top(g)
    <2>1. Done(g) # {}
      <3>1. n \in 1..n
        BY <1>1
      <3> QED
        BY <1>4, <3>1
    <2> QED
      BY <1>1, <1>2, <1>4, <2>1 DEF Top
  <1> QED
    BY <1>1, <1>2, <1>4, <1>5

\* What undo, redo and the recording of an edit make of a draft.
LEMMA UndoMakes ==
    ASSUME VersionTypes, NEW m \in Designers, Undo(m), StackOf(versions[layout.draft].history)
    PROVE  LET v == layout.draft
               h == versions[v].history
               g == versions'[v].history
           IN  /\ v \in DOMAIN versions /\ versions[v].status = "draft"
               /\ versions' \in Seq(Versions) /\ Len(versions') = Len(versions)
               /\ versions'[v].status = "draft"
               /\ versions'[v].fingerprint = versions[v].fingerprint
               /\ \A u \in DOMAIN versions : u # v => versions'[u] = versions[u]
               /\ StackOf(g) /\ Len(g) = Len(h)
               /\ Chained(h) => Chained(g) /\ versions'[v].content = Top(g)
  <1> DEFINE v == layout.draft
             h == versions[v].history
             n == Cardinality(Done(h))
             r == [h[n] EXCEPT !.undone = TRUE]
             g == ReplaceAt(h, n, r)
  <1>1. v \in DOMAIN versions /\ versions[v].status = "draft" /\ Done(h) # {}
    BY DEF Undo, IsDraft, Exists
  <1>2. versions[v] \in Versions /\ versions \in Seq(Versions)
    BY <1>1 DEF VersionTypes
  <1>3. h \in Seq(Entry) /\ StackOf(h)
    BY <1>2 DEF Versions
  <1>4. n \in DOMAIN h /\ Max(Done(h)) = n
    <2>1. n = Cardinality(Done(h))
      OBVIOUS
    <2> HIDE DEF h, n
    <2>2. n \in 0..Len(h) /\ n > 0 /\ Max(Done(h)) = n
      BY <1>1, <1>3, <2>1, StackParts
    <2> QED
      BY <1>3, <2>2
  <1>5. /\ g \in Seq(Entry) /\ Len(g) = Len(h) /\ StackOf(g)
        /\ Chained(h) => Chained(g) /\ h[n].before = Top(g)
    <2>1. n = Cardinality(Done(h)) /\ g = ReplaceAt(h, n, r)
      OBVIOUS
    <2>2. r \in Entry /\ r.before = h[n].before /\ r.after = h[n].after /\ r.undone
      <3>1. h[n] \in Entry
        BY <1>3, <1>4
      <3> QED
        BY <3>1 DEF Entry
    <2> HIDE DEF h, n, g, r
    <2> QED
      BY <1>1, <1>3, <2>1, <2>2, UndoneIsStack
  <1>6. h[n].before \in Content
    <2> HIDE DEF h, n
    <2>1. h[n] \in Entry
      BY <1>3, <1>4
    <2> QED
      BY <2>1 DEF Entry
  <1>7. versions' = [versions EXCEPT ![v] = [@ EXCEPT !.content = h[n].before, !.history = g]]
    <2>1. versions' = [versions EXCEPT ![v].content = h[Max(Done(h))].before,
                                       ![v].history[Max(Done(h))].undone = TRUE]
      BY DEF Undo
    <2>2. versions' = [versions EXCEPT ![v].content = h[n].before, ![v].history[n].undone = TRUE]
      BY <1>4, <2>1
    <2>3. [versions[v] EXCEPT !.content = h[n].before].history = h
      BY <1>2 DEF Versions
    <2> QED
      BY <1>1, <1>2, <2>2, <2>3 DEF ReplaceAt
  <1> HIDE DEF g, n
  <1>8. /\ versions' \in Seq(Versions) /\ Len(versions') = Len(versions)
        /\ versions'[v].content = h[n].before /\ versions'[v].history = g
        /\ versions'[v].status = versions[v].status
        /\ versions'[v].fingerprint = versions[v].fingerprint
        /\ \A u \in DOMAIN versions : u # v => versions'[u] = versions[u]
    BY <1>1, <1>5, <1>6, <1>7, VersionChanged
  <1> QED
    BY <1>1, <1>5, <1>8

LEMMA RedoMakes ==
    ASSUME VersionTypes, NEW m \in Designers, Redo(m), StackOf(versions[layout.draft].history)
    PROVE  LET v == layout.draft
               h == versions[v].history
               g == versions'[v].history
           IN  /\ v \in DOMAIN versions /\ versions[v].status = "draft"
               /\ versions' \in Seq(Versions) /\ Len(versions') = Len(versions)
               /\ versions'[v].status = "draft"
               /\ versions'[v].fingerprint = versions[v].fingerprint
               /\ \A u \in DOMAIN versions : u # v => versions'[u] = versions[u]
               /\ StackOf(g) /\ Len(g) = Len(h)
               /\ Chained(h) => Chained(g)
               /\ versions'[v].content = Top(g)
  <1> DEFINE v == layout.draft
             h == versions[v].history
             n == Cardinality(Done(h)) + 1
             r == [h[n] EXCEPT !.undone = FALSE]
             g == ReplaceAt(h, n, r)
  <1>1. v \in DOMAIN versions /\ versions[v].status = "draft" /\ Done(h) # DOMAIN h
    BY DEF Redo, IsDraft, Exists
  <1>2. versions[v] \in Versions /\ versions \in Seq(Versions)
    BY <1>1 DEF VersionTypes
  <1>3. h \in Seq(Entry) /\ StackOf(h)
    BY <1>2 DEF Versions
  <1>4. n \in DOMAIN h /\ Min(DOMAIN h \ Done(h)) = n
    <2> DEFINE c == Cardinality(Done(h))
    <2>1. n = c + 1 /\ c = Cardinality(Done(h))
      OBVIOUS
    <2> HIDE DEF h, n, c
    <2>2. c \in 0..Len(h) /\ c < Len(h) /\ Min(DOMAIN h \ Done(h)) = c + 1
      BY <1>1, <1>3, <2>1, StackParts
    <2>3. c + 1 \in DOMAIN h
      BY <1>3, <2>2
    <2> QED
      BY <2>1, <2>2, <2>3
  <1>5. /\ g \in Seq(Entry) /\ Len(g) = Len(h) /\ StackOf(g)
        /\ Chained(h) => Chained(g)
        /\ h[n].after = Top(g)
    <2>1. n = Cardinality(Done(h)) + 1 /\ g = ReplaceAt(h, n, r)
      OBVIOUS
    <2>2. r \in Entry /\ r.before = h[n].before /\ r.after = h[n].after /\ ~r.undone
      <3>1. h[n] \in Entry
        BY <1>3, <1>4
      <3> QED
        BY <3>1 DEF Entry
    <2> HIDE DEF h, n, g, r
    <2> QED
      BY <1>1, <1>3, <2>1, <2>2, RedoneIsStack
  <1>6. h[n].after \in Content
    <2> HIDE DEF h, n
    <2>1. h[n] \in Entry
      BY <1>3, <1>4
    <2> QED
      BY <2>1 DEF Entry
  <1>7. versions' = [versions EXCEPT ![v] = [@ EXCEPT !.content = h[n].after, !.history = g]]
    <2>1. versions' = [versions EXCEPT ![v].content = h[Min(DOMAIN h \ Done(h))].after,
                                       ![v].history[Min(DOMAIN h \ Done(h))].undone = FALSE]
      BY DEF Redo
    <2>2. versions' = [versions EXCEPT ![v].content = h[n].after, ![v].history[n].undone = FALSE]
      BY <1>4, <2>1
    <2>3. [versions[v] EXCEPT !.content = h[n].after].history = h
      BY <1>2 DEF Versions
    <2> QED
      BY <1>1, <1>2, <2>2, <2>3 DEF ReplaceAt
  <1> HIDE DEF g, n
  <1>8. /\ versions' \in Seq(Versions) /\ Len(versions') = Len(versions)
        /\ versions'[v].content = h[n].after /\ versions'[v].history = g
        /\ versions'[v].status = versions[v].status
        /\ versions'[v].fingerprint = versions[v].fingerprint
        /\ \A u \in DOMAIN versions : u # v => versions'[u] = versions[u]
    BY <1>1, <1>5, <1>6, <1>7, VersionChanged
  <1> QED
    BY <1>1, <1>5, <1>8

\* An edit is recorded if the draft is still one, and was changed.
Records(m) ==
    IsDraft(editing[m].draft) /\ versions[editing[m].draft].content # editing[m].before

LEMMA RecordMakes ==
    ASSUME VersionTypes, NEW m \in Designers, RecordEdit(m),
           StackOf(versions[editing[m].draft].history)
    PROVE  LET v == editing[m].draft
               h == versions[v].history
               g == versions'[v].history
           IN  /\ editing[m] # Absent /\ editing[m].op = "written" /\ v \in DOMAIN versions
               /\ versions' \in Seq(Versions) /\ Len(versions') = Len(versions)
               /\ versions'[v].status = versions[v].status
               /\ versions'[v].content = versions[v].content
               /\ versions'[v].fingerprint = versions[v].fingerprint
               /\ \A u \in DOMAIN versions : u # v => versions'[u] = versions[u]
               /\ ~Records(m) => g = h
               /\ Records(m) =>
                      /\ StackOf(g) /\ Len(g) <= MaxHistory /\ g # <<>>
                      /\ versions'[v].content = Top(g)
                      /\ (Chained(h) /\ (h # <<>> => editing[m].before = Top(h))) => Chained(g)
  <1> DEFINE v == editing[m].draft
             h == versions[v].history
             e == [before |-> editing[m].before, after |-> versions[v].content, undone |-> FALSE]
             g == Recorded(h, e)
  <1>1. editing[m] # Absent /\ editing[m].op = "written"
    BY DEF RecordEdit, Asked
  <1>2. editing[m] \in EditsOf(Len(versions))
    BY <1>1, RequestParts
  <1>3. v \in DOMAIN versions /\ editing[m].before \in Content /\ versions \in Seq(Versions)
    <2>1. v \in 1..Len(versions) /\ editing[m].before \in Content
      BY <1>2 DEF EditsOf
    <2> QED
      BY <2>1 DEF VersionTypes
  <1>4. versions[v] \in Versions
    BY <1>3
  <1>5. h \in Seq(Entry) /\ StackOf(h) /\ versions[v].content \in Content
    BY <1>4 DEF Versions
  <1>6. CASE ~Records(m)
    <2>1. versions' = versions
      BY <1>6 DEF RecordEdit, Records
    <2> QED
      BY <1>1, <1>3, <1>6, <2>1
  <1>7. CASE Records(m)
    <2>1. e \in Entry /\ ~e.undone /\ e.before = editing[m].before /\ e.after = versions[v].content
      BY <1>3, <1>5 DEF Entry
    <2>2. /\ g \in Seq(Entry) /\ Len(g) \in 1..MaxHistory /\ StackOf(g)
          /\ Cardinality(Done(g)) = Len(g) /\ Done(g) # {} /\ g[Len(g)] = e
          /\ Chained(h) /\ (h # <<>> => e.before = Top(h)) /\ Done(h) # {} => Chained(g)
          /\ Done(h) = {} => Chained(g)
      <3> HIDE DEF h, e
      <3> QED
        BY <1>5, <2>1, RecordedIsStack
    <2>3. versions' = [versions EXCEPT ![v] = [@ EXCEPT !.content = versions[v].content, !.history = g]]
      <3>1. versions' = [versions EXCEPT ![v].history = Recorded(versions[v].history, e)]
        BY <1>7 DEF RecordEdit, Records
      <3>2. [versions[v] EXCEPT !.history = g] = [versions[v] EXCEPT !.content = versions[v].content, !.history = g]
        <4> HIDE DEF g
        <4> QED
          BY <1>4 DEF Versions
      <3> HIDE DEF e
      <3> QED
        BY <1>3, <3>1, <3>2
    <2> HIDE DEF g
    <2>4. /\ versions' \in Seq(Versions) /\ Len(versions') = Len(versions)
          /\ versions'[v].content = versions[v].content /\ versions'[v].history = g
          /\ versions'[v].status = versions[v].status
          /\ versions'[v].fingerprint = versions[v].fingerprint
          /\ \A u \in DOMAIN versions : u # v => versions'[u] = versions[u]
      BY <1>3, <1>5, <2>2, <2>3, VersionChanged
    <2>5. versions'[v].content = Top(g) /\ g # <<>> /\ Len(g) <= MaxHistory
      <3>1. Top(g) = e.after
        BY <2>2 DEF Top
      <3>2. g # <<>> /\ Len(g) <= MaxHistory
        BY <2>2, LayoutIsBounded
      <3> QED
        BY <2>1, <2>4, <3>1, <3>2
    <2>6. (Chained(h) /\ (h # <<>> => editing[m].before = Top(h))) => Chained(g)
      BY <2>1, <2>2
    <2> QED
      BY <1>1, <1>3, <1>7, <2>2, <2>4, <2>5, <2>6
  <1> QED
    BY <1>6, <1>7

\* Types are kept.
LEMMA VersionTypesKept ==
    ASSUME VersionTypes, \A v \in DOMAIN versions : StackOf(versions[v].history),
           [LayoutVersionsNext]_layoutVars
    PROVE  VersionTypes'
  <1> DEFINE n == Len(versions)
             k == Len(versions')
  <1>1. /\ versions \in Seq(Versions) /\ n \in Nat /\ DOMAIN versions = 1..n /\ n <= MaxVersions
        /\ layout \in Pointers(n) /\ editing \in [Designers -> {Absent} \cup AskedOf(n) \cup EditsOf(n)]
        /\ MaxVersions \in Nat
    BY LayoutIsBounded DEF VersionTypes
  <1>2. Len(<<>>) = 0 /\ MaxHistory \in Nat
    BY LayoutIsBounded
  <1>3. ASSUME NEW m \in Designers,
               versions' = versions, layout' = layout,
               NEW r \in {Absent} \cup AskedOf(n) \cup EditsOf(n), editing' = [editing EXCEPT ![m] = r]
        PROVE  VersionTypes'
    BY <1>1, <1>3 DEF VersionTypes
  <1>4. ASSUME NEW m \in Designers,
               versions' \in Seq(Versions), k \in Nat, n <= k, k <= MaxVersions,
               \A v \in DOMAIN versions' : Len(versions'[v].history) <= MaxHistory,
               layout' \in Pointers(k),
               NEW r \in {Absent} \cup AskedOf(k) \cup EditsOf(k), editing' = [editing EXCEPT ![m] = r]
        PROVE  VersionTypes'
    <2> HIDE DEF n, k
    <2>1. AskedOf(n) \subseteq AskedOf(k) /\ EditsOf(n) \subseteq EditsOf(k)
      BY <1>1, <1>4, RequestsGrow
    <2>2. editing' \in [Designers -> {Absent} \cup AskedOf(k) \cup EditsOf(k)]
      BY <1>1, <1>4, <2>1
    <2> QED
      BY <1>4, <2>2 DEF VersionTypes, k
  <1>5. \A v \in DOMAIN versions : Len(versions[v].history) <= MaxHistory
    BY DEF VersionTypes
  <1>6. SUFFICES ASSUME LayoutVersionsNext PROVE VersionTypes'
    BY DEF layoutVars, VersionTypes
  <1>7. PICK m \in Designers :
          \/ \E op \in LayoutOps, v \in 0..MaxVersions : Ask(m, op, v)
          \/ Open(m) \/ Restore(m) \/ ApplyIndustry(m) \/ Discard(m) \/ Publish(m)
          \/ Dismiss(m)
          \/ BeginEdit(m) \/ LookForEdit(m) \/ RecordEdit(m)
          \/ \E c \in Contents : WriteEdit(m, c)
          \/ Undo(m) \/ Redo(m)
    BY <1>6 DEF LayoutVersionsNext
  <1>8. CASE \E op \in LayoutOps, v \in 0..MaxVersions : Ask(m, op, v)
    <2>1. PICK op \in LayoutOps, v \in 0..MaxVersions : Ask(m, op, v)
      BY <1>8
    <2>2. v \in 0..n
      BY <1>1, <2>1 DEF Ask, Exists, NoVersion
    <2> DEFINE r == [op |-> op, seen |-> layout, source |-> v]
    <2>3. r \in AskedOf(n)
      <3> HIDE DEF n
      <3> QED
        BY <1>1, <2>2 DEF AskedOf
    <2>4. editing' = [editing EXCEPT ![m] = r] /\ versions' = versions /\ layout' = layout
      BY <2>1 DEF Ask
    <2> HIDE DEF r
    <2> QED
      BY <1>3, <2>3, <2>4
  <1>9. CASE Open(m) \/ Restore(m) \/ ApplyIndustry(m)
    <2>1. PICK content \in Content : NewDraft(m, content)
      BY <1>9, NewDrafts
    <2>2. editing[m] \in AskedOf(n)
      BY <1>9, NewDrafts
    <2> DEFINE old == editing[m].seen.draft
    <2>3. /\ versions' \in Seq(Versions) /\ k = n + 1 /\ k <= MaxVersions
          /\ versions'[k] = Draft(content)
          /\ \A v \in DOMAIN versions : versions'[v] = IF v = old THEN Gone ELSE versions[v]
          /\ layout' \in Pointers(k)
      BY <2>1, <2>2, NewDraftMakes
    <2>4. editing' = [editing EXCEPT ![m] = Absent]
      BY <2>1 DEF NewDraft, Acted, Answer
    <2>5. ASSUME NEW v \in DOMAIN versions' PROVE Len(versions'[v].history) <= MaxHistory
      <3>1. v \in 1..n \/ v = k
        BY <1>1, <2>3
      <3> QED
        BY <1>1, <1>2, <1>5, <2>3, <3>1 DEF Draft, Gone
    <2> HIDE DEF n, k, old
    <2>6. k \in Nat /\ n <= k
      BY <1>1, <2>3
    <2> QED
      BY <1>4, <2>3, <2>4, <2>5, <2>6
  <1>10. CASE Discard(m)
    <2> DEFINE old == editing[m].seen.draft
    <2>1. /\ versions' \in Seq(Versions) /\ k = n
          /\ \A v \in DOMAIN versions : versions'[v] = IF v = old THEN Gone ELSE versions[v]
          /\ layout' \in Pointers(n)
      BY <1>10, DiscardMakes
    <2>2. editing' = [editing EXCEPT ![m] = Absent]
      BY <1>10 DEF Discard, Acted, Answer
    <2>3. ASSUME NEW v \in DOMAIN versions' PROVE Len(versions'[v].history) <= MaxHistory
      BY <1>1, <1>2, <1>5, <2>1 DEF Gone
    <2> HIDE DEF n, k, old
    <2>9. /\ k \in Nat /\ n <= k /\ k <= MaxVersions /\ layout' \in Pointers(k)
          /\ Absent \in {Absent} \cup AskedOf(k) \cup EditsOf(k)
      BY <1>1, <2>1
    <2> QED
      BY <1>4, <2>9, <2>1, <2>2, <2>3
  <1>11. CASE Publish(m)
    <2> DEFINE draft == editing[m].seen.draft
               before == editing[m].seen.published
    <2>1. /\ versions' \in Seq(Versions) /\ k = n /\ layout' \in Pointers(n)
          /\ \A v \in DOMAIN versions :
                versions'[v].history = <<>> \/ versions'[v].history = versions[v].history
      BY <1>11, PublishMakes
    <2>2. editing' = [editing EXCEPT ![m] = Absent]
      BY <1>11 DEF Publish, Acted, Answer
    <2>3. ASSUME NEW v \in DOMAIN versions' PROVE Len(versions'[v].history) <= MaxHistory
      BY <1>1, <1>2, <1>5, <2>1
    <2> HIDE DEF n, k
    <2>9. /\ k \in Nat /\ n <= k /\ k <= MaxVersions /\ layout' \in Pointers(k)
          /\ Absent \in {Absent} \cup AskedOf(k) \cup EditsOf(k)
      BY <1>1, <2>1
    <2> QED
      BY <1>4, <2>9, <2>1, <2>2, <2>3
  <1>12. CASE Dismiss(m)
    BY <1>3, <1>12 DEF Dismiss, Answer
  <1>13. CASE BeginEdit(m)
    <2> DEFINE r == [op |-> "begun", draft |-> layout.draft,
                     before |-> versions[layout.draft].content, target |-> NoVersion]
    <2>1. layout.draft \in DOMAIN versions
      BY <1>13 DEF BeginEdit, IsDraft, Exists
    <2>2. versions[layout.draft] \in Versions
      BY <1>1, <2>1
    <2>3. versions[layout.draft].content \in Content
      BY <2>2 DEF Versions
    <2>4. r \in EditsOf(n)
      <3> HIDE DEF n
      <3> QED
        BY <1>1, <2>1, <2>3 DEF EditsOf
    <2>5. editing' = [editing EXCEPT ![m] = r] /\ versions' = versions /\ layout' = layout
      BY <1>13 DEF BeginEdit
    <2> HIDE DEF r
    <2> QED
      BY <1>3, <2>4, <2>5
  <1>14. CASE LookForEdit(m)
    <2> DEFINE r == [editing[m] EXCEPT !.op = "looked", !.target = layout.draft]
    <2>1. editing[m] # Absent /\ editing[m].op = "begun" /\ layout.draft \in DOMAIN versions
      BY <1>14 DEF LookForEdit, Asked, Scoped, Exists
    <2>2. editing[m] \in EditsOf(n)
      BY <2>1, RequestParts
    <2>3. r \in EditsOf(n)
      <3> HIDE DEF n
      <3> QED
        BY <1>1, <2>1, <2>2 DEF EditsOf
    <2>4. editing' = [editing EXCEPT ![m] = r] /\ versions' = versions /\ layout' = layout
      BY <1>1, <1>14 DEF LookForEdit, Scoped
    <2> HIDE DEF r
    <2> QED
      BY <1>3, <2>3, <2>4
  <1>15. CASE RecordEdit(m)
    <2> DEFINE d == editing[m].draft
    <2>1. d \in DOMAIN versions
      <3>1. editing[m] # Absent /\ editing[m].op = "written"
        BY <1>15 DEF RecordEdit, Asked
      <3>2. editing[m] \in EditsOf(n)
        BY <3>1, RequestParts
      <3> HIDE DEF n
      <3> QED
        BY <1>1, <3>2 DEF EditsOf
    <2>2. /\ versions' \in Seq(Versions) /\ k = n
          /\ \A u \in DOMAIN versions : u # d => versions'[u] = versions[u]
          /\ ~Records(m) => versions'[d].history = versions[d].history
          /\ Records(m) => Len(versions'[d].history) <= MaxHistory
      BY <1>15, <2>1, RecordMakes
    <2>3. editing' = [editing EXCEPT ![m] = Absent] /\ layout' = layout
      BY <1>15 DEF RecordEdit, Answer
    <2>4. ASSUME NEW v \in DOMAIN versions' PROVE Len(versions'[v].history) <= MaxHistory
      BY <1>1, <1>5, <2>1, <2>2
    <2> HIDE DEF n, k, d
    <2>9. /\ k \in Nat /\ n <= k /\ k <= MaxVersions /\ layout' \in Pointers(k)
          /\ Absent \in {Absent} \cup AskedOf(k) \cup EditsOf(k)
      BY <1>1, <2>2, <2>3
    <2> QED
      BY <1>4, <2>9, <2>2, <2>3, <2>4
  <1>16. CASE \E c \in Contents : WriteEdit(m, c)
    <2>1. PICK c \in Contents : WriteEdit(m, c)
      BY <1>16
    <2> DEFINE t == editing[m].target
               r == [editing[m] EXCEPT !.op = "written"]
    <2>2. /\ t \in DOMAIN versions /\ editing[m] \in EditsOf(n)
          /\ versions' \in Seq(Versions) /\ k = n
          /\ versions'[t].history = versions[t].history
          /\ \A u \in DOMAIN versions : u # t => versions'[u] = versions[u]
      BY <2>1, WriteMakes
    <2>3. editing' = [editing EXCEPT ![m] = r] /\ layout' = layout /\ editing[m].op = "looked"
      BY <1>1, <2>1 DEF WriteEdit, Asked
    <2>4. r \in EditsOf(n)
      <3> HIDE DEF n
      <3> QED
        BY <2>2, <2>3 DEF EditsOf
    <2>5. ASSUME NEW v \in DOMAIN versions' PROVE Len(versions'[v].history) <= MaxHistory
      BY <1>1, <1>5, <2>2
    <2> HIDE DEF n, k, t, r
    <2>9. /\ k \in Nat /\ n <= k /\ k <= MaxVersions /\ layout' \in Pointers(k)
          /\ r \in {Absent} \cup AskedOf(k) \cup EditsOf(k)
      BY <1>1, <2>2, <2>3, <2>4
    <2> QED
      BY <1>4, <2>9, <2>2, <2>3, <2>5
  <1>17. CASE Undo(m) \/ Redo(m)
    <2> DEFINE d == layout.draft
    <2>1. d \in DOMAIN versions /\ layout' = layout /\ editing' = editing
      BY <1>17 DEF Undo, Redo, IsDraft, Exists
    <2>2. /\ versions' \in Seq(Versions) /\ k = n
          /\ Len(versions'[d].history) = Len(versions[d].history)
          /\ \A u \in DOMAIN versions : u # d => versions'[u] = versions[u]
      BY <1>17, <2>1, UndoMakes, RedoMakes
    <2>3. ASSUME NEW v \in DOMAIN versions' PROVE Len(versions'[v].history) <= MaxHistory
      BY <1>1, <1>5, <2>1, <2>2
    <2> HIDE DEF n, k, d
    <2>4. editing' = [editing EXCEPT ![m] = editing[m]]
          /\ editing[m] \in {Absent} \cup AskedOf(n) \cup EditsOf(n)
      BY <1>1, <2>1
    <2>9. /\ k \in Nat /\ n <= k /\ k <= MaxVersions /\ layout' \in Pointers(k)
          /\ editing[m] \in {Absent} \cup AskedOf(k) \cup EditsOf(k)
      BY <1>1, <2>1, <2>2, <2>4
    <2> QED
      BY <1>4, <2>9, <2>2, <2>3, <2>4
  <1> QED
    BY <1>7, <1>8, <1>9, <1>10, <1>11, <1>12, <1>13, <1>14, <1>15, <1>16, <1>17

\* Steps that leave the status of the versions alone.
LEMMA PointersKept ==
    ASSUME VersionTypes, PointersInv, layout' = layout, crossed' = crossed, raced' = raced,
           DOMAIN versions' = DOMAIN versions,
           \A v \in DOMAIN versions :
               /\ versions'[v].status = versions[v].status
               /\ versions'[v].fingerprint = versions[v].fingerprint
               /\ versions[v].status # "draft" => versions'[v].history = versions[v].history
               /\ \/ versions'[v].content = versions[v].content
                  \/ v \in raced \/ crossed \/ versions[v].status \in {"draft", "gone"},
           \A k \in Designers :
               editing'[k] # Absent /\ editing'[k].op \in LayoutOps => NoDraft(editing'[k].seen.published),
           ~crossed => \A k \in Designers :
               (editing'[k] # Absent /\ editing'[k].op = "looked") =>
                   /\ editing'[k].target \in DOMAIN versions
                   /\ \/ editing'[k].target \in raced
                      \/ versions[editing'[k].target].status \in {"draft", "gone"}
    PROVE  PointersInv'
  <1>1. PointersAgree'
    BY DEF PointersInv, PointersAgree
  <1>2. FingerprintHolds'
    BY DEF PointersInv, FingerprintHolds
  <1>3. NoUndoAfterPublish'
    BY DEF PointersInv, NoUndoAfterPublish
  <1>4. \A v : NoDraft(v) => NoDraft(v)'
    BY DEF NoDraft
  <1>5. NoDraft(layout.published)
    BY DEF PointersInv, PublishedBefore
  <1>6. PublishedBefore'
    <2>1. NoDraft(layout.published)'
      BY <1>5 DEF NoDraft
    <2>2. ASSUME NEW k \in Designers, editing'[k] # Absent, editing'[k].op \in LayoutOps
          PROVE  NoDraft(editing[k].seen.published)'
      <3>1. NoDraft(editing'[k].seen.published)
        BY <2>2
      <3> QED
        BY <3>1 DEF NoDraft
    <2> QED
      BY <2>1, <2>2 DEF PublishedBefore
  <1>7. DraftsEdited'
    BY DEF DraftsEdited, Asked
  <1> QED
    BY <1>1, <1>2, <1>3, <1>6, <1>7 DEF PointersInv

\* A draft that is gone takes the pointers to it with it, a new one gets the
\* other pointer.
LEMMA PointersAtNewDraft ==
    ASSUME VersionTypes, PointersInv, NEW m \in Designers, NEW content \in Content,
           editing[m] \in AskedOf(Len(versions)), NewDraft(m, content)
    PROVE  PointersInv'
  <1> DEFINE old == editing[m].seen.draft
             l == Len(versions)
             n == l + 1
  <1>1. /\ versions' \in Seq(Versions) /\ Len(versions') = n
        /\ versions'[n] = Draft(content)
        /\ \A v \in DOMAIN versions : versions'[v] = IF v = old THEN Gone ELSE versions[v]
        /\ layout' = [draft |-> n, published |-> IF layout.published = old THEN NoVersion
                                                 ELSE layout.published]
    BY NewDraftMakes
  <1>2. /\ DOMAIN versions = 1..l /\ l \in Nat /\ layout \in Pointers(l)
        /\ editing \in [Designers -> {Absent} \cup AskedOf(l) \cup EditsOf(l)]
    BY DEF VersionTypes
  <1>3. /\ crossed' = (crossed \/ editing[m].seen # layout) /\ raced' = raced
        /\ editing' = [editing EXCEPT ![m] = Absent]
    BY DEF NewDraft, Acted, Answer
  <1>4. old \in 0..l /\ editing[m].seen.published \in 0..l
    BY DEF AskedOf, Pointers
  <1>5. DOMAIN versions' = 1..n /\ n \notin DOMAIN versions /\ n > 0
    BY <1>1, <1>2
  <1>6. ~crossed' => ~crossed /\ old = layout.draft
    BY <1>3
  <1> HIDE DEF old, l
  <1>7. layout.draft \in 0..l /\ layout.published \in 0..l
    BY <1>2 DEF Pointers
  <1>8. layout'.draft = n /\ layout'.published = IF layout.published = old THEN 0 ELSE layout.published
    BY <1>1 DEF NoVersion
  <1> HIDE DEF n
  <1>9. \A v \in DOMAIN versions : v # n
    BY <1>5
  <1>10. \A v \in DOMAIN versions' : v = n \/ v \in DOMAIN versions
    BY <1>2, <1>5 DEF n
  <1>11. versions'[n].status = "draft" /\ versions'[n].history = <<>>
    BY <1>1 DEF Draft
  <1>12. \A v \in DOMAIN versions :
           /\ v = old => versions'[v].status = "gone" /\ versions'[v].history = <<>>
           /\ v # old => versions'[v] = versions[v]
    BY <1>1 DEF Gone
  <1>13. PointersAgree'
    <2> SUFFICES ASSUME ~crossed', NEW v \in DOMAIN versions'
                 PROVE  /\ versions'[v].status = "draft" <=> v = layout'.draft
                        /\ versions'[v].status = "published" <=> v = layout'.published
      BY DEF PointersAgree
    <2>1. /\ \A u \in DOMAIN versions : versions[u].status = "draft" <=> u = layout.draft
          /\ \A u \in DOMAIN versions : versions[u].status = "published" <=> u = layout.published
          /\ old = layout.draft
      BY <1>6 DEF PointersInv, PointersAgree
    <2>2. CASE v = n
      <3>1. n # 0 /\ n # layout.published
        BY <1>5, <1>7, <1>2
      <3> QED
        BY <1>8, <1>11, <2>2, <3>1
    <2>3. CASE v \in DOMAIN versions /\ v = old
      <3>1. v # 0 /\ v # n
        BY <1>2, <1>9, <2>3
      <3>2. v # layout'.published
        BY <1>8, <2>3, <3>1
      <3> QED
        BY <1>8, <1>12, <2>3, <3>1, <3>2
    <2>4. CASE v \in DOMAIN versions /\ v # old
      <3>1. v # 0 /\ v # n
        BY <1>2, <1>9, <2>4
      <3>2. versions[v].status # "draft"
        BY <2>1, <2>4
      <3>3. layout.published = old => versions[v].status # "published"
        BY <2>1, <2>4
      <3> QED
        BY <1>8, <1>12, <2>1, <2>4, <3>1, <3>2, <3>3
    <2> QED
      BY <1>10, <2>2, <2>3, <2>4
  <1>14. FingerprintHolds'
    <2> SUFFICES ASSUME NEW v \in DOMAIN versions', v \notin raced,
                        versions'[v].status \in {"published", "archived"}, ~crossed'
                 PROVE  versions'[v].fingerprint = versions'[v].content
      BY <1>3 DEF FingerprintHolds
    <2>1. v \in DOMAIN versions /\ versions'[v] = versions[v]
      BY <1>10, <1>11, <1>12
    <2> QED
      BY <1>6, <2>1 DEF PointersInv, FingerprintHolds
  <1>15. NoUndoAfterPublish'
    BY <1>10, <1>11, <1>12 DEF PointersInv, NoUndoAfterPublish
  <1>16. \A v \in 0..l : NoDraft(v) => (v \in DOMAIN versions' => versions'[v].status # "draft")
    <2> SUFFICES ASSUME NEW v \in 0..l, NoDraft(v), v \in DOMAIN versions'
                 PROVE  versions'[v].status # "draft"
      OBVIOUS
    <2>1. v \in DOMAIN versions
      BY <1>2, <1>5
    <2> QED
      BY <1>12, <2>1 DEF NoDraft
  <1>17. PublishedBefore'
    <2>1. layout'.published \in DOMAIN versions' => versions'[layout'.published].status # "draft"
      <3>1. 0 \notin DOMAIN versions'
        BY <1>5
      <3>2. NoDraft(layout.published)
        BY DEF PointersInv, PublishedBefore
      <3> QED
        BY <1>7, <1>8, <1>16, <3>1, <3>2
    <2>2. ASSUME NEW k \in Designers, editing'[k] # Absent, editing'[k].op \in LayoutOps
          PROVE  editing'[k].seen.published \in DOMAIN versions'
                     => versions'[editing'[k].seen.published].status # "draft"
      <3>1. editing'[k] = editing[k]
        BY <1>2, <1>3, <2>2
      <3>2. NoDraft(editing[k].seen.published)
        BY <2>2, <3>1 DEF PointersInv, PublishedBefore
      <3>3. editing[k] \in AskedOf(l)
        BY <2>2, <3>1, RequestParts DEF l
      <3>4. editing[k].seen.published \in 0..l
        BY <3>3 DEF AskedOf, Pointers
      <3> QED
        BY <1>16, <3>1, <3>2, <3>4
    <2> QED
      BY <2>1, <2>2 DEF PublishedBefore, NoDraft
  <1>18. DraftsEdited'
    <2> SUFFICES ASSUME ~crossed', NEW k \in Designers, editing'[k] # Absent, editing'[k].op = "looked"
                 PROVE  \/ editing'[k].target \in raced
                        \/ versions'[editing'[k].target].status \in {"draft", "gone"}
      BY <1>3 DEF DraftsEdited, Asked
    <2>1. editing'[k] = editing[k]
      BY <1>2, <1>3
    <2>2. editing[k].target \in DOMAIN versions
      BY <2>1, RequestParts
    <2>3. \/ editing[k].target \in raced
          \/ versions[editing[k].target].status \in {"draft", "gone"}
      BY <1>6, <2>1 DEF PointersInv, DraftsEdited, Asked
    <2> QED
      BY <1>12, <2>1, <2>2, <2>3
  <1> QED
    BY <1>13, <1>14, <1>15, <1>17, <1>18 DEF PointersInv

LEMMA PointersAtDiscard ==
    ASSUME VersionTypes, PointersInv, NEW m \in Designers, Discard(m)
    PROVE  PointersInv'
  <1> DEFINE old == editing[m].seen.draft
             l == Len(versions)
  <1>1. /\ old \in DOMAIN versions /\ Len(versions') = l /\ versions' \in Seq(Versions)
        /\ \A v \in DOMAIN versions : versions'[v] = IF v = old THEN Gone ELSE versions[v]
        /\ layout' = [draft |-> NoVersion,
                      published |-> IF layout.published = old THEN NoVersion ELSE layout.published]
    BY DiscardMakes
  <1>2. /\ DOMAIN versions = 1..l /\ l \in Nat /\ DOMAIN versions' = DOMAIN versions
        /\ editing \in [Designers -> {Absent} \cup AskedOf(l) \cup EditsOf(l)]
    BY <1>1 DEF VersionTypes
  <1>3. /\ crossed' = (crossed \/ editing[m].seen # layout) /\ raced' = raced
        /\ editing' = [editing EXCEPT ![m] = Absent]
    BY DEF Discard, Acted, Answer
  <1>4. ~crossed' => ~crossed /\ old = layout.draft
    BY <1>3
  <1>5. layout'.draft = 0 /\ layout'.published = IF layout.published = old THEN 0 ELSE layout.published
    BY <1>1 DEF NoVersion
  <1>6. \A v \in DOMAIN versions :
           /\ v # 0
           /\ v = old => versions'[v].status = "gone" /\ versions'[v].history = <<>>
           /\ v # old => versions'[v] = versions[v]
    BY <1>1, <1>2 DEF Gone
  <1> HIDE DEF old, l
  <1>7. PointersAgree'
    <2> SUFFICES ASSUME ~crossed', NEW v \in DOMAIN versions
                 PROVE  /\ versions'[v].status = "draft" <=> v = layout'.draft
                        /\ versions'[v].status = "published" <=> v = layout'.published
      BY <1>2 DEF PointersAgree
    <2>1. /\ versions[v].status = "draft" <=> v = layout.draft
          /\ versions[v].status = "published" <=> v = layout.published
          /\ old = layout.draft
      BY <1>4 DEF PointersInv, PointersAgree
    <2> QED
      BY <1>5, <1>6, <2>1
  <1>8. FingerprintHolds'
    BY <1>2, <1>3, <1>4, <1>6 DEF PointersInv, FingerprintHolds
  <1>9. NoUndoAfterPublish'
    BY <1>2, <1>6 DEF PointersInv, NoUndoAfterPublish
  <1>10. \A v : NoDraft(v) => (v \in DOMAIN versions' => versions'[v].status # "draft")
    BY <1>2, <1>6 DEF NoDraft
  <1>11. PublishedBefore'
    <2>1. layout'.published \in DOMAIN versions' => versions'[layout'.published].status # "draft"
      <3>1. NoDraft(layout.published)
        BY DEF PointersInv, PublishedBefore
      <3> QED
        BY <1>2, <1>5, <1>6, <1>10, <3>1
    <2>2. ASSUME NEW k \in Designers, editing'[k] # Absent, editing'[k].op \in LayoutOps
          PROVE  editing'[k].seen.published \in DOMAIN versions'
                     => versions'[editing'[k].seen.published].status # "draft"
      <3>1. editing'[k] = editing[k]
        BY <1>2, <1>3, <2>2
      <3>2. NoDraft(editing[k].seen.published)
        BY <2>2, <3>1 DEF PointersInv, PublishedBefore
      <3> QED
        BY <1>10, <3>1, <3>2
    <2> QED
      BY <2>1, <2>2 DEF PublishedBefore, NoDraft
  <1>12. DraftsEdited'
    <2> SUFFICES ASSUME ~crossed', NEW k \in Designers, editing'[k] # Absent, editing'[k].op = "looked"
                 PROVE  \/ editing'[k].target \in raced
                        \/ versions'[editing'[k].target].status \in {"draft", "gone"}
      BY <1>3 DEF DraftsEdited, Asked
    <2>1. editing'[k] = editing[k]
      BY <1>2, <1>3
    <2>2. editing[k].target \in DOMAIN versions
      BY <2>1, RequestParts
    <2>3. \/ editing[k].target \in raced
          \/ versions[editing[k].target].status \in {"draft", "gone"}
      BY <1>4, <2>1 DEF PointersInv, DraftsEdited, Asked
    <2> QED
      BY <1>6, <2>1, <2>2, <2>3
  <1> QED
    BY <1>7, <1>8, <1>9, <1>11, <1>12 DEF PointersInv

\* What is published takes the place of what was: an edit that is about to
\* write to it makes it one that was raced.
LEMMA PointersAtPublish ==
    ASSUME VersionTypes, PointersInv, NEW m \in Designers, Publish(m)
    PROVE  PointersInv'
  <1> DEFINE draft == editing[m].seen.draft
             before == editing[m].seen.published
             l == Len(versions)
  <1>1. /\ editing[m] # Absent /\ editing[m].op \in LayoutOps /\ draft \in DOMAIN versions
        /\ versions' \in Seq(Versions) /\ Len(versions') = l
        /\ layout' = [draft |-> NoVersion, published |-> draft]
        /\ \A v \in DOMAIN versions :
              /\ versions'[v].content = versions[v].content
              /\ v = before =>
                     /\ versions'[v].status = "archived"
                     /\ versions'[v].history = versions[v].history
                     /\ versions'[v].fingerprint = versions[v].fingerprint
              /\ v = draft /\ v # before =>
                     /\ versions'[v].status = "published" /\ versions'[v].history = <<>>
                     /\ versions'[v].fingerprint = versions[v].content
              /\ v # draft /\ v # before => versions'[v] = versions[v]
    BY PublishMakes
  <1>2. /\ DOMAIN versions = 1..l /\ l \in Nat /\ DOMAIN versions' = DOMAIN versions
        /\ editing \in [Designers -> {Absent} \cup AskedOf(l) \cup EditsOf(l)]
    BY <1>1 DEF VersionTypes
  <1>3. /\ crossed' = (crossed \/ editing[m].seen # layout)
        /\ editing' = [editing EXCEPT ![m] = Absent]
        /\ Exists(draft) /\ Readable(before)
    BY DEF Publish, Acted, Answer
  <1>4. /\ raced \subseteq raced'
        /\ \A k \in Designers : Asked(k, "looked") /\ editing[k].target = draft => draft \in raced'
    BY DEF Publish
  <1>5. ~crossed' => ~crossed /\ draft = layout.draft /\ before = layout.published
    BY <1>3
  <1>6. layout'.draft = 0 /\ layout'.published = draft
    BY <1>1 DEF NoVersion
  <1>7. NoDraft(before)
    BY <1>1 DEF PointersInv, PublishedBefore
  <1> HIDE DEF draft, before, l
  <1>8. before \in DOMAIN versions => /\ versions[before].status # "draft"
                                      /\ versions[before].status # "gone"
                                      /\ versions[before].history = <<>>
    <2> SUFFICES ASSUME before \in DOMAIN versions
                 PROVE  /\ versions[before].status # "draft" /\ versions[before].status # "gone"
                        /\ versions[before].history = <<>>
      OBVIOUS
    <2>1. versions[before].status # "draft" /\ before # 0
      BY <1>2, <1>7 DEF NoDraft
    <2>2. versions[before].status # "gone"
      BY <1>3, <2>1 DEF Readable, Exists, NoVersion
    <2> QED
      BY <2>1, <2>2 DEF PointersInv, NoUndoAfterPublish
  <1>9. PointersAgree'
    <2> SUFFICES ASSUME ~crossed', NEW v \in DOMAIN versions
                 PROVE  /\ versions'[v].status = "draft" <=> v = layout'.draft
                        /\ versions'[v].status = "published" <=> v = layout'.published
      BY <1>2 DEF PointersAgree
    <2>1. /\ \A u \in DOMAIN versions : versions[u].status = "draft" <=> u = layout.draft
          /\ \A u \in DOMAIN versions : versions[u].status = "published" <=> u = layout.published
          /\ draft = layout.draft /\ before = layout.published
      BY <1>5 DEF PointersInv, PointersAgree
    <2>2. v # 0 /\ draft # before
      BY <1>1, <1>2, <1>8, <2>1
    <2> QED
      BY <1>1, <1>6, <2>1, <2>2
  <1>10. FingerprintHolds'
    <2> SUFFICES ASSUME NEW v \in DOMAIN versions, v \notin raced',
                        versions'[v].status \in {"published", "archived"}, ~crossed'
                 PROVE  versions'[v].fingerprint = versions'[v].content
      BY <1>2 DEF FingerprintHolds
    <2>1. v \notin raced /\ ~crossed
      BY <1>4, <1>5
    <2>2. versions[v].status \in {"published", "archived"} => versions[v].fingerprint = versions[v].content
      BY <2>1 DEF PointersInv, FingerprintHolds
    <2>3. versions[v].status \in {"draft", "published", "archived", "gone"}
      <3>1. versions[v] \in Versions
        BY DEF VersionTypes
      <3> QED
        BY <3>1 DEF Versions
    <2>4. CASE v = before
      BY <1>1, <1>8, <2>2, <2>3, <2>4
    <2>5. CASE v # before
      BY <1>1, <2>2, <2>5
    <2> QED
      BY <2>4, <2>5
  <1>11. NoUndoAfterPublish'
    BY <1>1, <1>2, <1>8 DEF PointersInv, NoUndoAfterPublish
  <1>12. \A v : NoDraft(v) => (v \in DOMAIN versions' => versions'[v].status # "draft")
    <2> SUFFICES ASSUME NEW v \in DOMAIN versions, versions[v].status # "draft"
                 PROVE  versions'[v].status # "draft"
      BY <1>2 DEF NoDraft
    <2> QED
      BY <1>1
  <1>13. PublishedBefore'
    <2>1. versions'[layout'.published].status # "draft"
      BY <1>1, <1>6
    <2>2. ASSUME NEW k \in Designers, editing'[k] # Absent, editing'[k].op \in LayoutOps
          PROVE  editing'[k].seen.published \in DOMAIN versions'
                     => versions'[editing'[k].seen.published].status # "draft"
      <3>1. editing'[k] = editing[k]
        BY <1>2, <1>3, <2>2
      <3>2. NoDraft(editing[k].seen.published)
        BY <2>2, <3>1 DEF PointersInv, PublishedBefore
      <3> QED
        BY <1>12, <3>1, <3>2
    <2> QED
      BY <2>1, <2>2 DEF PublishedBefore, NoDraft
  <1>14. DraftsEdited'
    <2> SUFFICES ASSUME ~crossed', NEW k \in Designers, editing'[k] # Absent, editing'[k].op = "looked"
                 PROVE  \/ editing'[k].target \in raced'
                        \/ versions'[editing'[k].target].status \in {"draft", "gone"}
      BY DEF DraftsEdited, Asked
    <2>1. editing'[k] = editing[k]
      BY <1>2, <1>3
    <2>2. editing[k].target \in DOMAIN versions /\ Asked(k, "looked")
      BY <2>1, RequestParts DEF Asked
    <2>3. \/ editing[k].target \in raced
          \/ versions[editing[k].target].status \in {"draft", "gone"}
      BY <1>5, <2>2 DEF PointersInv, DraftsEdited
    <2>4. CASE editing[k].target = draft
      BY <1>4, <2>1, <2>2, <2>4
    <2>5. CASE editing[k].target = before
      BY <1>4, <1>8, <2>1, <2>2, <2>3, <2>5
    <2>6. CASE editing[k].target # draft /\ editing[k].target # before
      BY <1>1, <1>4, <2>1, <2>2, <2>3, <2>6
    <2> QED
      BY <2>4, <2>5, <2>6
  <1> QED
    BY <1>9, <1>10, <1>11, <1>13, <1>14 DEF PointersInv

\* Every step keeps the pointers.
LEMMA PointersStep ==
    ASSUME VersionTypes, PointersInv, \A v \in DOMAIN versions : StackOf(versions[v].history),
           [LayoutVersionsNext]_layoutVars
    PROVE  PointersInv'
  <1> DEFINE n == Len(versions)
  <1>1. /\ versions \in Seq(Versions) /\ n \in Nat /\ DOMAIN versions = 1..n
        /\ editing \in [Designers -> {Absent} \cup AskedOf(n) \cup EditsOf(n)]
    BY DEF VersionTypes
  <1> HIDE DEF n
  <1>2. \A k \in Designers : editing[k] # Absent /\ editing[k].op \in LayoutOps
                                 => NoDraft(editing[k].seen.published)
    BY DEF PointersInv, PublishedBefore
  <1>3. ~crossed => \A k \in Designers :
            (editing[k] # Absent /\ editing[k].op = "looked") =>
                /\ editing[k].target \in DOMAIN versions
                /\ \/ editing[k].target \in raced
                   \/ versions[editing[k].target].status \in {"draft", "gone"}
    BY RequestParts DEF PointersInv, DraftsEdited, Asked
  <1>4. {"begun", "looked", "written"} \cap LayoutOps = {}
    BY DEF LayoutOps
  <1>5. ASSUME NEW m \in Designers, versions' = versions, layout' = layout,
               crossed' = crossed, raced' = raced,
               NEW r, editing' = [editing EXCEPT ![m] = r],
               r # Absent /\ r.op \in LayoutOps => NoDraft(r.seen.published),
               ~crossed /\ r # Absent /\ r.op = "looked" =>
                   r.target \in DOMAIN versions /\ versions[r.target].status \in {"draft", "gone"}
        PROVE  PointersInv'
    <2>1. editing'[m] = r /\ \A k \in Designers : k # m => editing'[k] = editing[k]
      BY <1>1, <1>5
    <2>2. \A k \in Designers : editing'[k] # Absent /\ editing'[k].op \in LayoutOps
                                   => NoDraft(editing'[k].seen.published)
      BY <1>2, <1>5, <2>1
    <2>3. ~crossed => \A k \in Designers :
            (editing'[k] # Absent /\ editing'[k].op = "looked") =>
                /\ editing'[k].target \in DOMAIN versions
                /\ \/ editing'[k].target \in raced
                   \/ versions[editing'[k].target].status \in {"draft", "gone"}
      BY <1>3, <1>5, <2>1
    <2> QED
      BY <1>5, <2>2, <2>3, PointersKept
  <1>6. SUFFICES ASSUME LayoutVersionsNext PROVE PointersInv'
    <2> SUFFICES ASSUME UNCHANGED layoutVars PROVE PointersInv'
      BY <1>6
    <2>1. /\ versions' = versions /\ layout' = layout /\ editing' = editing
          /\ crossed' = crossed /\ raced' = raced
      BY DEF layoutVars
    <2> QED
      BY <1>2, <1>3, <2>1, PointersKept
  <1>7. PICK m \in Designers :
          \/ \E op \in LayoutOps, v \in 0..MaxVersions : Ask(m, op, v)
          \/ Open(m) \/ Restore(m) \/ ApplyIndustry(m) \/ Discard(m) \/ Publish(m)
          \/ Dismiss(m)
          \/ BeginEdit(m) \/ LookForEdit(m) \/ RecordEdit(m)
          \/ \E c \in Contents : WriteEdit(m, c)
          \/ Undo(m) \/ Redo(m)
    BY <1>6 DEF LayoutVersionsNext
  <1>8. CASE \E op \in LayoutOps, v \in 0..MaxVersions : Ask(m, op, v)
    <2>1. PICK op \in LayoutOps, v \in 0..MaxVersions : Ask(m, op, v)
      BY <1>8
    <2> DEFINE r == [op |-> op, seen |-> layout, source |-> v]
    <2>2. r.op # "looked" /\ r.seen.published = layout.published
      BY <1>4
    <2>3. /\ editing' = [editing EXCEPT ![m] = r] /\ versions' = versions /\ layout' = layout
          /\ crossed' = crossed /\ raced' = raced
      BY <2>1 DEF Ask
    <2> HIDE DEF r
    <2>4. NoDraft(r.seen.published)
      BY <2>2 DEF PointersInv, PublishedBefore
    <2> QED
      BY <1>5, <2>2, <2>3, <2>4
  <1>9. CASE Open(m) \/ Restore(m) \/ ApplyIndustry(m)
    <2>1. PICK content \in Content : NewDraft(m, content)
      BY <1>9, NewDrafts
    <2>2. editing[m] \in AskedOf(Len(versions))
      BY <1>9, NewDrafts
    <2> QED
      BY <2>1, <2>2, PointersAtNewDraft
  <1>10. CASE Discard(m)
    BY <1>10, PointersAtDiscard
  <1>11. CASE Publish(m)
    BY <1>11, PointersAtPublish
  <1>12. CASE Dismiss(m)
    <2>1. /\ editing' = [editing EXCEPT ![m] = Absent] /\ versions' = versions /\ layout' = layout
          /\ crossed' = crossed /\ raced' = raced
      BY <1>12 DEF Dismiss, Answer
    <2> QED
      BY <1>5, <2>1
  <1>13. CASE BeginEdit(m)
    <2> DEFINE r == [op |-> "begun", draft |-> layout.draft,
                     before |-> versions[layout.draft].content, target |-> NoVersion]
    <2>1. /\ editing' = [editing EXCEPT ![m] = r] /\ versions' = versions /\ layout' = layout
          /\ crossed' = crossed /\ raced' = raced
      BY <1>13 DEF BeginEdit
    <2>2. r.op \notin LayoutOps /\ r.op # "looked"
      BY <1>4
    <2> HIDE DEF r
    <2> QED
      BY <1>5, <2>1, <2>2
  <1>14. CASE LookForEdit(m)
    <2> DEFINE r == [editing[m] EXCEPT !.op = "looked", !.target = layout.draft]
    <2>1. editing[m] # Absent /\ editing[m].op = "begun" /\ layout.draft \in DOMAIN versions
      BY <1>14 DEF LookForEdit, Asked, Scoped, Exists
    <2>2. /\ editing' = [editing EXCEPT ![m] = r] /\ versions' = versions /\ layout' = layout
          /\ crossed' = crossed /\ raced' = raced
      BY <1>1, <1>14 DEF LookForEdit, Scoped
    <2>3. r.op = "looked" /\ r.target = layout.draft
      <3>1. editing[m] \in EditsOf(n)
        BY <2>1, RequestParts DEF n
      <3> QED
        BY <3>1 DEF EditsOf
    <2>4. ~crossed => versions[layout.draft].status = "draft"
      BY <2>1 DEF PointersInv, PointersAgree
    <2> HIDE DEF r
    <2> QED
      BY <1>4, <1>5, <2>1, <2>2, <2>3, <2>4
  <1>15. CASE RecordEdit(m)
    <2> DEFINE d == editing[m].draft
    <2>1. d \in DOMAIN versions
      <3>1. editing[m] # Absent /\ editing[m].op = "written"
        BY <1>15 DEF RecordEdit, Asked
      <3>2. editing[m] \in EditsOf(n)
        BY <3>1, RequestParts DEF n
      <3> QED
        BY <1>1, <3>2 DEF EditsOf
    <2>2. /\ versions' \in Seq(Versions) /\ Len(versions') = Len(versions)
          /\ versions'[d].status = versions[d].status
          /\ versions'[d].content = versions[d].content
          /\ versions'[d].fingerprint = versions[d].fingerprint
          /\ ~Records(m) => versions'[d].history = versions[d].history
          /\ \A u \in DOMAIN versions : u # d => versions'[u] = versions[u]
      BY <1>15, <2>1, RecordMakes
    <2>3. Records(m) => versions[d].status = "draft"
      BY DEF Records, IsDraft
    <2>4. /\ editing' = [editing EXCEPT ![m] = Absent] /\ layout' = layout
          /\ crossed' = crossed /\ raced' = raced
      BY <1>15 DEF RecordEdit, Answer
    <2>5. editing'[m] = Absent /\ \A k \in Designers : k # m => editing'[k] = editing[k]
      BY <1>1, <2>4
    <2>6. DOMAIN versions' = DOMAIN versions
      BY <1>1, <2>2
    <2> HIDE DEF d
    <2>7. \A v \in DOMAIN versions :
               /\ versions'[v].status = versions[v].status
               /\ versions'[v].fingerprint = versions[v].fingerprint
               /\ versions[v].status # "draft" => versions'[v].history = versions[v].history
               /\ versions'[v].content = versions[v].content
      BY <2>2, <2>3
    <2> QED
      BY <1>2, <1>3, <2>4, <2>5, <2>6, <2>7, PointersKept
  <1>16. CASE \E c \in Contents : WriteEdit(m, c)
    <2>1. PICK c \in Contents : WriteEdit(m, c)
      BY <1>16
    <2> DEFINE t == editing[m].target
               r == [editing[m] EXCEPT !.op = "written"]
    <2>2. /\ t \in DOMAIN versions /\ editing[m] # Absent /\ editing[m] \in EditsOf(n)
          /\ versions' \in Seq(Versions) /\ Len(versions') = Len(versions)
          /\ versions'[t].history = versions[t].history
          /\ versions'[t].status = versions[t].status
          /\ versions'[t].fingerprint = versions[t].fingerprint
          /\ \A u \in DOMAIN versions : u # t => versions'[u] = versions[u]
      BY <2>1, WriteMakes DEF n
    <2>3. /\ editing' = [editing EXCEPT ![m] = r] /\ layout' = layout /\ editing[m].op = "looked"
          /\ crossed' = crossed /\ raced' = raced
      BY <1>1, <2>1 DEF WriteEdit, Asked
    <2>4. r.op = "written"
      BY <2>2 DEF EditsOf
    <2> HIDE DEF r
    <2>5. editing'[m].op = "written" /\ \A k \in Designers : k # m => editing'[k] = editing[k]
      BY <1>1, <2>3, <2>4
    <2>6. DOMAIN versions' = DOMAIN versions
      BY <1>1, <2>2
    <2>7. crossed \/ t \in raced \/ versions[t].status \in {"draft", "gone"}
      BY <1>3, <2>2, <2>3
    <2> HIDE DEF t
    <2>8. \A v \in DOMAIN versions :
               /\ versions'[v].status = versions[v].status
               /\ versions'[v].fingerprint = versions[v].fingerprint
               /\ versions[v].status # "draft" => versions'[v].history = versions[v].history
               /\ \/ versions'[v].content = versions[v].content
                  \/ v \in raced \/ crossed \/ versions[v].status \in {"draft", "gone"}
      BY <2>2, <2>7
    <2> QED
      BY <1>2, <1>3, <1>4, <2>3, <2>5, <2>6, <2>8, PointersKept
  <1>17. CASE Undo(m) \/ Redo(m)
    <2> DEFINE d == layout.draft
    <2>1. /\ d \in DOMAIN versions /\ layout' = layout /\ editing' = editing
          /\ crossed' = crossed /\ raced' = raced
      BY <1>17 DEF Undo, Redo, IsDraft, Exists
    <2>2. /\ versions' \in Seq(Versions) /\ Len(versions') = Len(versions)
          /\ versions[d].status = "draft" /\ versions'[d].status = "draft"
          /\ versions'[d].fingerprint = versions[d].fingerprint
          /\ \A u \in DOMAIN versions : u # d => versions'[u] = versions[u]
      BY <1>17, <2>1, UndoMakes, RedoMakes
    <2>3. DOMAIN versions' = DOMAIN versions
      BY <1>1, <2>2
    <2> HIDE DEF d
    <2>4. \A v \in DOMAIN versions :
               /\ versions'[v].status = versions[v].status
               /\ versions'[v].fingerprint = versions[v].fingerprint
               /\ versions[v].status # "draft" => versions'[v].history = versions[v].history
               /\ \/ versions'[v].content = versions[v].content
                  \/ v \in raced \/ crossed \/ versions[v].status \in {"draft", "gone"}
      BY <2>2
    <2> QED
      BY <1>2, <1>3, <2>1, <2>3, <2>4, PointersKept
  <1> QED
    BY <1>7, <1>8, <1>9, <1>10, <1>11, <1>12, <1>13, <1>14, <1>15, <1>16, <1>17

\* Steps that change the history of no draft, and leave the edits under way.
LEMMA HistoriesKept ==
    ASSUME VersionTypes, HistoryInv, mixed' = mixed,
           \A v \in DOMAIN versions' :
               \/ versions'[v].history = <<>>
               \/ /\ v \in DOMAIN versions
                  /\ versions'[v].history = versions[v].history
                  /\ versions'[v].content = versions[v].content
                  /\ versions'[v].status = "draft" => versions[v].status = "draft",
           \A k \in Designers :
               /\ Asked(k, "written") => editing'[k] = editing[k]
               /\ (editing'[k] # Absent /\ editing'[k].op = "written") => Asked(k, "written"),
           \A k \in Designers :
               (editing'[k] # Absent /\ editing'[k].op \in {"begun", "looked", "written"}) =>
                   LET d == editing'[k].draft
                   IN  \/ /\ Snapping(k) /\ d = editing[k].draft
                          /\ editing'[k].before = editing[k].before
                       \/ (d \notin mixed /\ d \in DOMAIN versions' /\ versions'[d].status = "draft"
                             /\ versions'[d].history # <<>>)
                          => \/ editing'[k].before = Top(versions'[d].history)
                             \/ \E n \in Designers \ {k} :
                                    Asked(n, "written") /\ editing[n].target = d
    PROVE  HistoryInv'
  <1>1. \A k \in Designers :
            /\ editing'[k] # Absent /\ editing'[k].op = "written" => editing'[k] = editing[k]
            /\ Asked(k, "written") <=> (editing'[k] # Absent /\ editing'[k].op = "written")
    BY DEF Asked
  <1>2. \A v \in DOMAIN versions' : StackOf(versions'[v].history)
    <2>1. StackOf(<<>>)
      BY DEF StackOf
    <2> QED
      BY <2>1 DEF HistoryInv
  <1>3. HistoryFitsDraft'
    <2> SUFFICES ASSUME NEW v \in DOMAIN versions', v \notin mixed
                 PROVE  LET h == versions'[v].history
                            n == Cardinality(Done(h))
                        IN  /\ \A i \in DOMAIN h : h[i].undone <=> i > n
                            /\ \A i \in DOMAIN h : i > 1 => h[i].before = h[i - 1].after
                            /\ (/\ versions'[v].status = "draft" /\ h # <<>>
                                /\ \A m \in Designers :
                                      (editing'[m] # Absent /\ editing'[m].op = "written")
                                          => editing'[m].target # v)
                               => versions'[v].content = IF n = 0 THEN h[1].before ELSE h[n].after
      BY DEF HistoryFitsDraft, IsDraft, Exists, Asked
    <2>1. CASE versions'[v].history = <<>>
      BY <2>1
    <2>2. CASE versions'[v].history # <<>>
      <3>1. /\ v \in DOMAIN versions /\ versions'[v].history = versions[v].history
            /\ versions'[v].content = versions[v].content
            /\ versions'[v].status = "draft" => versions[v].status = "draft"
        BY <2>2
      <3>2. (\A m \in Designers : (editing'[m] # Absent /\ editing'[m].op = "written")
                                       => editing'[m].target # v)
               => \A m \in Designers : Asked(m, "written") => editing[m].target # v
        BY <1>1
      <3>3. LET h == versions[v].history
                n == Cardinality(Done(h))
            IN  /\ \A i \in DOMAIN h : h[i].undone <=> i > n
                /\ \A i \in DOMAIN h : i > 1 => h[i].before = h[i - 1].after
                /\ (/\ versions[v].status = "draft" /\ h # <<>>
                    /\ \A m \in Designers : Asked(m, "written") => editing[m].target # v)
                   => versions[v].content = IF n = 0 THEN h[1].before ELSE h[n].after
        BY <3>1 DEF HistoryInv, HistoryFitsDraft, IsDraft, Exists
      <3> QED
        BY <3>1, <3>2, <3>3
    <2> QED
      BY <2>1, <2>2
  <1>4. StraysMixed'
    BY <1>1 DEF HistoryInv, StraysMixed, Asked
  <1>5. SnapshotsFit'
    <2> SUFFICES ASSUME NEW k \in Designers,
                        editing'[k] # Absent, editing'[k].op \in {"begun", "looked", "written"},
                        editing'[k].draft \notin mixed, editing'[k].draft \in DOMAIN versions',
                        versions'[editing'[k].draft].status = "draft",
                        versions'[editing'[k].draft].history # <<>>
                 PROVE  \/ editing'[k].before = Top(versions'[editing'[k].draft].history)
                        \/ \E n \in Designers \ {k} :
                              /\ editing'[n] # Absent /\ editing'[n].op = "written"
                              /\ editing'[n].target = editing'[k].draft
      BY DEF SnapshotsFit, Snapping, IsDraft, Exists, Asked
    <2> DEFINE d == editing'[k].draft
    <2>1. \/ editing'[k].before = Top(versions'[d].history)
          \/ \E n \in Designers \ {k} : Asked(n, "written") /\ editing[n].target = d
      <3>1. CASE Snapping(k) /\ d = editing[k].draft /\ editing'[k].before = editing[k].before
        <4>1. /\ d \in DOMAIN versions /\ versions'[d].history = versions[d].history
              /\ versions[d].status = "draft"
          OBVIOUS
        <4>2. \/ editing[k].before = Top(versions[d].history)
              \/ \E n \in Designers \ {k} : Asked(n, "written") /\ editing[n].target = d
          BY <3>1, <4>1 DEF HistoryInv, SnapshotsFit, IsDraft, Exists
        <4> QED
          BY <3>1, <4>1, <4>2
      <3> QED
        BY <3>1
    <2> QED
      BY <1>1, <2>1
  <1> QED
    BY <1>2, <1>3, <1>4, <1>5 DEF HistoryInv

\* What a history ends at, by the number of what is done.
LEMMA TopIs ==
    ASSUME NEW h \in Seq(Entry), StackOf(h)
    PROVE  Top(h) = IF Cardinality(Done(h)) = 0 THEN h[1].before ELSE h[Cardinality(Done(h))].after
  <1> DEFINE n == Cardinality(Done(h))
  <1>1. n \in 0..Len(h) /\ Done(h) = 1..n
    <2>1. n = Cardinality(Done(h))
      OBVIOUS
    <2> HIDE DEF n
    <2> QED
      BY <2>1, StackParts
  <1> HIDE DEF n
  <1>2. n \in Nat
    BY <1>1
  <1>3. n = 0 <=> Done(h) = {}
    <2>1. n # 0 => n \in 1..n
      BY <1>2
    <2>2. n = 0 => 1..n = {}
      OBVIOUS
    <2> QED
      BY <1>1, <2>1, <2>2
  <1> QED
    BY <1>3 DEF Top, n

LEMMA FitsTop ==
    ASSUME VersionTypes, HistoryInv, NEW v \in DOMAIN versions, v \notin mixed
    PROVE  /\ Chained(versions[v].history)
           /\ (/\ versions[v].status = "draft" /\ versions[v].history # <<>>
               /\ \A m \in Designers : Asked(m, "written") => editing[m].target # v)
              => versions[v].content = Top(versions[v].history)
  <1> DEFINE h == versions[v].history
  <1>1. versions[v] \in Versions /\ StackOf(h)
    BY DEF VersionTypes, HistoryInv
  <1>2. h \in Seq(Entry)
    BY <1>1 DEF Versions
  <1>3. Top(h) = IF Cardinality(Done(h)) = 0 THEN h[1].before ELSE h[Cardinality(Done(h))].after
    <2> HIDE DEF h
    <2> QED
      BY <1>1, <1>2, TopIs
  <1> QED
    BY <1>3 DEF HistoryInv, HistoryFitsDraft, IsDraft, Exists, Chained

LEMMA TopFits ==
    ASSUME versions' \in Seq(Versions), \A v \in DOMAIN versions' : StackOf(versions'[v].history),
           \A v \in DOMAIN versions' : v \notin mixed' =>
               /\ Chained(versions'[v].history)
               /\ (/\ versions'[v].status = "draft" /\ versions'[v].history # <<>>
                   /\ \A m \in Designers :
                         (editing'[m] # Absent /\ editing'[m].op = "written") => editing'[m].target # v)
                  => versions'[v].content = Top(versions'[v].history)
    PROVE  HistoryFitsDraft'
  <1> SUFFICES ASSUME NEW v \in DOMAIN versions', v \notin mixed'
               PROVE  LET h == versions'[v].history
                          n == Cardinality(Done(h))
                      IN  /\ \A i \in DOMAIN h : h[i].undone <=> i > n
                          /\ \A i \in DOMAIN h : i > 1 => h[i].before = h[i - 1].after
                          /\ (/\ versions'[v].status = "draft" /\ h # <<>>
                              /\ \A m \in Designers :
                                    (editing'[m] # Absent /\ editing'[m].op = "written")
                                        => editing'[m].target # v)
                             => versions'[v].content = IF n = 0 THEN h[1].before ELSE h[n].after
    BY DEF HistoryFitsDraft, IsDraft, Exists, Asked
  <1> DEFINE h == versions'[v].history
  <1>1. versions'[v] \in Versions /\ StackOf(h)
    OBVIOUS
  <1>2. h \in Seq(Entry)
    BY <1>1 DEF Versions
  <1>3. Top(h) = IF Cardinality(Done(h)) = 0 THEN h[1].before ELSE h[Cardinality(Done(h))].after
    <2> HIDE DEF h
    <2> QED
      BY <1>1, <1>2, TopIs
  <1>4. \A i \in DOMAIN h : h[i].undone <=> i > Cardinality(Done(h))
    BY <1>1, Zenon DEF StackOf
  <1>5. /\ \A i \in DOMAIN h : i > 1 => h[i].before = h[i - 1].after
        /\ (/\ versions'[v].status = "draft" /\ h # <<>>
            /\ \A m \in Designers :
                  (editing'[m] # Absent /\ editing'[m].op = "written") => editing'[m].target # v)
           => versions'[v].content = IF Cardinality(Done(h)) = 0 THEN h[1].before
                                     ELSE h[Cardinality(Done(h))].after
    BY <1>3 DEF Chained
  <1> QED
    BY <1>4, <1>5, Zenon

\* A write: the draft is what its history ends at once the edit is recorded.
LEMMA HistoryAtWrite ==
    ASSUME VersionTypes, HistoryInv, NEW m \in Designers, NEW c \in Contents, WriteEdit(m, c)
    PROVE  HistoryInv'
  <1> DEFINE t == editing[m].target
             n == Len(versions)
  <1>1. /\ t \in DOMAIN versions /\ editing[m] # Absent /\ editing[m] \in EditsOf(n)
        /\ versions' \in Seq(Versions) /\ Len(versions') = n
        /\ versions'[t].history = versions[t].history
        /\ versions'[t].status = versions[t].status
        /\ \A u \in DOMAIN versions : u # t => versions'[u] = versions[u]
    BY WriteMakes
  <1>2. /\ versions \in Seq(Versions)
        /\ editing \in [Designers -> {Absent} \cup AskedOf(n) \cup EditsOf(n)]
    BY DEF VersionTypes
  <1>3. /\ editing[m].op = "looked"
        /\ editing' = [editing EXCEPT ![m] = [editing[m] EXCEPT !.op = "written"]]
        /\ mixed' = IF AlsoEdited(m, t) \/ t # editing[m].draft THEN mixed \cup {t} ELSE mixed
    BY <1>2 DEF WriteEdit, Asked
  <1>4. /\ editing'[m].op = "written" /\ editing'[m].target = t /\ editing'[m] # Absent
        /\ editing'[m].draft = editing[m].draft /\ editing'[m].before = editing[m].before
        /\ \A k \in Designers : k # m => editing'[k] = editing[k]
    <2> DEFINE r == [editing[m] EXCEPT !.op = "written"]
    <2>1. /\ r.op = "written" /\ r.target = t /\ r.draft = editing[m].draft
          /\ r.before = editing[m].before /\ r \in EditsOf(n)
      <3> HIDE DEF n
      <3> QED
        BY <1>1, <1>3 DEF EditsOf
    <2>2. r # Absent
      <3>1. n \in Nat /\ n <= MaxVersions
        BY DEF VersionTypes
      <3> HIDE DEF r, n
      <3> QED
        BY <2>1, <3>1, RequestsAre
    <2> HIDE DEF r
    <2>3. editing'[m] = r /\ \A k \in Designers : k # m => editing'[k] = editing[k]
      BY <1>2, <1>3 DEF r
    <2> QED
      BY <2>1, <2>2, <2>3
  <1>5. /\ mixed \subseteq mixed' /\ mixed' \subseteq mixed \cup {t}
        /\ t # editing[m].draft => t \in mixed'
    BY <1>3
  <1>6. DOMAIN versions' = DOMAIN versions
    BY <1>1, <1>2
  <1> HIDE DEF t, n
  <1>7. \A v \in DOMAIN versions :
            versions'[v].history = versions[v].history /\ versions'[v].status = versions[v].status
    BY <1>1
  <1>8. \A v \in DOMAIN versions' : StackOf(versions'[v].history)
    BY <1>6, <1>7 DEF HistoryInv
  <1>9. HistoryFitsDraft'
    <2>1. ASSUME NEW v \in DOMAIN versions', v \notin mixed'
          PROVE  /\ Chained(versions'[v].history)
                 /\ (/\ versions'[v].status = "draft" /\ versions'[v].history # <<>>
                     /\ \A k \in Designers :
                           (editing'[k] # Absent /\ editing'[k].op = "written") => editing'[k].target # v)
                    => versions'[v].content = Top(versions'[v].history)
      <3>1. v \in DOMAIN versions /\ v \notin mixed
        BY <1>5, <1>6, <2>1
      <3>2. /\ Chained(versions[v].history)
            /\ (/\ versions[v].status = "draft" /\ versions[v].history # <<>>
                /\ \A k \in Designers : Asked(k, "written") => editing[k].target # v)
               => versions[v].content = Top(versions[v].history)
        BY <3>1, FitsTop
      <3>3. v # t => versions'[v] = versions[v]
        BY <1>1, <3>1
      <3>4. (\A k \in Designers :
                (editing'[k] # Absent /\ editing'[k].op = "written") => editing'[k].target # v)
             => v # t /\ \A k \in Designers : Asked(k, "written") => editing[k].target # v
        BY <1>3, <1>4 DEF Asked
      <3> QED
        BY <1>7, <3>1, <3>2, <3>3, <3>4
    <2> QED
      BY <1>1, <1>8, <2>1, TopFits
  <1>10. StraysMixed'
    <2> SUFFICES ASSUME NEW k \in Designers, editing'[k] # Absent, editing'[k].op = "written",
                        editing'[k].target # editing'[k].draft
                 PROVE  editing'[k].target \in mixed'
      BY DEF StraysMixed, Asked
    <2>1. CASE k = m
      BY <1>4, <1>5, <2>1
    <2>2. CASE k # m
      BY <1>4, <1>5, <2>2 DEF HistoryInv, StraysMixed, Asked
    <2> QED
      BY <2>1, <2>2
  <1>11. SnapshotsFit'
    <2> SUFFICES ASSUME NEW k \in Designers,
                        editing'[k] # Absent, editing'[k].op \in {"begun", "looked", "written"},
                        editing'[k].draft \notin mixed', editing'[k].draft \in DOMAIN versions',
                        versions'[editing'[k].draft].status = "draft",
                        versions'[editing'[k].draft].history # <<>>
                 PROVE  \/ editing'[k].before = Top(versions'[editing'[k].draft].history)
                        \/ \E i \in Designers \ {k} :
                              /\ editing'[i] # Absent /\ editing'[i].op = "written"
                              /\ editing'[i].target = editing'[k].draft
      BY DEF SnapshotsFit, Snapping, IsDraft, Exists, Asked
    <2>1. /\ Snapping(k) /\ editing'[k].draft = editing[k].draft /\ editing'[k].before = editing[k].before
      BY <1>1, <1>3, <1>4 DEF Snapping
    <2> DEFINE d == editing[k].draft
    <2>2. \/ editing[k].before = Top(versions[d].history)
          \/ \E i \in Designers \ {k} : Asked(i, "written") /\ editing[i].target = d
      BY <1>5, <1>6, <1>7, <2>1 DEF HistoryInv, SnapshotsFit, IsDraft, Exists
    <2>3. \A i \in Designers : Asked(i, "written") => i # m /\ editing'[i] = editing[i]
      BY <1>3, <1>4 DEF Asked
    <2> QED
      BY <1>6, <1>7, <2>1, <2>2, <2>3 DEF Asked
  <1> QED
    BY <1>8, <1>9, <1>10, <1>11 DEF HistoryInv

\* The edit is recorded.
LEMMA HistoryAtRecord ==
    ASSUME VersionTypes, HistoryInv, NEW m \in Designers, RecordEdit(m)
    PROVE  HistoryInv'
  <1> DEFINE d == editing[m].draft
             n == Len(versions)
             h == versions[d].history
             g == versions'[d].history
  <1>1. editing[m] # Absent /\ editing[m].op = "written" /\ editing[m] \in EditsOf(n)
    <2>1. editing[m] # Absent /\ editing[m].op = "written"
      BY DEF RecordEdit, Asked
    <2> QED
      BY <2>1, RequestParts
  <1>2. /\ versions \in Seq(Versions) /\ DOMAIN versions = 1..n
        /\ editing \in [Designers -> {Absent} \cup AskedOf(n) \cup EditsOf(n)]
    BY DEF VersionTypes
  <1>3. d \in DOMAIN versions
    <2> HIDE DEF n
    <2> QED
      BY <1>1, <1>2 DEF EditsOf
  <1>4. StackOf(h)
    BY <1>3 DEF HistoryInv
  <1>5. /\ versions' \in Seq(Versions) /\ Len(versions') = n
        /\ versions'[d].status = versions[d].status
        /\ versions'[d].content = versions[d].content
        /\ \A u \in DOMAIN versions : u # d => versions'[u] = versions[u]
        /\ ~Records(m) => g = h
        /\ Records(m) => /\ StackOf(g) /\ g # <<>>
                         /\ versions'[d].content = Top(g)
                         /\ (Chained(h) /\ (h # <<>> => editing[m].before = Top(h))) => Chained(g)
    BY <1>4, RecordMakes
  <1>6. /\ mixed' = IF AlsoEdited(m, d) THEN mixed \cup {d} ELSE mixed
        /\ editing' = [editing EXCEPT ![m] = Absent]
    BY DEF RecordEdit, Answer
  <1>7. /\ editing'[m] = Absent /\ \A k \in Designers : k # m => editing'[k] = editing[k]
        /\ mixed \subseteq mixed' /\ DOMAIN versions' = DOMAIN versions
    BY <1>2, <1>5, <1>6
  <1>8. editing[m].target # d => editing[m].target \in mixed
    BY <1>1 DEF HistoryInv, StraysMixed, Asked
  \* The version is not disturbed: nobody else is editing it.
  <1>9. d \notin mixed' =>
            /\ d \notin mixed
            /\ \A k \in Designers : k # m /\ editing[k] # Absent
                   /\ editing[k].op \in {"begun", "looked", "written"} =>
                      editing[k].draft # d /\ editing[k].target # d
    BY <1>6 DEF AlsoEdited
  <1> HIDE DEF d, n
  <1>10. \A v \in DOMAIN versions' : StackOf(versions'[v].history)
    <2>1. StackOf(g)
      BY <1>4, <1>5
    <2> QED
      BY <1>5, <1>7, <2>1 DEF HistoryInv
  <1>11. HistoryFitsDraft'
    <2>1. ASSUME NEW v \in DOMAIN versions', v \notin mixed'
          PROVE  /\ Chained(versions'[v].history)
                 /\ (/\ versions'[v].status = "draft" /\ versions'[v].history # <<>>
                     /\ \A k \in Designers :
                           (editing'[k] # Absent /\ editing'[k].op = "written") => editing'[k].target # v)
                    => versions'[v].content = Top(versions'[v].history)
      <3>1. v \in DOMAIN versions /\ v \notin mixed
        BY <1>7, <2>1
      <3>2. /\ Chained(versions[v].history)
            /\ (/\ versions[v].status = "draft" /\ versions[v].history # <<>>
                /\ \A k \in Designers : Asked(k, "written") => editing[k].target # v)
               => versions[v].content = Top(versions[v].history)
        BY <3>1, FitsTop
      <3>3. CASE v # d
        <4>1. editing[m].target # v
          BY <1>8, <3>1, <3>3
        <4>2. (\A k \in Designers :
                  (editing'[k] # Absent /\ editing'[k].op = "written") => editing'[k].target # v)
               => \A k \in Designers : Asked(k, "written") => editing[k].target # v
          BY <1>7, <4>1 DEF Asked
        <4> QED
          BY <1>5, <3>1, <3>2, <3>3, <4>2
      <3>4. CASE v = d
        <4>1. ASSUME h # <<>>, versions[d].status = "draft" PROVE editing[m].before = Top(h)
          <5>1. ~\E k \in Designers \ {m} : Asked(k, "written") /\ editing[k].target = d
            BY <1>9, <2>1, <3>4 DEF Asked
          <5> QED
            BY <1>1, <1>9, <2>1, <3>1, <3>4, <4>1, <5>1
               DEF HistoryInv, SnapshotsFit, Snapping, IsDraft, Exists, d
        <4>2. CASE Records(m)
          <5>1. versions[d].status = "draft"
            BY <4>2 DEF Records, IsDraft, d
          <5> QED
            BY <1>5, <3>2, <3>4, <4>1, <4>2, <5>1
        <4>3. CASE ~Records(m)
          <5>1. versions[d].status = "draft" => versions[d].content = editing[m].before
            BY <1>3, <4>3 DEF Records, IsDraft, Exists, d
          <5> QED
            BY <1>5, <3>2, <3>4, <4>1, <4>3, <5>1
        <4> QED
          BY <4>2, <4>3
      <3> QED
        BY <3>3, <3>4
    <2> QED
      BY <1>5, <1>10, <2>1, TopFits
  <1>12. StraysMixed'
    <2> SUFFICES ASSUME NEW k \in Designers, editing'[k] # Absent, editing'[k].op = "written",
                        editing'[k].target # editing'[k].draft
                 PROVE  editing'[k].target \in mixed'
      BY DEF StraysMixed, Asked
    <2> QED
      BY <1>7 DEF HistoryInv, StraysMixed, Asked
  <1>13. SnapshotsFit'
    <2> SUFFICES ASSUME NEW k \in Designers,
                        editing'[k] # Absent, editing'[k].op \in {"begun", "looked", "written"},
                        editing'[k].draft \notin mixed', editing'[k].draft \in DOMAIN versions',
                        versions'[editing'[k].draft].status = "draft",
                        versions'[editing'[k].draft].history # <<>>
                 PROVE  \/ editing'[k].before = Top(versions'[editing'[k].draft].history)
                        \/ \E i \in Designers \ {k} :
                              /\ editing'[i] # Absent /\ editing'[i].op = "written"
                              /\ editing'[i].target = editing'[k].draft
      BY DEF SnapshotsFit, Snapping, IsDraft, Exists, Asked
    <2>1. k # m /\ editing'[k] = editing[k] /\ Snapping(k)
      BY <1>7 DEF Snapping
    <2> DEFINE c == editing[k].draft
    <2>2. c # d
      BY <1>9, <2>1
    <2>3. /\ c \in DOMAIN versions /\ versions'[c] = versions[c] /\ c \notin mixed
      BY <1>5, <1>7, <2>1, <2>2
    <2>4. \/ editing[k].before = Top(versions[c].history)
          \/ \E i \in Designers \ {k} : Asked(i, "written") /\ editing[i].target = c
      BY <2>1, <2>3 DEF HistoryInv, SnapshotsFit, IsDraft, Exists
    <2>5. editing[m].target # c
      BY <1>8, <2>2, <2>3
    <2> QED
      BY <1>7, <2>1, <2>3, <2>4, <2>5 DEF Asked
  <1> QED
    BY <1>10, <1>11, <1>12, <1>13 DEF HistoryInv

\* Undo and redo.
LEMMA HistoryAtTurn ==
    ASSUME VersionTypes, HistoryInv, NEW m \in Designers, Undo(m) \/ Redo(m)
    PROVE  HistoryInv'
  <1> DEFINE d == layout.draft
             h == versions[d].history
             g == versions'[d].history
  <1>1. /\ d \in DOMAIN versions /\ editing[m] = Absent /\ editing' = editing
        /\ mixed' = IF AlsoEdited(m, d) THEN mixed \cup {d} ELSE mixed
    BY DEF Undo, Redo, IsDraft, Exists, Touched
  <1>2. StackOf(h)
    BY <1>1 DEF HistoryInv
  <1>3. /\ versions' \in Seq(Versions) /\ Len(versions') = Len(versions)
        /\ \A u \in DOMAIN versions : u # d => versions'[u] = versions[u]
        /\ StackOf(g)
        /\ Chained(h) => Chained(g) /\ versions'[d].content = Top(g)
    <2>1. CASE Undo(m)
      BY <1>2, <2>1, UndoMakes
    <2>2. CASE Redo(m)
      BY <1>2, <2>2, RedoMakes
    <2> QED
      BY <2>1, <2>2
  <1>4. DOMAIN versions' = DOMAIN versions
    BY <1>3 DEF VersionTypes
  <1>5. /\ mixed \subseteq mixed'
        /\ d \notin mixed' => \A k \in Designers :
               (editing[k] # Absent /\ editing[k].op \in {"begun", "looked", "written"}) =>
                   editing[k].draft # d /\ editing[k].target # d
    BY <1>1 DEF AlsoEdited
  <1> HIDE DEF d
  <1>6. \A v \in DOMAIN versions' : StackOf(versions'[v].history)
    BY <1>3, <1>4 DEF HistoryInv
  <1>7. HistoryFitsDraft'
    <2>1. ASSUME NEW v \in DOMAIN versions', v \notin mixed'
          PROVE  /\ Chained(versions'[v].history)
                 /\ (/\ versions'[v].status = "draft" /\ versions'[v].history # <<>>
                     /\ \A k \in Designers :
                           (editing'[k] # Absent /\ editing'[k].op = "written") => editing'[k].target # v)
                    => versions'[v].content = Top(versions'[v].history)
      <3>1. v \in DOMAIN versions /\ v \notin mixed
        BY <1>4, <1>5, <2>1
      <3>2. /\ Chained(versions[v].history)
            /\ (/\ versions[v].status = "draft" /\ versions[v].history # <<>>
                /\ \A k \in Designers : Asked(k, "written") => editing[k].target # v)
               => versions[v].content = Top(versions[v].history)
        BY <3>1, FitsTop
      <3>3. CASE v # d
        BY <1>1, <1>3, <3>1, <3>2, <3>3 DEF Asked
      <3>4. CASE v = d
        BY <1>3, <3>2, <3>4
      <3> QED
        BY <3>3, <3>4
    <2> QED
      BY <1>3, <1>6, <2>1, TopFits
  <1>8. StraysMixed'
    BY <1>1, <1>5 DEF HistoryInv, StraysMixed, Asked
  <1>9. SnapshotsFit'
    <2> SUFFICES ASSUME NEW k \in Designers,
                        editing[k] # Absent, editing[k].op \in {"begun", "looked", "written"},
                        editing[k].draft \notin mixed', editing[k].draft \in DOMAIN versions',
                        versions'[editing[k].draft].status = "draft",
                        versions'[editing[k].draft].history # <<>>
                 PROVE  \/ editing[k].before = Top(versions'[editing[k].draft].history)
                        \/ \E i \in Designers \ {k} :
                              /\ editing[i] # Absent /\ editing[i].op = "written"
                              /\ editing[i].target = editing[k].draft
      BY <1>1 DEF SnapshotsFit, Snapping, IsDraft, Exists, Asked
    <2> DEFINE c == editing[k].draft
    <2>1. c # d
      BY <1>5
    <2>2. c \in DOMAIN versions /\ versions'[c] = versions[c] /\ c \notin mixed
      BY <1>3, <1>4, <1>5, <2>1
    <2> QED
      BY <2>2 DEF HistoryInv, SnapshotsFit, Snapping, IsDraft, Exists, Asked
  <1> QED
    BY <1>6, <1>7, <1>8, <1>9 DEF HistoryInv

\* Every step keeps the histories.
LEMMA HistoryStep ==
    ASSUME VersionTypes, HistoryInv, [LayoutVersionsNext]_layoutVars
    PROVE  HistoryInv'
  <1> DEFINE n == Len(versions)
  <1>1. /\ versions \in Seq(Versions) /\ n \in Nat /\ DOMAIN versions = 1..n
        /\ editing \in [Designers -> {Absent} \cup AskedOf(n) \cup EditsOf(n)]
    BY DEF VersionTypes
  <1> HIDE DEF n
  <1>2. {"begun", "looked", "written"} \cap LayoutOps = {}
    BY DEF LayoutOps
  <1> DEFINE Same(k) == Snapping(k) /\ editing'[k].draft = editing[k].draft
                          /\ editing'[k].before = editing[k].before
  \* A request that has written nothing comes or goes.
  <1>3. ASSUME NEW m \in Designers, mixed' = mixed, NEW r, editing' = [editing EXCEPT ![m] = r],
               ~Asked(m, "written"), r # Absent => r.op # "written",
               \A v \in DOMAIN versions' :
                   \/ versions'[v].history = <<>>
                   \/ /\ v \in DOMAIN versions
                      /\ versions'[v].history = versions[v].history
                      /\ versions'[v].content = versions[v].content
                      /\ versions'[v].status = "draft" => versions[v].status = "draft",
               (r # Absent /\ r.op \in {"begun", "looked"}) =>
                   \/ Snapping(m) /\ r.draft = editing[m].draft /\ r.before = editing[m].before
                   \/ (r.draft \notin mixed /\ r.draft \in DOMAIN versions'
                         /\ versions'[r.draft].status = "draft" /\ versions'[r.draft].history # <<>>)
                      => \/ r.before = Top(versions'[r.draft].history)
                         \/ \E i \in Designers \ {m} : Asked(i, "written") /\ editing[i].target = r.draft
        PROVE  HistoryInv'
    <2>1. editing'[m] = r /\ \A k \in Designers : k # m => editing'[k] = editing[k]
      BY <1>1, <1>3
    <2>2. \A k \in Designers :
               /\ Asked(k, "written") => editing'[k] = editing[k]
               /\ (editing'[k] # Absent /\ editing'[k].op = "written") => Asked(k, "written")
      BY <1>3, <2>1 DEF Asked
    <2>3. ASSUME NEW k \in Designers, editing'[k] # Absent,
                 editing'[k].op \in {"begun", "looked", "written"}
          PROVE  LET d == editing'[k].draft
                 IN  \/ /\ Snapping(k) /\ d = editing[k].draft
                        /\ editing'[k].before = editing[k].before
                     \/ (d \notin mixed /\ d \in DOMAIN versions' /\ versions'[d].status = "draft"
                           /\ versions'[d].history # <<>>)
                        => \/ editing'[k].before = Top(versions'[d].history)
                           \/ \E i \in Designers \ {k} :
                                  Asked(i, "written") /\ editing[i].target = d
      <3>1. CASE k = m
        <4>1. r # Absent /\ r.op \in {"begun", "looked"}
          BY <1>3, <2>1, <2>3, <3>1
        <4> QED
          BY <1>3, <2>1, <3>1, <4>1
      <3>2. CASE k # m
        BY <2>1, <2>3, <3>2 DEF Snapping
      <3> QED
        BY <3>1, <3>2
    <2> QED
      BY <1>3, <2>2, <2>3, HistoriesKept
  <1>4. \A v \in DOMAIN versions : versions' = versions =>
            /\ versions'[v].history = versions[v].history
            /\ versions'[v].content = versions[v].content
            /\ versions'[v].status = versions[v].status
    OBVIOUS
  <1>5. SUFFICES ASSUME LayoutVersionsNext PROVE HistoryInv'
    <2> SUFFICES ASSUME UNCHANGED layoutVars PROVE HistoryInv'
      BY <1>5
    <2>1. versions' = versions /\ editing' = editing /\ mixed' = mixed
      BY DEF layoutVars
    <2>2. \A k \in Designers :
               /\ Asked(k, "written") => editing'[k] = editing[k]
               /\ (editing'[k] # Absent /\ editing'[k].op = "written") => Asked(k, "written")
               /\ (editing'[k] # Absent /\ editing'[k].op \in {"begun", "looked", "written"}) =>
                      /\ Snapping(k) /\ editing'[k].draft = editing[k].draft
                      /\ editing'[k].before = editing[k].before
      BY <2>1 DEF Asked, Snapping
    <2> QED
      BY <2>1, <2>2, HistoriesKept
  <1>6. PICK m \in Designers :
          \/ \E op \in LayoutOps, v \in 0..MaxVersions : Ask(m, op, v)
          \/ Open(m) \/ Restore(m) \/ ApplyIndustry(m) \/ Discard(m) \/ Publish(m)
          \/ Dismiss(m)
          \/ BeginEdit(m) \/ LookForEdit(m) \/ RecordEdit(m)
          \/ \E c \in Contents : WriteEdit(m, c)
          \/ Undo(m) \/ Redo(m)
    BY <1>5 DEF LayoutVersionsNext
  <1>7. CASE \E op \in LayoutOps, v \in 0..MaxVersions : Ask(m, op, v)
    <2>1. PICK op \in LayoutOps, v \in 0..MaxVersions : Ask(m, op, v)
      BY <1>7
    <2> DEFINE r == [op |-> op, seen |-> layout, source |-> v]
    <2>2. r.op \notin {"begun", "looked", "written"}
      BY <1>2
    <2>3. /\ editing' = [editing EXCEPT ![m] = r] /\ versions' = versions /\ mixed' = mixed
          /\ editing[m] = Absent
      BY <2>1 DEF Ask
    <2> HIDE DEF r
    <2>4. ~Asked(m, "written") /\ r.op # "written" /\ r.op \notin {"begun", "looked"}
      BY <2>2, <2>3 DEF Asked
    <2> QED
      BY <1>3, <2>3, <2>4
  <1>8. CASE Open(m) \/ Restore(m) \/ ApplyIndustry(m)
    <2>1. PICK content \in Content : NewDraft(m, content)
      BY <1>8, NewDrafts
    <2>2. editing[m] \in AskedOf(Len(versions)) /\ editing[m].op \in LayoutOps
      BY <1>8, NewDrafts
    <2> DEFINE old == editing[m].seen.draft
    <2>3. /\ versions' \in Seq(Versions) /\ Len(versions') = Len(versions) + 1
          /\ versions'[Len(versions) + 1] = Draft(content)
          /\ \A v \in DOMAIN versions : versions'[v] = IF v = old THEN Gone ELSE versions[v]
      BY <2>1, <2>2, NewDraftMakes
    <2>4. editing' = [editing EXCEPT ![m] = Absent] /\ mixed' = mixed
      BY <2>1 DEF NewDraft, Acted, Answer
    <2>5. ~Asked(m, "written")
      BY <1>2, <2>2 DEF Asked
    <2>6. ASSUME NEW v \in DOMAIN versions'
          PROVE  \/ versions'[v].history = <<>>
                 \/ /\ v \in DOMAIN versions
                    /\ versions'[v].history = versions[v].history
                    /\ versions'[v].content = versions[v].content
                    /\ versions'[v].status = "draft" => versions[v].status = "draft"
      <3>1. v \in DOMAIN versions \/ v = Len(versions) + 1
        BY <1>1, <2>3 DEF n
      <3> QED
        BY <2>3, <3>1 DEF Draft, Gone
    <2> QED
      BY <1>3, <2>4, <2>5, <2>6
  <1>9. CASE Discard(m)
    <2> DEFINE old == editing[m].seen.draft
    <2>1. /\ editing[m].op \in LayoutOps
          /\ versions' \in Seq(Versions) /\ Len(versions') = Len(versions)
          /\ \A v \in DOMAIN versions : versions'[v] = IF v = old THEN Gone ELSE versions[v]
      BY <1>9, DiscardMakes
    <2>2. editing' = [editing EXCEPT ![m] = Absent] /\ mixed' = mixed
      BY <1>9 DEF Discard, Acted, Answer
    <2>3. ~Asked(m, "written")
      BY <1>2, <2>1 DEF Asked
    <2>4. \A v \in DOMAIN versions' :
              \/ versions'[v].history = <<>>
              \/ v \in DOMAIN versions /\ versions'[v] = versions[v]
      BY <1>1, <2>1 DEF n, Gone
    <2> QED
      BY <1>3, <2>2, <2>3, <2>4
  <1>10. CASE Publish(m)
    <2>1. /\ editing[m].op \in LayoutOps
          /\ versions' \in Seq(Versions) /\ Len(versions') = Len(versions)
          /\ \A v \in DOMAIN versions :
                /\ versions'[v].content = versions[v].content
                /\ \/ versions'[v].history = <<>>
                   \/ versions'[v].status = "archived" /\ versions'[v].history = versions[v].history
                   \/ versions'[v] = versions[v]
      BY <1>10, PublishMakes
    <2>2. editing' = [editing EXCEPT ![m] = Absent] /\ mixed' = mixed
      BY <1>10 DEF Publish, Acted, Answer
    <2>3. ~Asked(m, "written")
      BY <1>2, <2>1 DEF Asked
    <2>4. \A v \in DOMAIN versions' :
              \/ versions'[v].history = <<>>
              \/ /\ v \in DOMAIN versions
                 /\ versions'[v].history = versions[v].history
                 /\ versions'[v].content = versions[v].content
                 /\ versions'[v].status = "draft" => versions[v].status = "draft"
      BY <1>1, <2>1 DEF n
    <2> QED
      BY <1>3, <2>2, <2>3, <2>4
  <1>11. CASE Dismiss(m)
    <2>1. /\ editing' = [editing EXCEPT ![m] = Absent] /\ versions' = versions /\ mixed' = mixed
          /\ ~Asked(m, "written")
      BY <1>2, <1>11 DEF Dismiss, Answer, Asked
    <2> QED
      BY <1>3, <2>1
  <1>12. CASE BeginEdit(m)
    <2> DEFINE d == layout.draft
               r == [op |-> "begun", draft |-> d, before |-> versions[d].content, target |-> NoVersion]
    <2>1. /\ editing' = [editing EXCEPT ![m] = r] /\ versions' = versions /\ mixed' = mixed
          /\ editing[m] = Absent /\ d \in DOMAIN versions
      BY <1>12 DEF BeginEdit, IsDraft, Exists
    <2>2. r.op = "begun" /\ r.draft = d /\ r.before = versions[d].content
      OBVIOUS
    <2> HIDE DEF r, d
    <2>3. ~Asked(m, "written")
      BY <2>1 DEF Asked
    <2>4. ASSUME d \notin mixed, versions[d].status = "draft", versions[d].history # <<>>
          PROVE  \/ versions[d].content = Top(versions[d].history)
                 \/ \E i \in Designers \ {m} : Asked(i, "written") /\ editing[i].target = d
      <3>1. (\A k \in Designers : Asked(k, "written") => editing[k].target # d)
              => versions[d].content = Top(versions[d].history)
        BY <2>1, <2>4, FitsTop
      <3> QED
        BY <2>3, <3>1
    <2> QED
      BY <1>3, <2>1, <2>2, <2>3, <2>4
  <1>13. CASE LookForEdit(m)
    <2> DEFINE r == [editing[m] EXCEPT !.op = "looked", !.target = layout.draft]
    <2>1. editing[m] # Absent /\ editing[m].op = "begun"
      BY <1>13 DEF LookForEdit, Asked
    <2>2. /\ editing' = [editing EXCEPT ![m] = r] /\ versions' = versions /\ mixed' = mixed
      BY <1>1, <1>13 DEF LookForEdit, Scoped
    <2>3. r.op = "looked" /\ r.draft = editing[m].draft /\ r.before = editing[m].before
      <3>1. editing[m] \in EditsOf(n)
        BY <2>1, RequestParts DEF n
      <3> QED
        BY <3>1 DEF EditsOf
    <2> HIDE DEF r
    <2>4. ~Asked(m, "written") /\ Snapping(m)
      BY <2>1 DEF Asked, Snapping
    <2> QED
      BY <1>3, <2>2, <2>3, <2>4
  <1>14. CASE RecordEdit(m)
    BY <1>14, HistoryAtRecord
  <1>15. CASE \E c \in Contents : WriteEdit(m, c)
    BY <1>15, HistoryAtWrite
  <1>16. CASE Undo(m) \/ Redo(m)
    BY <1>16, HistoryAtTurn
  <1> QED
    BY <1>6, <1>7, <1>8, <1>9, <1>10, <1>11, <1>12, <1>13, <1>14, <1>15, <1>16

\* However many designers work on the layout and whatever interleaves, what was
\* published is what was frozen, nothing of it can be undone, and the undo
\* history of a draft nobody else edited meanwhile fits the draft; the layout
\* points to its one draft and its one published version unless requests on it
\* overlapped (layout_service, edit_history_service).
THEOREM VersionsIsSound == LayoutVersionsSpec => []VersionsSound
  <1>1. LayoutVersionsInit => VersionsInv
    BY InitVersions
  <1>2. VersionsInv /\ [LayoutVersionsNext]_layoutVars => VersionsInv'
    <2> SUFFICES ASSUME VersionsInv, [LayoutVersionsNext]_layoutVars PROVE VersionsInv'
      OBVIOUS
    <2>1. /\ VersionTypes /\ PointersInv /\ HistoryInv
          /\ \A v \in DOMAIN versions : StackOf(versions[v].history)
      BY DEF VersionsInv, HistoryInv
    <2>2. VersionTypes'
      BY <2>1, VersionTypesKept
    <2>3. PointersInv'
      BY <2>1, PointersStep
    <2>4. HistoryInv'
      BY <2>1, HistoryStep
    <2> QED
      BY <2>2, <2>3, <2>4 DEF VersionsInv
  <1>3. VersionsInv => VersionsSound
    BY VersionTypesHold DEF VersionsInv, VersionsSound, PointersInv, HistoryInv
  <1> QED
    BY <1>1, <1>2, <1>3, PTL DEF LayoutVersionsSpec

-----------------------------------------------------------------------------
(* The order of the sections of a page.                                    *)

\* The sections of a page: finitely many, each with an order.
Sortable(ss) ==
    /\ IsFiniteSet(DOMAIN ss) /\ DOMAIN ss \subseteq Nat
    /\ \A s \in DOMAIN ss : ss[s].order \in Nat

\* A section's place is one more than the number of those before it, and so
\* every section has a place of its own.
LEMMA OrderedLists ==
    ASSUME NEW ss, Sortable(ss)
    PROVE  LET order == Ordered(ss)
               n == Cardinality(DOMAIN ss) IN
           /\ n \in Nat /\ order \in [1..n -> DOMAIN ss] /\ DOMAIN order = 1..n
           /\ \A s \in DOMAIN ss : \E i \in 1..n : order[i] = s
           /\ \A i, j \in 1..n : i < j => Before(ss, order[i], order[j])
           /\ \A i, j \in 1..n : order[i] = order[j] => i = j
<1> DEFINE S == DOMAIN ss
           n == Cardinality(S)
           Pre(s) == {t \in S : Before(ss, t, s)}
           rank == [s \in S |-> Cardinality(Pre(s))]
           order == Ordered(ss)
<1>1. /\ IsFiniteSet(S) /\ S \subseteq Nat /\ n \in Nat
      /\ \A s \in S : ss[s].order \in Nat
  BY FS_CardinalityType DEF Sortable
<1>2. \A a, b \in S : a # b => Before(ss, a, b) \/ Before(ss, b, a)
  BY <1>1 DEF Before
<1>3. \A a, b, c \in S : Before(ss, a, b) /\ Before(ss, b, c) => Before(ss, a, c)
  BY <1>1 DEF Before
<1>4. \A a \in S : ~Before(ss, a, a)
  BY <1>1 DEF Before
<1>5. \A s \in S : IsFiniteSet(Pre(s)) /\ Cardinality(Pre(s)) \in Nat
  <2>1. \A s \in S : Pre(s) \in SUBSET S
    OBVIOUS
  <2>. QED
    BY <1>1, <2>1, FS_Subset, FS_CardinalityType
<1>6. ASSUME NEW s \in S PROVE rank[s] \in 0..(n - 1)
  <2>1. Pre(s) \in SUBSET (S \ {s})
    BY <1>4
  <2>2. IsFiniteSet(S \ {s}) /\ Cardinality(S \ {s}) = n - 1
    BY <1>1, FS_RemoveElement
  <2>3. Cardinality(Pre(s)) <= n - 1
    BY <2>1, <2>2, FS_Subset
  <2>4. rank[s] = Cardinality(Pre(s)) /\ Cardinality(Pre(s)) \in Nat
    BY <1>5
  <2> HIDE DEF rank, Pre
  <2>. QED
    BY <1>1, <2>3, <2>4
<1>7. ASSUME NEW a \in S, NEW b \in S, Before(ss, a, b) PROVE rank[a] < rank[b]
  <2>1. Pre(a) \in SUBSET Pre(b) /\ a \in Pre(b) /\ a \notin Pre(a)
    BY <1>3, <1>4, <1>7
  <2>2. /\ Cardinality(Pre(a)) <= Cardinality(Pre(b))
        /\ Cardinality(Pre(b)) = Cardinality(Pre(a)) => Pre(b) = Pre(a)
    <3> HIDE DEF Pre
    <3>. QED
      BY <1>5, <2>1, FS_Subset
  <2>3. Cardinality(Pre(a)) # Cardinality(Pre(b))
    BY <2>1, <2>2
  <2>. QED
    BY <1>5, <2>2, <2>3
<1> DEFINE f == [s \in S |-> rank[s] + 1]
<1>8. f \in Injection(S, 1..n)
  <2> HIDE DEF rank
  <2>1. f \in [S -> 1..n]
    BY <1>1, <1>6
  <2>2. \A a, b \in S : a # b => rank[a] # rank[b]
    BY <1>2, <1>6, <1>7
  <2>3. \A a, b \in S : f[a] = f[b] => a = b
    BY <1>6, <2>2
  <2>. QED
    BY <2>1, <2>3 DEF Injection, IsInjective
<1>9. f \in Surjection(S, 1..n)
  <2>1. IsFiniteSet(1..n) /\ Cardinality(1..n) = n
    BY <1>1, FS_Interval
  <2>. QED
    BY <1>8, <2>1, FS_Injection
<1>10. \A i \in 1..n : \E s \in S : rank[s] = i - 1
  <2>1. \A i \in 1..n : \E s \in S : f[s] = i
    BY <1>9 DEF Surjection
  <2> HIDE DEF rank
  <2>. QED
    BY <1>6, <2>1
<1>11. order = [i \in 1..n |-> CHOOSE s \in S : Cardinality(Pre(s)) = i - 1]
  BY DEF Ordered
<1>12. DOMAIN order = 1..n /\ \A i \in 1..n : order[i] \in S /\ rank[order[i]] = i - 1
  <2>1. \A i \in 1..n : \E s \in S : Cardinality(Pre(s)) = i - 1
    BY <1>10
  <2> HIDE DEF order, Pre
  <2>2. \A i \in 1..n : order[i] \in S /\ Cardinality(Pre(order[i])) = i - 1
    BY <1>11, <2>1
  <2>. QED
    BY <1>11, <2>2
<1> HIDE DEF order, rank
<1>13. \A s \in S : \E i \in 1..n : order[i] = s
  <2>1. SUFFICES ASSUME NEW s \in S PROVE \E i \in 1..n : order[i] = s
    OBVIOUS
  <2>2. rank[s] + 1 \in 1..n /\ rank[s] \in Int
    BY <1>1, <1>6
  <2>3. order[rank[s] + 1] \in S /\ rank[order[rank[s] + 1]] = rank[s]
    BY <1>12, <2>2
  <2>4. order[rank[s] + 1] = s
    <3>1. \A a, b \in S : a # b => rank[a] # rank[b]
      BY <1>2, <1>6, <1>7
    <3>. QED
      BY <2>3, <3>1
  <2>. QED
    BY <2>2, <2>4
<1>14. ASSUME NEW i \in 1..n, NEW j \in 1..n, i < j PROVE Before(ss, order[i], order[j])
  <2>1. rank[order[i]] < rank[order[j]] /\ order[i] \in S /\ order[j] \in S
    BY <1>12, <1>14
  <2>2. ~Before(ss, order[j], order[i]) /\ order[i] # order[j]
    BY <1>6, <1>7, <2>1
  <2>. QED
    BY <1>2, <2>1, <2>2
<1>15. \A i, j \in 1..n : order[i] = order[j] => i = j
  BY <1>12
<1>16. order \in [1..n -> S]
  BY <1>11, <1>12
<1>. QED
  BY <1>1, <1>12, <1>13, <1>14, <1>15, <1>16 DEF order

\* What a list is, of which all is known that its places hold.
LEMMA OrderedIsSeq ==
    ASSUME NEW ss, Sortable(ss)
    PROVE  /\ Ordered(ss) \in Seq(DOMAIN ss) /\ Len(Ordered(ss)) = Cardinality(DOMAIN ss)
           /\ ToSet(Ordered(ss)) = DOMAIN ss
<1> DEFINE n == Cardinality(DOMAIN ss)
           order == Ordered(ss)
<1>1. /\ n \in Nat /\ order \in [1..n -> DOMAIN ss] /\ DOMAIN order = 1..n
      /\ \A s \in DOMAIN ss : \E i \in 1..n : order[i] = s
  BY OrderedLists
<1> HIDE DEF order, n
<1>2. order \in Seq(DOMAIN ss) /\ Len(order) = n
  BY <1>1
<1>3. ToSet(order) = DOMAIN ss
  BY <1>1 DEF ToSet
<1>. QED
  BY <1>2, <1>3 DEF order, n

-----------------------------------------------------------------------------
(* The sections of a page.                                                 *)
SecsOK == Ids \subseteq 1..MaxSections /\ \A s \in Ids : secs[s] \in Section

LEMMA SectionIs ==
    ASSUME NEW x
    PROVE  x \in Section <=>
               /\ x = [order |-> x.order, row |-> x.row, span |-> x.span, locked |-> x.locked]
               /\ x.order \in Nat /\ x.row \in Nat /\ x.span \in 1..GridUnits /\ x.locked \in BOOLEAN
  BY DEF Section

LEMMA IdsAreFinite ==
    ASSUME NEW ss, DOMAIN ss \subseteq 1..MaxSections, \A s \in DOMAIN ss : ss[s].order \in Nat
    PROVE  Sortable(ss) /\ Cardinality(DOMAIN ss) \in Nat
<1>1. IsFiniteSet(1..MaxSections) /\ DOMAIN ss \in SUBSET (1..MaxSections)
  BY PageIsBounded, FS_Interval
<1>2. DOMAIN ss \subseteq Nat
  BY PageIsBounded
<1>. QED
  BY <1>1, <1>2, FS_Subset, FS_CardinalityType DEF Sortable

LEMMA FreshIsNew ==
    ASSUME SecsOK
    PROVE  Fresh \in Nat /\ Fresh >= 1 /\ Fresh \notin Ids
<1>1. \A s \in Ids : secs[s].order \in Nat
  BY DEF SecsOK, Section
<1>2. IsFiniteSet(Ids) /\ Ids \subseteq Nat
  BY <1>1, IdsAreFinite DEF SecsOK, Sortable, Ids
<1> DEFINE S == Ids \cup {0}
<1>3. IsFiniteSet(S) /\ S \subseteq Nat /\ S # {}
  BY <1>2, FS_AddElement
<1>4. Max(S) \in S /\ \A y \in S : Max(S) >= y
  <2> HIDE DEF S
  <2>. QED
    BY <1>3, MaxIn
<1>5. Max(S) \in Nat
  BY <1>3, <1>4
<1>. QED
  BY <1>4, <1>5 DEF Fresh

LEMMA NextOrderIsNat ==
    ASSUME SecsOK
    PROVE  NextOrder \in Nat /\ \A s \in Ids : secs[s].order < NextOrder
<1>1. \A s \in Ids : secs[s].order \in Nat
  BY DEF SecsOK, Section
<1>2. IsFiniteSet(Ids)
  BY <1>1, IdsAreFinite DEF SecsOK, Sortable, Ids
<1> DEFINE R == {secs[s].order : s \in Ids}
           f == [s \in Ids |-> secs[s].order]
<1>3. IsFiniteSet(R) /\ R \subseteq Nat
  <2>1. f \in Surjection(Ids, R)
    BY DEF Surjection
  <2>. QED
    BY <1>1, <1>2, <2>1, FS_Surjection
<1>4. \E x \in R \cup {-1} : \A y \in R \cup {-1} : x >= y
  <2>1. CASE R = {}
    BY <2>1
  <2>2. CASE R # {}
    <3>1. PICK x \in R : \A y \in R : x >= y
      BY <1>3, <2>2, GreatestMember
    <3>. QED
      BY <1>3, <3>1
  <2>. QED
    BY <2>1, <2>2
<1>5. PICK m : m = Max(R \cup {-1})
  OBVIOUS
<1>6. m \in R \cup {-1} /\ \A y \in R \cup {-1} : m >= y
  BY <1>4, <1>5 DEF Max
<1>7. NextOrder = 1 + m
  BY <1>5 DEF NextOrder
<1>. QED
  BY <1>1, <1>3, <1>6, <1>7

\* What an operation may make of the sections: sections of the same kind, the
\* locked ones in their rows, and in their order when none was added.
Lawful(ss) ==
    /\ DOMAIN ss \subseteq 1..MaxSections
    /\ \A s \in DOMAIN ss : ss[s] \in Section
    /\ \A s \in Ids : secs[s].locked =>
           /\ s \in DOMAIN ss
           /\ ss[s].row = secs[s].row /\ ss[s].span = secs[s].span
           /\ DOMAIN ss \subseteq Ids => ss[s].order = secs[s].order

LEMMA AddedIsLawful ==
    ASSUME SecsOK, MayAppend
    PROVE  Lawful(With(Fresh, Standalone(NextOrder)))
<1>1. Fresh \in 1..MaxSections /\ Fresh \notin Ids
  BY FreshIsNew, PageIsBounded DEF MayAppend
<1>2. Standalone(NextOrder) \in Section
  BY NextOrderIsNat DEF Standalone, Section, NoRow, GridUnits
<1> DEFINE ss == With(Fresh, Standalone(NextOrder))
<1>3. /\ DOMAIN ss = Ids \cup {Fresh} /\ ss[Fresh] = Standalone(NextOrder)
      /\ \A s \in Ids : ss[s] = secs[s]
  BY <1>1 DEF With
<1> HIDE DEF ss
<1>4. Lawful(ss)
  BY <1>1, <1>2, <1>3 DEF Lawful, SecsOK
<1>. QED
  BY <1>4 DEF ss

LEMMA RemovedIsLawful ==
    ASSUME SecsOK, NEW s, s \in Ids => ~secs[s].locked
    PROVE  Lawful(Restrict(secs, Ids \ {s}))
<1> DEFINE ss == Restrict(secs, Ids \ {s})
<1>1. DOMAIN ss = Ids \ {s} /\ \A t \in Ids \ {s} : ss[t] = secs[t]
  BY DEF Restrict
<1> HIDE DEF ss
<1>2. Lawful(ss)
  BY <1>1 DEF Lawful, SecsOK
<1>. QED
  BY <1>2 DEF ss

\* Sections of which each keeps its order and its lock, and its row and span
\* when it is locked.
LEMMA RerowedIsLawful ==
    ASSUME SecsOK, NEW ss, DOMAIN ss = Ids,
           \A s \in Ids : /\ ss[s] \in Section /\ ss[s].order = secs[s].order
                          /\ secs[s].locked =>
                                 ss[s].row = secs[s].row /\ ss[s].span = secs[s].span
    PROVE  Lawful(ss)
  BY DEF Lawful, SecsOK

LEMMA RegroupedIsLawful ==
    ASSUME SecsOK, NEW row \in Nat, NEW spans \in RowPresets, NEW members \in Seq(Ids),
           Len(members) = Len(spans), NEW released,
           \A m \in Ids : m \in ToSet(members) \/ m \in released => ~secs[m].locked
    PROVE  Lawful(Regrouped(members, row, spans, released))
<1> DEFINE ss == Regrouped(members, row, spans, released)
           at(t) == CHOOSE i \in DOMAIN members : members[i] = t
<1>1. /\ spans \in Seq(1..GridUnits) /\ DOMAIN spans = 1..Len(spans)
      /\ DOMAIN members = 1..Len(spans)
  BY LayoutsFill
<1>2. ASSUME NEW t \in ToSet(members) PROVE spans[at(t)] \in 1..GridUnits
  <2>1. at(t) \in DOMAIN members
    BY DEF ToSet
  <2> HIDE DEF at
  <2>2. \A i \in 1..Len(spans) : spans[i] \in 1..GridUnits
    BY <1>1, ElementOfSeq
  <2>. QED
    BY <1>1, <2>1, <2>2
<1>3. DOMAIN ss = Ids
  BY DEF Regrouped
<1>4. ASSUME NEW t \in Ids
      PROVE  /\ ss[t] \in Section /\ ss[t].order = secs[t].order
             /\ secs[t].locked => ss[t].row = secs[t].row /\ ss[t].span = secs[t].span
  <2>1. /\ secs[t] = [order |-> secs[t].order, row |-> secs[t].row, span |-> secs[t].span,
                      locked |-> secs[t].locked]
        /\ secs[t].order \in Nat /\ secs[t].row \in Nat /\ secs[t].span \in 1..GridUnits
        /\ secs[t].locked \in BOOLEAN
    BY SectionIs DEF SecsOK
  <2>2. ss[t] = IF t \in ToSet(members)
                THEN [secs[t] EXCEPT !.row = row, !.span = spans[at(t)]]
                ELSE IF t \in released
                THEN [secs[t] EXCEPT !.row = NoRow, !.span = GridUnits]
                ELSE secs[t]
    BY DEF Regrouped
  <2> HIDE DEF ss, at
  <2>3. CASE t \in ToSet(members)
    <3>1. ss[t] = [order |-> secs[t].order, row |-> row, span |-> spans[at(t)],
                   locked |-> secs[t].locked]
      BY <2>1, <2>2, <2>3
    <3>. QED
      BY <1>2, <2>1, <2>3, <3>1 DEF Section
  <2>4. CASE t \notin ToSet(members) /\ t \in released
    <3>1. ss[t] = [order |-> secs[t].order, row |-> NoRow, span |-> GridUnits,
                   locked |-> secs[t].locked]
      BY <2>1, <2>2, <2>4
    <3>. QED
      BY <2>1, <2>4, <3>1 DEF Section, NoRow, GridUnits
  <2>5. CASE t \notin ToSet(members) /\ t \notin released
    BY <2>2, <2>5 DEF SecsOK
  <2>. QED
    BY <2>3, <2>4, <2>5
<1> HIDE DEF ss
<1>5. Lawful(ss)
  BY <1>3, <1>4, RerowedIsLawful
<1>. QED
  BY <1>5 DEF ss

\* A section is in the order of the page, and what follows it is a list.
LEMMA NeighboursAreListed ==
    ASSUME SecsOK, NEW s \in Ids, NEW n \in Nat,
           LET at == CHOOSE i \in DOMAIN Ordered(secs) : Ordered(secs)[i] = s
           IN  at + n - 1 <= Len(Ordered(secs))
    PROVE  LET order == Ordered(secs)
               at == CHOOSE i \in DOMAIN order : order[i] = s
               members == SubSeq(order, at, at + n - 1) IN
           /\ at \in 1..Len(order) /\ order[at] = s
           /\ members \in Seq(Ids) /\ Len(members) = n
           /\ \A i \in 1..n : members[i] = order[at + i - 1]
<1> DEFINE order == Ordered(secs)
           at == CHOOSE i \in DOMAIN order : order[i] = s
           members == SubSeq(order, at, at + n - 1)
<1>1. \A t \in Ids : secs[t].order \in Nat
  BY DEF SecsOK, Section
<1>2. Sortable(secs)
  BY <1>1, IdsAreFinite DEF SecsOK, Ids
<1>3. order \in Seq(Ids) /\ ToSet(order) = Ids
  BY <1>2, OrderedIsSeq DEF Ids
<1> HIDE DEF order
<1>4. Len(order) \in Nat /\ DOMAIN order = 1..Len(order) /\ \A i \in 1..Len(order) : order[i] \in Ids
  BY <1>3
<1>5. at \in DOMAIN order /\ order[at] = s
  BY <1>3 DEF ToSet
<1> HIDE DEF at
<1>6. at \in 1..Len(order)
  BY <1>4, <1>5
<1>7. at + n - 1 <= Len(order)
  BY DEF order, at
<1>8. \A i \in at..(at + n - 1) : order[i] \in Ids
  BY <1>4, <1>6, <1>7
<1>9. /\ members \in Seq(Ids)
      /\ Len(members) = (IF at <= at + n - 1 THEN (at + n - 1) - at + 1 ELSE 0)
      /\ \A i \in 1..((at + n - 1) - at + 1) : members[i] = order[at + i - 1]
  <2>1. at \in Int /\ at + n - 1 \in Int
    BY <1>6
  <2>. QED
    BY <1>8, <2>1, SubSeqProperties
<1>10. (at + n - 1) - at + 1 = n /\ (~(at <= at + n - 1) => n = 0)
  BY <1>6
<1> HIDE DEF members
<1>11. Len(members) = n /\ \A i \in 1..n : members[i] = order[at + i - 1]
  BY <1>9, <1>10
<1>. QED
  BY <1>5, <1>6, <1>9, <1>11 DEF members, at, order

\* Some row has no member, since a section that is in none leaves one over.
LEMMA SomeRowIsFree ==
    ASSUME SecsOK, NEW s \in Ids, secs[s].row = NoRow
    PROVE  \E r \in 1..MaxSections : \A t \in Ids : secs[t].row # r
<1> DEFINE T == Ids \ {s}
           R == {secs[t].row : t \in T}
           f == [t \in T |-> secs[t].row]
           N == 1..MaxSections
<1>1. IsFiniteSet(N) /\ Cardinality(N) = MaxSections /\ MaxSections \in Nat
  <2>1. IsFiniteSet(N) /\ Cardinality(N) = IF 1 > MaxSections THEN 0 ELSE MaxSections - 1 + 1
    BY PageIsBounded, FS_Interval
  <2>. QED
    BY PageIsBounded, <2>1
<1>2. Ids \in SUBSET N /\ T \in SUBSET N
  BY DEF SecsOK
<1>3. IsFiniteSet(T) /\ Cardinality(T) \in Nat /\ Cardinality(T) < MaxSections
  <2>1. IsFiniteSet(Ids) /\ Cardinality(Ids) \in Nat /\ Cardinality(Ids) <= MaxSections
    BY <1>1, <1>2, FS_Subset, FS_CardinalityType
  <2>2. IsFiniteSet(T) /\ Cardinality(T) = Cardinality(Ids) - 1 /\ Cardinality(T) \in Nat
    BY <2>1, FS_RemoveElement, FS_CardinalityType
  <2>. QED
    BY <1>1, <2>1, <2>2
<1>4. IsFiniteSet(R) /\ Cardinality(R) <= Cardinality(T) /\ Cardinality(R) \in Nat
  <2>1. f \in Surjection(T, R)
    BY DEF Surjection
  <2>. QED
    BY <1>3, <2>1, FS_Surjection, FS_CardinalityType
<1>5. ~(N \subseteq R)
  <2>1. SUFFICES ASSUME N \in SUBSET R PROVE FALSE
    OBVIOUS
  <2>2. Cardinality(N) <= Cardinality(R)
    BY <1>4, <2>1, FS_Subset
  <2>. QED
    BY <1>1, <1>3, <1>4, <2>2
<1>6. PICK r \in N : r \notin R
  BY <1>5
<1>7. r # NoRow
  BY <1>1 DEF NoRow
<1>. QED
  BY <1>6, <1>7

LEMMA SectionAddMakes ==
    ASSUME SecsOK, NEW k \in 1..(Cardinality(Ids) + 1), SectionAdd(k)
    PROVE  /\ DOMAIN secs' = Ids \cup {Fresh} /\ Fresh \in 1..MaxSections /\ Fresh \notin Ids
           /\ \A s \in Ids : /\ secs'[s] \in Section
                             /\ secs'[s].row = secs[s].row /\ secs'[s].span = secs[s].span
           /\ secs'[Fresh] \in Section /\ secs'[Fresh].row = NoRow
<1> DEFINE o == Ordered(secs)
           order == InsertAt(o, k, Fresh)
           at(s) == CHOOSE i \in DOMAIN order : order[i] = s
<1>1. \A t \in Ids : secs[t].order \in Nat
  BY DEF SecsOK, Section
<1>2. Sortable(secs) /\ Cardinality(Ids) \in Nat
  BY <1>1, IdsAreFinite DEF SecsOK, Ids
<1>3. o \in Seq(Ids) /\ ToSet(o) = Ids /\ Len(o) = Cardinality(Ids)
  BY <1>2, OrderedIsSeq DEF Ids
<1>4. Fresh \in 1..MaxSections /\ Fresh \notin Ids
  BY FreshIsNew, PageIsBounded DEF SectionAdd
<1>5. secs' = [s \in ToSet(order) |-> IF s = Fresh THEN Standalone(at(s) - 1)
                                      ELSE [secs[s] EXCEPT !.order = at(s) - 1]]
  BY DEF SectionAdd, WriteRows
<1> HIDE DEF o
<1>6. /\ DOMAIN order = 1..(Len(o) + 1)
      /\ \A i \in 1..(Len(o) + 1) : order[i] = IF i < k THEN o[i] ELSE IF i = k THEN Fresh ELSE o[i - 1]
  <2> DEFINE p == SubSeq(o, 1, k - 1)
             q == SubSeq(o, k, Len(o))
  <2>1. /\ Len(o) \in Nat /\ k \in 1..(Len(o) + 1) /\ \A i \in 1..Len(o) : o[i] \in Ids
    BY <1>3
  <2>2. /\ p \in Seq(Ids) /\ Len(p) = k - 1 /\ \A i \in 1..(k - 1) : p[i] = o[i]
    <3>1. \A i \in 1..(k - 1) : o[i] \in Ids
      BY <2>1
    <3>2. /\ p \in Seq(Ids) /\ Len(p) = (IF 1 <= k - 1 THEN k - 1 - 1 + 1 ELSE 0)
          /\ \A i \in 1..(k - 1 - 1 + 1) : p[i] = o[1 + i - 1]
      BY <2>1, <3>1, SubSeqProperties
    <3> HIDE DEF p
    <3>. QED
      BY <2>1, <3>2
  <2>3. /\ q \in Seq(Ids) /\ Len(q) = Len(o) - k + 1
        /\ \A i \in 1..(Len(o) - k + 1) : q[i] = o[k + i - 1]
    <3>1. \A i \in k..Len(o) : o[i] \in Ids
      BY <2>1
    <3>2. /\ q \in Seq(Ids) /\ Len(q) = (IF k <= Len(o) THEN Len(o) - k + 1 ELSE 0)
          /\ \A i \in 1..(Len(o) - k + 1) : q[i] = o[k + i - 1]
      BY <2>1, <3>1, SubSeqProperties
    <3> HIDE DEF q
    <3>. QED
      BY <2>1, <3>2
  <2>4. order = p \o <<Fresh>> \o q
    BY DEF InsertAt
  <2> HIDE DEF p, q, order
  <2>5. p \o <<Fresh>> \in Seq(Ids \cup {Fresh}) /\ Len(p \o <<Fresh>>) = k
        /\ \A i \in 1..k : (p \o <<Fresh>>)[i] = IF i < k THEN p[i] ELSE Fresh
    BY <2>1, <2>2
  <2> DEFINE r == p \o <<Fresh>>
  <2> HIDE DEF r
  <2>6. r \in Seq(Ids \cup {Fresh}) /\ Len(r) = k
        /\ \A i \in 1..k : r[i] = IF i < k THEN p[i] ELSE Fresh
    BY <2>5 DEF r
  <2>7. order = r \o q
    BY <2>4 DEF r
  <2>8. q \in Seq(Ids \cup {Fresh})
    BY <2>3
  <2>9. /\ DOMAIN order = 1..(Len(r) + Len(q))
        /\ \A i \in 1..(Len(r) + Len(q)) : order[i] = IF i <= Len(r) THEN r[i] ELSE q[i - Len(r)]
    <3> DEFINE S == Ids \cup {Fresh}
    <3>1. r \in Seq(S) /\ q \in Seq(S)
      BY <2>6, <2>8
    <3> HIDE DEF S
    <3>2. /\ r \o q \in Seq(S) /\ Len(r \o q) = Len(r) + Len(q)
          /\ \A i \in 1..(Len(r) + Len(q)) : (r \o q)[i] = IF i <= Len(r) THEN r[i] ELSE q[i - Len(r)]
      BY <3>1, ConcatProperties
    <3>3. DOMAIN (r \o q) = 1..Len(r \o q)
      BY <3>2
    <3>. QED
      BY <2>7, <3>2, <3>3
  <2>10. Len(r) + Len(q) = Len(o) + 1
    BY <2>1, <2>3, <2>6
  <2>11. ASSUME NEW i \in 1..(Len(o) + 1)
         PROVE  order[i] = IF i < k THEN o[i] ELSE IF i = k THEN Fresh ELSE o[i - 1]
    <3>1. CASE i < k
      <4>1. order[i] = r[i] /\ r[i] = p[i] /\ p[i] = o[i]
        BY <2>1, <2>2, <2>6, <2>9, <2>10, <3>1
      <4>. QED
        BY <3>1, <4>1
    <3>2. CASE i = k
      BY <2>1, <2>6, <2>9, <2>10, <3>2
    <3>3. CASE i > k
      <4>1. i - k \in 1..(Len(o) - k + 1) /\ k + (i - k) - 1 = i - 1
        BY <2>1, <3>3
      <4>2. order[i] = q[i - k]
        BY <2>1, <2>6, <2>9, <2>10, <3>3
      <4>3. q[i - k] = o[k + (i - k) - 1]
        BY <2>3, <4>1
      <4>. QED
        BY <2>1, <3>3, <4>1, <4>2, <4>3
    <3>. QED
      BY <2>1, <3>1, <3>2, <3>3
  <2>. QED
    BY <2>9, <2>10, <2>11
<1>7. Len(o) \in Nat /\ DOMAIN o = 1..Len(o) /\ k \in 1..(Len(o) + 1)
  BY <1>3
<1> HIDE DEF order
<1>8. ToSet(order) = Ids \cup {Fresh}
  <2>1. \A i \in 1..(Len(o) + 1) : order[i] \in Ids \cup {Fresh}
    <3>1. \A i \in 1..Len(o) : o[i] \in Ids
      BY <1>3
    <3>. QED
      BY <1>6, <1>7, <3>1
  <2>2. Fresh \in ToSet(order)
    BY <1>6, <1>7 DEF ToSet
  <2>3. ASSUME NEW s \in Ids PROVE s \in ToSet(order)
    <3>1. PICK i \in 1..Len(o) : o[i] = s
      BY <1>3, <1>7 DEF ToSet
    <3>2. CASE i < k
      BY <1>6, <1>7, <3>1, <3>2 DEF ToSet
    <3>3. CASE ~(i < k)
      <4>1. i + 1 \in 1..(Len(o) + 1) /\ ~(i + 1 < k) /\ i + 1 # k /\ (i + 1) - 1 = i
        BY <1>7, <3>3
      <4>2. order[i + 1] = s
        BY <1>6, <3>1, <4>1
      <4>. QED
        BY <1>6, <4>1, <4>2 DEF ToSet
    <3>. QED
      BY <3>2, <3>3
  <2>. QED
    BY <1>6, <2>1, <2>2, <2>3 DEF ToSet
<1>9. \A s \in ToSet(order) : at(s) \in 1..(Len(o) + 1)
  BY <1>6 DEF ToSet
<1> HIDE DEF at
<1>10. ASSUME NEW s \in Ids
       PROVE  secs'[s] \in Section /\ secs'[s].row = secs[s].row /\ secs'[s].span = secs[s].span
  <2>1. /\ secs[s] = [order |-> secs[s].order, row |-> secs[s].row, span |-> secs[s].span,
                      locked |-> secs[s].locked]
        /\ secs[s].row \in Nat /\ secs[s].span \in 1..GridUnits /\ secs[s].locked \in BOOLEAN
    BY SectionIs DEF SecsOK
  <2>2. secs'[s] = [secs[s] EXCEPT !.order = at(s) - 1] /\ at(s) - 1 \in Nat
    BY <1>4, <1>5, <1>7, <1>8, <1>9
  <2>3. secs'[s] = [order |-> at(s) - 1, row |-> secs[s].row, span |-> secs[s].span,
                    locked |-> secs[s].locked]
    BY <2>1, <2>2
  <2>. QED
    BY <2>1, <2>2, <2>3 DEF Section
<1>11. secs'[Fresh] \in Section /\ secs'[Fresh].row = NoRow
  <2>1. secs'[Fresh] = Standalone(at(Fresh) - 1) /\ at(Fresh) - 1 \in Nat
    BY <1>5, <1>7, <1>8, <1>9
  <2>. QED
    BY <2>1 DEF Standalone, Section, NoRow, GridUnits
<1>. QED
  BY <1>4, <1>5, <1>8, <1>10, <1>11

LEMMA SectionAddIsLawful ==
    ASSUME SecsOK, NEW k \in 1..(Cardinality(Ids) + 1), SectionAdd(k)
    PROVE  Lawful(secs')
  BY SectionAddMakes DEF Lawful, SecsOK

LEMMA RowFullIsLawful ==
    ASSUME SecsOK, NEW s \in Ids, RowFull(s)
    PROVE  Lawful(secs')
<1> DEFINE members == {t \in Ids : secs[t].row = secs[s].row}
<1>1. /\ secs' = [t \in Ids |->
             IF t \in members THEN [secs[t] EXCEPT !.row = NoRow, !.span = GridUnits] ELSE secs[t]]
      /\ \A m \in members : ~secs[m].locked
  BY DEF RowFull, NoneLocked, WriteRows
<1>2. DOMAIN secs' = Ids
  BY <1>1
<1>3. ASSUME NEW t \in Ids
      PROVE  /\ secs'[t] \in Section /\ secs'[t].order = secs[t].order
             /\ secs[t].locked => secs'[t].row = secs[t].row /\ secs'[t].span = secs[t].span
  <2>1. /\ secs[t] = [order |-> secs[t].order, row |-> secs[t].row, span |-> secs[t].span,
                      locked |-> secs[t].locked]
        /\ secs[t].order \in Nat /\ secs[t].locked \in BOOLEAN /\ secs[t] \in Section
    BY SectionIs DEF SecsOK
  <2>2. CASE t \in members
    <3>1. secs'[t] = [secs[t] EXCEPT !.row = NoRow, !.span = GridUnits]
      BY <1>1, <2>2
    <3>2. secs'[t] = [order |-> secs[t].order, row |-> NoRow, span |-> GridUnits,
                      locked |-> secs[t].locked]
      BY <2>1, <3>1
    <3>3. ~secs[t].locked
      BY <1>1, <2>2
    <3> HIDE DEF members
    <3>4. secs'[t] \in Section /\ secs'[t].order = secs[t].order
      BY <2>1, <3>2 DEF Section, NoRow, GridUnits
    <3>. QED
      BY <3>3, <3>4
  <2>3. CASE t \notin members
    BY <1>1, <2>1, <2>3
  <2>. QED
    BY <2>2, <2>3
<1>. QED
  BY <1>2, <1>3, RerowedIsLawful

LEMMA SpansAreListed ==
    ASSUME NEW spans \in RowPresets
    PROVE  /\ spans \in Seq(1..GridUnits) /\ Len(spans) \in Nat /\ Len(spans) \in 2..MaxCells
  BY LayoutsFill

LEMMA RowGroupIsLawful ==
    ASSUME SecsOK, NEW s \in Ids, NEW spans \in RowPresets, RowGroup(s, spans)
    PROVE  Lawful(secs')
<1> DEFINE order == Ordered(secs)
           at == CHOOSE i \in DOMAIN order : order[i] = s
           members == SubSeq(order, at, at + Len(spans) - 1)
           key == CHOOSE r \in 1..MaxSections : \A t \in Ids : secs[t].row # r
<1>1. /\ secs[s].row = NoRow /\ at + Len(spans) - 1 <= Len(order)
      /\ NoneLocked(ToSet(members)) /\ secs' = Regrouped(members, key, spans, {})
  BY DEF RowGroup, WriteRows
<1>2. key \in Nat
  <2>1. \E r \in 1..MaxSections : \A t \in Ids : secs[t].row # r
    BY <1>1, SomeRowIsFree
  <2>2. key \in 1..MaxSections
    BY <2>1
  <2> HIDE DEF key
  <2>. QED
    BY <2>2, PageIsBounded
<1>3. members \in Seq(Ids) /\ Len(members) = Len(spans)
  BY <1>1, SpansAreListed, NeighboursAreListed
<1> HIDE DEF members, key
<1>4. \A m \in Ids : m \in ToSet(members) \/ m \in {} => ~secs[m].locked
  BY <1>1 DEF NoneLocked
<1>5. Lawful(Regrouped(members, key, spans, {}))
  BY <1>2, <1>3, <1>4, RegroupedIsLawful
<1>. QED
  BY <1>1, <1>5

\* The members of a row, in order.
LEMMA RowIsListed ==
    ASSUME SecsOK, NEW row
    PROVE  LET M == {t \in Ids : secs[t].row = row}
               current == Ordered(Restrict(secs, M)) IN
           current \in Seq(M) /\ ToSet(current) = M
<1> DEFINE M == {t \in Ids : secs[t].row = row}
           ss == Restrict(secs, M)
<1>1. DOMAIN ss = M /\ \A t \in M : ss[t] = secs[t]
  BY DEF Restrict
<1>2. \A t \in M : ss[t].order \in Nat /\ t \in 1..MaxSections
  BY <1>1 DEF SecsOK, Section
<1> HIDE DEF ss
<1>3. DOMAIN ss \subseteq 1..MaxSections /\ \A t \in DOMAIN ss : ss[t].order \in Nat
  BY <1>1, <1>2
<1>4. Sortable(ss)
  BY <1>3, IdsAreFinite
<1>5. Ordered(ss) \in Seq(DOMAIN ss) /\ ToSet(Ordered(ss)) = DOMAIN ss
  BY <1>4, OrderedIsSeq
<1>. QED
  BY <1>1, <1>5 DEF ss

LEMMA RowReshapeIsLawful ==
    ASSUME SecsOK, NEW s \in Ids, NEW spans \in RowPresets, RowReshape(s, spans)
    PROVE  Lawful(secs')
<1> DEFINE order == Ordered(secs)
           row == secs[s].row
           M == {t \in Ids : secs[t].row = row}
           current == Ordered(Restrict(secs, M))
           first == Head(current)
           start == CHOOSE i \in DOMAIN order : order[i] = first
           members == SubSeq(order, start, start + Len(spans) - 1)
           released == ToSet(current) \ ToSet(members)
<1>1. /\ start + Len(spans) - 1 <= Len(order)
      /\ NoneLocked(ToSet(current) \cup ToSet(members))
      /\ secs' = Regrouped(members, row, spans, released)
  BY DEF RowReshape, WriteRows
<1>2. current \in Seq(M) /\ ToSet(current) = M
  BY RowIsListed
<1> HIDE DEF current
<1>3. first \in Ids
  <2>1. s \in M /\ M \subseteq Ids
    OBVIOUS
  <2>2. current # <<>>
    BY <1>2, <2>1 DEF ToSet
  <2>3. first \in M
    BY <1>2, <2>2
  <2>. QED
    BY <2>1, <2>3
<1> HIDE DEF first
<1>4. members \in Seq(Ids) /\ Len(members) = Len(spans)
  BY <1>1, <1>3, SpansAreListed, NeighboursAreListed
<1>5. row \in Nat
  BY DEF SecsOK, Section
<1> HIDE DEF members, row
<1>6. \A m \in Ids : m \in ToSet(members) \/ m \in released => ~secs[m].locked
  BY <1>1 DEF NoneLocked
<1> HIDE DEF released
<1>7. Lawful(Regrouped(members, row, spans, released))
  BY <1>4, <1>5, <1>6, RegroupedIsLawful
<1>. QED
  BY <1>1, <1>7

LEMMA LockToggleIsLawful ==
    ASSUME SecsOK, NEW s \in Ids, LockToggle(s)
    PROVE  Lawful(secs')
<1>1. secs' = [secs EXCEPT ![s].locked = ~@]
  BY DEF LockToggle
<1>2. DOMAIN secs' = Ids
  BY <1>1 DEF Ids
<1>3. /\ secs[s] = [order |-> secs[s].order, row |-> secs[s].row, span |-> secs[s].span,
                    locked |-> secs[s].locked]
      /\ secs[s].order \in Nat /\ secs[s].row \in Nat /\ secs[s].span \in 1..GridUnits
      /\ secs[s].locked \in BOOLEAN
  BY SectionIs DEF SecsOK
<1>4. /\ secs'[s] = [secs[s] EXCEPT !.locked = ~secs[s].locked]
      /\ \A t \in Ids : t # s => secs'[t] = secs[t]
  BY <1>1 DEF Ids
<1>5. secs'[s] = [order |-> secs[s].order, row |-> secs[s].row, span |-> secs[s].span,
                  locked |-> ~secs[s].locked]
  BY <1>3, <1>4
<1>6. secs'[s] \in Section /\ secs'[s].order = secs[s].order /\ secs'[s].row = secs[s].row
      /\ secs'[s].span = secs[s].span
  BY <1>3, <1>5 DEF Section
<1>7. \A t \in Ids : secs'[t] \in Section
  BY <1>4, <1>6 DEF SecsOK
<1>. QED
  BY <1>2, <1>4, <1>6, <1>7, RerowedIsLawful

\* One section with another order.
LEMMA ReorderedSection ==
    ASSUME NEW x \in Section, NEW n \in Nat
    PROVE  LET y == [x EXCEPT !.order = n] IN
           y \in Section /\ y.order = n /\ y.row = x.row /\ y.span = x.span /\ y.locked = x.locked
<1>1. /\ x = [order |-> x.order, row |-> x.row, span |-> x.span, locked |-> x.locked]
      /\ x.row \in Nat /\ x.span \in 1..GridUnits /\ x.locked \in BOOLEAN
  BY SectionIs
<1>2. [x EXCEPT !.order = n] = [order |-> n, row |-> x.row, span |-> x.span, locked |-> x.locked]
  BY <1>1
<1>. QED
  BY <1>1, <1>2 DEF Section

\* Sections of which some get another order, a locked one only its own.
LEMMA ReorderedIsLawful ==
    ASSUME SecsOK, NEW ss, DOMAIN ss = Ids,
           \A s \in Ids : \E n \in Nat : /\ ss[s] = [secs[s] EXCEPT !.order = n]
                                         /\ secs[s].locked => n = secs[s].order
    PROVE  Lawful(ss)
<1>1. ASSUME NEW s \in Ids
      PROVE  /\ ss[s] \in Section /\ ss[s].row = secs[s].row /\ ss[s].span = secs[s].span
             /\ secs[s].locked => ss[s].order = secs[s].order
  <2>1. secs[s] \in Section
    BY DEF SecsOK
  <2>2. PICK n \in Nat : /\ ss[s] = [secs[s] EXCEPT !.order = n]
                         /\ secs[s].locked => n = secs[s].order
    OBVIOUS
  <2>. QED
    BY <2>1, <2>2, ReorderedSection
<1>. QED
  BY <1>1 DEF Lawful, SecsOK

LEMMA SameOrder ==
    ASSUME NEW x \in Section
    PROVE  x = [x EXCEPT !.order = x.order] /\ x.order \in Nat
<1>1. /\ x = [order |-> x.order, row |-> x.row, span |-> x.span, locked |-> x.locked]
      /\ x.order \in Nat
  BY SectionIs
<1>. QED
  BY <1>1

LEMMA ReorderIsLawful ==
    ASSUME SecsOK, NEW listed \in SUBSET Ids, NEW list \in SetToSeqs(listed), Reorder(list)
    PROVE  Lawful(secs')
<1> DEFINE at(s) == CHOOSE i \in DOMAIN list : list[i] = s
<1>1. /\ DOMAIN secs' = Ids
      /\ \A s \in Ids : secs'[s] = IF s \in ToSet(list) THEN [secs[s] EXCEPT !.order = at(s) - 1]
                                   ELSE secs[s]
      /\ Held(list)
  BY DEF Reorder, WriteRows
<1>2. DOMAIN list = 1..Cardinality(listed)
  BY DEF SetToSeqs
<1>3. IsFiniteSet(listed) /\ Cardinality(listed) \in Nat
  <2>1. \A t \in Ids : secs[t].order \in Nat
    BY DEF SecsOK, Section
  <2>2. IsFiniteSet(Ids)
    BY <2>1, IdsAreFinite DEF SecsOK, Ids, Sortable
  <2>. QED
    BY <2>2, FS_Subset, FS_CardinalityType
<1>4. ASSUME NEW s \in Ids
      PROVE  \E n \in Nat : /\ secs'[s] = [secs[s] EXCEPT !.order = n]
                            /\ secs[s].locked => n = secs[s].order
  <2>1. CASE s \in ToSet(list)
    <3>1. at(s) \in DOMAIN list /\ list[at(s)] = s
      BY <2>1 DEF ToSet
    <3>2. PICK n : n = at(s) - 1
      OBVIOUS
    <3>3. n \in Nat
      BY <1>2, <1>3, <3>1, <3>2
    <3>4. secs[s].locked => secs[s].order = at(s) - 1
      BY <1>1, <3>1 DEF Held
    <3>5. secs'[s] = [secs[s] EXCEPT !.order = n]
      BY <1>1, <2>1, <3>2
    <3>. QED
      BY <3>2, <3>3, <3>4, <3>5
  <2>2. CASE s \notin ToSet(list)
    BY <1>1, <2>2, SameOrder DEF SecsOK
  <2>. QED
    BY <2>1, <2>2
<1>. QED
  BY <1>1, <1>4, ReorderedIsLawful

LEMMA MoveIsLawful ==
    ASSUME SecsOK, NEW s \in Ids, NEW d \in {-1, 1}, Move(s, d)
    PROVE  Lawful(secs')
<1> DEFINE order == Ordered(secs)
           at == CHOOSE i \in DOMAIN order : order[i] = s
           other == order[at + d]
<1>1. /\ at + d \in DOMAIN order /\ ~secs[s].locked /\ ~secs[other].locked
      /\ secs' = [secs EXCEPT ![s].order = secs[other].order, ![other].order = secs[s].order]
  BY DEF Move, WriteRows
<1>2. \A t \in Ids : secs[t].order \in Nat
  BY DEF SecsOK, Section
<1>3. other \in Ids
  <2>1. order \in Seq(Ids)
    BY <1>2, IdsAreFinite, OrderedIsSeq DEF SecsOK, Ids
  <2> HIDE DEF order, at
  <2>. QED
    BY <1>1, <2>1
<1> HIDE DEF other
<1>4. PICK u : u = [secs EXCEPT ![s].order = secs[other].order]
  OBVIOUS
<1>5. secs' = [u EXCEPT ![other].order = secs[s].order]
  BY <1>1, <1>4
<1>6. /\ DOMAIN u = Ids /\ u[s] = [secs[s] EXCEPT !.order = secs[other].order]
      /\ \A t \in Ids : t # s => u[t] = secs[t]
  BY <1>4 DEF Ids
<1>7. /\ DOMAIN secs' = Ids /\ secs'[other] = [u[other] EXCEPT !.order = secs[s].order]
      /\ \A t \in Ids : t # other => secs'[t] = u[t]
  BY <1>3, <1>5, <1>6
<1>8. ASSUME NEW t \in Ids
      PROVE  \E n \in Nat : /\ secs'[t] = [secs[t] EXCEPT !.order = n]
                            /\ secs[t].locked => n = secs[t].order
  <2>1. secs[t] \in Section /\ secs[s].order \in Nat /\ secs[other].order \in Nat
    BY <1>2, <1>3 DEF SecsOK
  <2>2. CASE t # s /\ t # other
    BY <1>6, <1>7, <2>1, <2>2, SameOrder
  <2>3. CASE t = s /\ t # other
    BY <1>1, <1>6, <1>7, <2>1, <2>3
  <2>4. CASE t = other /\ t # s
    BY <1>1, <1>6, <1>7, <2>1, <2>4
  <2>5. CASE t = s /\ t = other
    <3>1. PICK x : x = secs[t]
      OBVIOUS
    <3>2. u[t] = [x EXCEPT !.order = x.order]
      BY <1>6, <2>5, <3>1
    <3>3. u[t] = x
      BY <2>1, <3>1, <3>2, SameOrder
    <3>. QED
      BY <1>1, <1>7, <2>1, <2>5, <3>1, <3>3
  <2>. QED
    BY <2>2, <2>3, <2>4, <2>5
<1>. QED
  BY <1>7, <1>8, ReorderedIsLawful

LEMMA ApplyPresetIsLawful ==
    ASSUME SecsOK, ApplyPreset
    PROVE  Lawful(secs')
<1>1. /\ \A s \in Ids : ~secs[s].locked
      /\ secs' = [s \in DOMAIN PresetRows |->
             [order |-> s - 1, row |-> PresetRows[s][1], span |-> PresetRows[s][2], locked |-> FALSE]]
  BY DEF ApplyPreset, Replaceable, WriteRows
<1>2. /\ DOMAIN PresetRows = 1..Len(PresetRows) /\ Len(PresetRows) \in Nat
      /\ Len(PresetRows) <= MaxSections
  BY PresetIsWhole
<1>3. \A s \in 1..Len(PresetRows) : PresetRows[s] \in Nat \X (1..GridUnits)
  BY PresetIsWhole, ElementOfSeq
<1>4. DOMAIN secs' = 1..Len(PresetRows)
  BY <1>1, <1>2
<1>5. ASSUME NEW s \in DOMAIN secs' PROVE secs'[s] \in Section
  <2>1. s \in 1..Len(PresetRows) /\ s - 1 \in Nat
    BY <1>2, <1>4
  <2>2. PresetRows[s][1] \in Nat /\ PresetRows[s][2] \in 1..GridUnits
    BY <1>3, <2>1
  <2>3. secs'[s] = [order |-> s - 1, row |-> PresetRows[s][1], span |-> PresetRows[s][2],
                    locked |-> FALSE]
    BY <1>1, <1>2, <2>1
  <2>. QED
    BY <2>1, <2>2, <2>3 DEF Section
<1>. QED
  BY <1>1, <1>2, <1>4, <1>5, PageIsBounded DEF Lawful

LEMMA EveryStepIsLawful ==
    ASSUME SecsOK, [PageNext]_pageVars
    PROVE  Lawful(secs')
<1>1. CASE UNCHANGED secs
  BY <1>1 DEF Lawful, SecsOK, Ids
<1>2. ASSUME NEW k \in 1..(Cardinality(Ids) + 1), SectionAdd(k) PROVE Lawful(secs')
  BY <1>2, SectionAddIsLawful
<1>3. ASSUME NEW s \in Ids, SectionRemove(s) PROVE Lawful(secs')
  <2>1. ~secs[s].locked /\ secs' = Restrict(secs, Ids \ {s})
    BY <1>3 DEF SectionRemove, Removable, WriteRows
  <2>. QED
    BY <2>1, RemovedIsLawful
<1>4. ASSUME NEW s \in Ids, RowFull(s) \/ LockToggle(s) PROVE Lawful(secs')
  BY <1>4, RowFullIsLawful, LockToggleIsLawful
<1>5. ASSUME NEW s \in Ids, Duplicate(s) PROVE Lawful(secs')
  BY <1>5, AddedIsLawful DEF Duplicate
<1>6. ASSUME NEW s \in Ids, NEW spans \in RowPresets, RowGroup(s, spans) \/ RowReshape(s, spans)
      PROVE  Lawful(secs')
  BY <1>6, RowGroupIsLawful, RowReshapeIsLawful
<1>7. ASSUME NEW s \in Ids, NEW d \in {-1, 1}, Move(s, d) PROVE Lawful(secs')
  BY <1>7, MoveIsLawful
<1>8. ASSUME NEW listed \in SUBSET Ids, NEW list \in SetToSeqs(listed), Reorder(list)
      PROVE  Lawful(secs')
  BY <1>8, ReorderIsLawful
<1>9. ASSUME ApplyPreset PROVE Lawful(secs')
  BY <1>9, ApplyPresetIsLawful
<1>10. ASSUME NEW spans, ContainerAdd(spans) \/ \E c \in DOMAIN conts : ContainerLayout(c, spans)
       PROVE  Lawful(secs')
  <2>1. UNCHANGED secs
    BY <1>10 DEF ContainerAdd, ContainerLayout
  <2>. QED
    BY <1>1, <2>1
<1>11. ASSUME NEW c \in DOMAIN conts, ContainerRemove(c) \/ \E d \in {-1, 1} : ContainerMove(c, d)
       PROVE  Lawful(secs')
  <2>1. UNCHANGED secs
    BY <1>11 DEF ContainerRemove, ContainerMove
  <2>. QED
    BY <1>1, <2>1
<1>12. ASSUME NEW c \in DOMAIN conts, NEW j \in DOMAIN conts[c], CellAdd(c, j) PROVE Lawful(secs')
  BY <1>12, AddedIsLawful DEF CellAdd
<1>13. ASSUME NEW c \in DOMAIN conts, NEW j \in DOMAIN conts[c], CellClear(c, j) PROVE Lawful(secs')
  <2>1. PICK s : s = conts[c][j].section
    OBVIOUS
  <2>2. ~secs[s].locked /\ secs' = Restrict(secs, Ids \ {s})
    BY <1>13, <2>1 DEF CellClear
  <2>. QED
    BY <2>2, RemovedIsLawful
<1>14. ASSUME SectionInContainer PROVE Lawful(secs')
  BY <1>14, AddedIsLawful DEF SectionInContainer
<1>15. CASE UNCHANGED pageVars
  BY <1>1, <1>15 DEF pageVars
<1>16. CASE PageNext
  BY <1>2, <1>3, <1>4, <1>5, <1>6, <1>7, <1>8, <1>9, <1>10, <1>11, <1>12, <1>13, <1>14, <1>16
     DEF PageNext
<1>. QED
  BY <1>15, <1>16

LEMMA SecsStart ==
    ASSUME PageInit
    PROVE  SecsOK
<1>1. secs = [s \in 1..Bootstrap |-> Standalone(s - 1)]
  BY DEF PageInit
<1>2. Ids = 1..Bootstrap /\ Bootstrap \in Nat /\ Bootstrap <= MaxSections /\ MaxSections \in Nat
  BY <1>1, PageIsBounded DEF Ids
<1>3. ASSUME NEW s \in 1..Bootstrap PROVE secs[s] \in Section
  <2>1. secs[s] = Standalone(s - 1) /\ s - 1 \in Nat
    BY <1>1, <1>2
  <2>. QED
    BY <2>1 DEF Standalone, Section, NoRow, GridUnits
<1>. QED
  BY <1>2, <1>3 DEF SecsOK

\* No operation of either layout deletes a locked section, takes it from its row
\* or changes its width, and none moves it unless one is added.
THEOREM LockIsHeld == PageSpec => LockedHolds
<1>1. ASSUME SecsOK, [PageNext]_pageVars PROVE SecsOK'
  BY <1>1, EveryStepIsLawful DEF Lawful, SecsOK, Ids
<1>2. ASSUME SecsOK, [PageNext]_pageVars
      PROVE  /\ [\A s \in Ids : secs[s].locked =>
                    /\ s \in DOMAIN secs'
                    /\ secs'[s].row = secs[s].row /\ secs'[s].span = secs[s].span]_pageVars
             /\ [DOMAIN secs' \subseteq Ids =>
                    \A s \in Ids : secs[s].locked => secs'[s].order = secs[s].order]_pageVars
  BY <1>2, EveryStepIsLawful DEF Lawful
<1>. QED
  BY <1>1, <1>2, SecsStart, PTL DEF PageSpec, LockedHolds, LockedStays, LockedKeepsOrder

-----------------------------------------------------------------------------
(* The runs of a page.  A fold over a sequence is defined over the subsets  *)
(* of its indices, the greatest index last.                                *)
Cuts(ss, seq, it) ==
    it = [x \in SUBSET DOMAIN seq |->
             IF x = {} THEN <<>> ELSE Joined(ss, it[x \ {Max(x)}], seq[Max(x)])]

LEMMA CutsUnfold ==
    ASSUME NEW ss
    PROVE  Runs(ss) = (CHOOSE it : Cuts(ss, Ordered(ss), it))[DOMAIN Ordered(ss)]
  BY DEF Runs, FoldLeft, MapThenFoldSet, Cuts

LEMMA CutsExist ==
    ASSUME NEW ss, NEW seq, NEW n \in Nat, DOMAIN seq = 1..n
    PROVE  \E it : Cuts(ss, seq, it)
  <1> DEFINE S == 1..n
             Low(k) == {x \in SUBSET S : Cardinality(x) <= k}
             Upto(k, it) == it = [x \in Low(k) |->
                 IF x = {} THEN <<>> ELSE Joined(ss, it[x \ {Max(x)}], seq[Max(x)])]
             G == {k \in Nat : \E it : Upto(k, it)}
  <1>0. IsFiniteSet(S) /\ Cardinality(S) \in Nat
    BY FS_Interval, FS_CardinalityType
  <1>1. \A x \in SUBSET S : IsFiniteSet(x) /\ Cardinality(x) \in Nat /\ Cardinality(x) <= Cardinality(S)
    BY <1>0, FS_Subset, FS_CardinalityType
  <1>2. ASSUME NEW x \in SUBSET S, x # {}
        PROVE  /\ x \ {Max(x)} \in SUBSET S
               /\ Cardinality(x \ {Max(x)}) = Cardinality(x) - 1
    <2>1. Max(x) \in x
      <3>1. IsFiniteSet(x) /\ x \subseteq Nat /\ x # {}
        BY <1>1, <1>2
      <3> QED
        BY <3>1, MaxIn
    <2> QED
      BY <1>1, <2>1, FS_RemoveElement
  <1> HIDE DEF S
  <1>3. 0 \in G
    <2> DEFINE it == [x \in Low(0) |-> <<>>]
    <2>1. \A x \in Low(0) : x = {}
      BY <1>1, FS_EmptySet
    <2>2. Upto(0, it)
      BY <2>1
    <2> QED
      BY <2>2
  <1>4. ASSUME NEW k \in Nat, k \in G PROVE k + 1 \in G
    <2>1. PICK it : Upto(k, it)
      BY <1>4
    <2> DEFINE next == [x \in Low(k + 1) |->
                  IF x = {} THEN <<>> ELSE Joined(ss, it[x \ {Max(x)}], seq[Max(x)])]
    <2>2. \A x \in Low(k) :
              it[x] = IF x = {} THEN <<>> ELSE Joined(ss, it[x \ {Max(x)}], seq[Max(x)])
      BY <2>1
    <2>3. \A x \in Low(k) : x \in Low(k + 1)
      BY <1>1
    <2>4. ASSUME NEW x \in Low(k + 1), x # {} PROVE x \ {Max(x)} \in Low(k)
      <3>1. x \in SUBSET S /\ Cardinality(x) <= k + 1 /\ Cardinality(x) \in Nat
        BY <1>1
      <3>2. x \ {Max(x)} \in SUBSET S /\ Cardinality(x \ {Max(x)}) = Cardinality(x) - 1
        BY <1>2, <2>4, <3>1
      <3> QED
        BY <3>1, <3>2
    <2>5. \A x \in Low(k) : next[x] = it[x]
      BY <2>2, <2>3
    <2>6. \A x \in Low(k + 1) : next[x] =
              IF x = {} THEN <<>> ELSE Joined(ss, next[x \ {Max(x)}], seq[Max(x)])
      BY <2>4, <2>5
    <2>7. next = [x \in Low(k + 1) |->
              IF x = {} THEN <<>> ELSE Joined(ss, next[x \ {Max(x)}], seq[Max(x)])]
      BY <2>6
    <2> HIDE DEF next, Low
    <2>8. Upto(k + 1, next)
      BY <2>7
    <2>9. \E i : Upto(k + 1, i)
      BY <2>8
    <2> HIDE DEF Upto
    <2> QED
      BY <2>9
  <1>5. Nat \subseteq G
    <2> HIDE DEF G
    <2> QED
      BY <1>3, <1>4, EveryNumber
  <1>6. Low(Cardinality(S)) = SUBSET S
    BY <1>1
  <1>7. PICK it : Upto(Cardinality(S), it)
    BY <1>0, <1>5
  <1>8. Cuts(ss, seq, it)
    <2> HIDE DEF Low
    <2> QED
      BY <1>6, <1>7 DEF Cuts, S
  <1> QED
    BY <1>8

\* The runs are where the sections, joined one after the other, end.
LEMMA RunsGrow ==
    ASSUME NEW ss, NEW n \in Nat, DOMAIN Ordered(ss) = 1..n
    PROVE  \E r : /\ r[0] = <<>>
                  /\ \A k \in Nat : k < n => r[k + 1] = Joined(ss, r[k], Ordered(ss)[k + 1])
                  /\ r[n] = Runs(ss)
  <1> DEFINE seq == Ordered(ss)
             it == CHOOSE i : Cuts(ss, seq, i)
             r  == [k \in Nat |-> it[1..k]]
  <1>1. Cuts(ss, seq, it)
    BY CutsExist
  <1>2. Runs(ss) = it[1..n]
    BY CutsUnfold
  <1> HIDE DEF it, seq
  <1>3. \A x \in SUBSET (1..n) :
            it[x] = IF x = {} THEN <<>> ELSE Joined(ss, it[x \ {Max(x)}], seq[Max(x)])
    BY <1>1 DEF Cuts, seq
  <1>4. r[0] = <<>>
    <2>1. 1..0 = {} /\ 1..0 \in SUBSET (1..n)
      OBVIOUS
    <2> QED
      BY <1>3, <2>1
  <1>5. ASSUME NEW k \in Nat, k < n PROVE r[k + 1] = Joined(ss, r[k], seq[k + 1])
    <2>1. /\ 1..(k + 1) \in SUBSET (1..n) /\ k + 1 \in 1..(k + 1) /\ 1..(k + 1) # {}
          /\ 1..(k + 1) \subseteq Nat
      <3>1. \A x \in 1..(k + 1) : x \in 1..n /\ x \in Nat
        BY <1>5
      <3>2. k + 1 \in 1..(k + 1)
        OBVIOUS
      <3> QED
        BY <3>1, <3>2
    <2>5. (1..(k + 1)) \ {k + 1} = 1..k
      OBVIOUS
    <2>2. IsFiniteSet(1..(k + 1))
      BY FS_Interval
    <2>3. Max(1..(k + 1)) \in 1..(k + 1) /\ \A y \in 1..(k + 1) : Max(1..(k + 1)) >= y
      BY <2>1, <2>2, MaxIn
    <2>4. Max(1..(k + 1)) = k + 1
      BY <2>1, <2>3
    <2> QED
      BY <1>3, <2>1, <2>4, <2>5
  <1>6. r[n] = Runs(ss)
    BY <1>2
  <1> HIDE DEF r
  <1> QED
    BY <1>4, <1>5, <1>6 DEF seq

\* The first i sections of a page cut into runs, of which the k-th begins at
\* place st[k]: the members of a run are in one row, a section of its own is
\* alone, and a run ends where the next one is not in its row.
Cut(ss, i, runs, st) ==
    LET order == Ordered(ss) IN
    /\ runs \in Seq(Seq(DOMAIN ss))
    /\ st \in [1..Len(runs) -> Nat]
    /\ i = 0 => runs = <<>>
    /\ i > 0 => runs # <<>> /\ st[1] = 1
    /\ \A k \in 1..Len(runs) :
          /\ Len(runs[k]) >= 1
          /\ st[k] >= 1 /\ st[k] + Len(runs[k]) <= i + 1
          /\ k = Len(runs) => st[k] + Len(runs[k]) = i + 1
          /\ k > 1 => /\ st[k] = st[k - 1] + Len(runs[k - 1])
                      /\ \/ ss[order[st[k]]].row = NoRow
                         \/ ss[order[st[k] - 1]].row # ss[order[st[k]]].row
          /\ \A j \in 1..Len(runs[k]) :
                /\ runs[k][j] = order[st[k] + j - 1]
                /\ ss[runs[k][j]].row = ss[runs[k][1]].row
          /\ Len(runs[k]) > 1 => ss[runs[k][1]].row # NoRow
    /\ \A p \in 1..i : \E k \in 1..Len(runs) : st[k] <= p /\ p < st[k] + Len(runs[k])
    /\ \A k, m \in 1..Len(runs) : k < m => st[k] + Len(runs[k]) <= st[m]

\* The last of the runs replaced.
LEMMA LastReplaced ==
    ASSUME NEW S, NEW runs \in Seq(S), runs # <<>>, NEW x \in S
    PROVE  LET new == Append(Front(runs), x) IN
           /\ new \in Seq(S) /\ Len(new) = Len(runs) /\ new[Len(runs)] = x
           /\ \A k \in 1..Len(runs) : k < Len(runs) => new[k] = runs[k]
<1> DEFINE m == Len(runs)
           f == Front(runs)
           new == Append(f, x)
<1>1. m \in Nat /\ m >= 1 /\ \A k \in 1..m : runs[k] \in S
  BY EmptySeq, LenProperties, ElementOfSeq
<1>2. f \in Seq(S) /\ Len(f) = m - 1 /\ \A k \in 1..(m - 1) : f[k] = runs[k]
  <2>1. \A k \in 1..(m - 1) : runs[k] \in S
    BY <1>1
  <2>2. f = SubSeq(runs, 1, m - 1)
    BY DEF Front
  <2> HIDE DEF f, m
  <2>3. /\ f \in Seq(S) /\ Len(f) = (IF 1 <= m - 1 THEN m - 1 - 1 + 1 ELSE 0)
        /\ \A k \in 1..(m - 1 - 1 + 1) : f[k] = runs[1 + k - 1]
    BY <1>1, <2>1, <2>2, SubSeqProperties
  <2>. QED
    BY <1>1, <2>3
<1> HIDE DEF f
<1>3. new \in Seq(S) /\ Len(new) = m /\ new[m] = x /\ \A k \in 1..m : k < m => new[k] = f[k]
  BY <1>1, <1>2
<1>. QED
  BY <1>1, <1>2, <1>3 DEF f

LEMMA CutGoesOn ==
    ASSUME NEW ss, Sortable(ss), NEW i \in Nat, i < Cardinality(DOMAIN ss),
           NEW runs, NEW st, Cut(ss, i, runs, st)
    PROVE  \E st2 : Cut(ss, i + 1, Joined(ss, runs, Ordered(ss)[i + 1]), st2)
<1> DEFINE S == DOMAIN ss
           n == Cardinality(S)
           order == Ordered(ss)
           s == order[i + 1]
           m == Len(runs)
           new == Joined(ss, runs, s)
<1>1. n \in Nat /\ order \in [1..n -> S] /\ s \in S
  BY OrderedLists
<1>2. /\ runs \in Seq(Seq(S)) /\ m \in Nat /\ DOMAIN runs = 1..m
      /\ \A k \in 1..m : runs[k] \in Seq(S)
  <2>1. runs \in Seq(Seq(S))
    BY DEF Cut
  <2>. QED
    BY <2>1, LenProperties, ElementOfSeq
<1>3. \A k \in 1..m : Len(runs[k]) \in Nat /\ Len(runs[k]) >= 1 /\ st[k] \in Nat
  <2>1. \A k \in 1..m : Len(runs[k]) \in Nat
    BY <1>2
  <2>2. \A k \in 1..m : Len(runs[k]) >= 1 /\ st[k] \in Nat
    BY DEF Cut
  <2>. QED
    BY <2>1, <2>2
<1>6. \A k \in 1..m : st[k] + Len(runs[k]) <= i + 1 /\ (k = m => st[k] + Len(runs[k]) = i + 1)
  BY DEF Cut
<1>7. \A k, q \in 1..m : k < q => st[k] + Len(runs[k]) <= st[q]
  BY DEF Cut
<1>8. \A p \in 1..i : \E k \in 1..m : st[k] <= p /\ p < st[k] + Len(runs[k])
  BY DEF Cut
<1>4. CASE runs # <<>> /\ Continues(ss, Last(runs), s)
  <2> DEFINE last == runs[m]
             l == Len(last)
             grown == Append(last, s)
  <2>1. m >= 1 /\ l \in Nat /\ l >= 1 /\ last \in Seq(S) /\ st[m] \in Nat /\ st[m] + l = i + 1
    <3>1. m >= 1
      BY <1>2, <1>4
    <3>2. m \in 1..m
      BY <1>2, <3>1
    <3>. QED
      BY <1>2, <1>3, <1>6, <3>1, <3>2
  <2>2. new = Append(Front(runs), grown)
    BY <1>4 DEF Joined, Last
  <2>3. /\ grown \in Seq(S) /\ Len(grown) = l + 1 /\ grown[l + 1] = s
        /\ \A j \in 1..l : grown[j] = last[j]
    BY <1>1, <2>1
  <2>4. ss[last[l]].row = ss[s].row /\ ss[s].row # NoRow
    BY <1>4 DEF Continues, Last
  <2>5. last[l] = order[i] /\ ss[last[l]].row = ss[last[1]].row
    <3>1. l \in 1..l /\ m \in 1..m /\ st[m] + l - 1 = i
      BY <2>1
    <3>. QED
      BY <3>1 DEF Cut
  <2> HIDE DEF new, grown
  <2>6. /\ new \in Seq(Seq(S)) /\ Len(new) = m /\ new[m] = grown
        /\ \A k \in 1..m : k < m => new[k] = runs[k]
    <3> HIDE DEF s
    <3>1. runs \in Seq(Seq(S)) /\ runs # <<>> /\ grown \in Seq(S)
      BY <1>2, <1>4, <2>3
    <3>. QED
      BY <2>2, <3>1, LastReplaced
  <2>7. \A k \in 1..m : Len(new[k]) = IF k = m THEN Len(runs[k]) + 1 ELSE Len(runs[k])
    <3>1. Len(new[m]) = Len(runs[m]) + 1
      BY <2>3, <2>6
    <3>2. \A k \in 1..m : k # m => k < m
      <4> HIDE DEF m
      <4>. QED
        BY <1>2
    <3>3. \A k \in 1..m : k # m => Len(new[k]) = Len(runs[k])
      BY <2>6, <3>2
    <3>. QED
      BY <3>1, <3>3
  <2>8. ASSUME NEW k \in 1..m
        PROVE  /\ Len(new[k]) >= 1
               /\ st[k] >= 1 /\ st[k] + Len(new[k]) <= i + 2
               /\ k = m => st[k] + Len(new[k]) = i + 2
               /\ k > 1 => /\ st[k] = st[k - 1] + Len(new[k - 1])
                           /\ \/ ss[order[st[k]]].row = NoRow
                              \/ ss[order[st[k] - 1]].row # ss[order[st[k]]].row
    <3>1. /\ st[k] >= 1 /\ st[k] + Len(runs[k]) <= i + 1
          /\ k > 1 => /\ st[k] = st[k - 1] + Len(runs[k - 1])
                      /\ \/ ss[order[st[k]]].row = NoRow
                         \/ ss[order[st[k] - 1]].row # ss[order[st[k]]].row
      BY DEF Cut
    <3>2. k > 1 => k - 1 \in 1..m /\ k - 1 # m
      BY <2>1
    <3>3. k > 1 => Len(new[k - 1]) = Len(runs[k - 1])
      BY <2>7, <3>2
    <3>4. Len(new[k]) \in Nat /\ Len(new[k]) <= Len(runs[k]) + 1 /\ Len(new[k]) >= 1
      BY <1>3, <2>7
    <3>5. k = m => st[k] + Len(new[k]) = i + 2
      BY <2>1, <2>7
    <3>6. st[k] + Len(new[k]) <= i + 2
      BY <1>3, <3>1, <3>4
    <3>. QED
      BY <3>1, <3>3, <3>4, <3>5, <3>6
  <2>9. ASSUME NEW k \in 1..m
        PROVE  /\ \A j \in 1..Len(new[k]) :
                     /\ new[k][j] = order[st[k] + j - 1]
                     /\ ss[new[k][j]].row = ss[new[k][1]].row
               /\ Len(new[k]) > 1 => ss[new[k][1]].row # NoRow
    <3>1. /\ \A j \in 1..Len(runs[k]) : /\ runs[k][j] = order[st[k] + j - 1]
                                        /\ ss[runs[k][j]].row = ss[runs[k][1]].row
          /\ Len(runs[k]) > 1 => ss[runs[k][1]].row # NoRow
      BY DEF Cut
    <3>2. CASE k < m
      <4>1. new[k] = runs[k]
        BY <2>6, <3>2
      <4>. QED
        BY <3>1, <4>1
    <3>3. CASE k = m
      <4>1. new[k] = grown /\ runs[k] = last /\ Len(new[k]) = l + 1 /\ grown[1] = last[1]
        BY <2>1, <2>3, <2>6, <3>3
      <4>2. ASSUME NEW j \in 1..(l + 1)
            PROVE  grown[j] = order[st[k] + j - 1] /\ ss[grown[j]].row = ss[last[1]].row
        <5>1. CASE j <= l
          <6>1. j \in 1..l
            BY <2>1, <5>1
          <6>2. grown[j] = last[j]
            BY <2>3, <6>1
          <6>. QED
            BY <3>1, <3>3, <6>1, <6>2
        <5>2. CASE j = l + 1
          <6>1. st[k] + j - 1 = i + 1
            BY <2>1, <3>3, <5>2
          <6>. QED
            BY <2>3, <2>4, <2>5, <5>2, <6>1
        <5>. QED
          BY <2>1, <5>1, <5>2
      <4>. QED
        BY <2>4, <2>5, <4>1, <4>2
    <3>. QED
      BY <2>1, <3>2, <3>3
  <2>10. ASSUME NEW p \in 1..(i + 1)
         PROVE  \E k \in 1..m : st[k] <= p /\ p < st[k] + Len(new[k])
    <3>1. CASE p <= i
      <4>1. PICK k \in 1..m : st[k] <= p /\ p < st[k] + Len(runs[k])
        BY <1>8, <3>1
      <4>. QED
        BY <1>3, <2>7, <4>1
    <3>2. CASE p = i + 1
      <4>1. m \in 1..m /\ Len(new[m]) = l + 1
        BY <2>1, <2>7
      <4>. QED
        BY <2>1, <3>2, <4>1
    <3>. QED
      BY <3>1, <3>2
  <2>11. \A k, q \in 1..m : k < q => st[k] + Len(new[k]) <= st[q]
    <3>1. ASSUME NEW k \in 1..m, NEW q \in 1..m, k < q
          PROVE  st[k] + Len(new[k]) <= st[q]
      <4>1. k # m /\ Len(new[k]) = Len(runs[k])
        <5>1. k # m
          <6> HIDE DEF m
          <6>. QED
            BY <1>2, <3>1
        <5>. QED
          BY <2>7, <5>1
      <4>. QED
        BY <1>7, <3>1, <4>1
    <3>. QED
      BY <3>1
  <2>12. st \in [1..m -> Nat] /\ st[1] = 1 /\ new # <<>>
    <3>1. i > 0
      BY <2>1 DEF Cut
    <3>2. new # <<>>
      BY <2>1, <2>6
    <3>. QED
      BY <3>1, <3>2 DEF Cut
  <2>13. i + 1 > 0 /\ i + 1 # 0 /\ (i + 1) + 1 = i + 2
    OBVIOUS
  <2>14. Cut(ss, i + 1, new, st)
    <3> HIDE DEF order, s, m
    <3>. QED
      BY <2>6, <2>8, <2>9, <2>10, <2>11, <2>12, <2>13 DEF Cut, order, m
  <2>. QED
    BY <2>14 DEF new
<1>5. CASE ~(runs # <<>> /\ Continues(ss, Last(runs), s))
  <2> DEFINE st2 == [k \in 1..(m + 1) |-> IF k <= m THEN st[k] ELSE i + 1]
  <2>1. new = Append(runs, <<s>>)
    BY <1>5 DEF Joined
  <2> HIDE DEF new, s
  <2>2. <<s>> \in Seq(S) /\ Len(<<s>>) = 1 /\ <<s>>[1] = s
    BY <1>1
  <2>3. /\ new \in Seq(Seq(S)) /\ Len(new) = m + 1 /\ new[m + 1] = <<s>>
        /\ \A k \in 1..m : new[k] = runs[k]
    BY <1>2, <2>1, <2>2
  <2>4. st2 \in [1..(m + 1) -> Nat] /\ st2[m + 1] = i + 1 /\ \A k \in 1..m : st2[k] = st[k]
    BY <1>2, <1>3
  <2> HIDE DEF st2
  <2>5. m = 0 => i = 0
    BY <1>2 DEF Cut
  <2>6. m > 0 => /\ st[m] + Len(runs[m]) = i + 1 /\ runs[m][Len(runs[m])] = order[i]
                 /\ st[1] = 1
    <3>1. SUFFICES ASSUME m > 0
                   PROVE  /\ st[m] + Len(runs[m]) = i + 1 /\ runs[m][Len(runs[m])] = order[i]
                          /\ st[1] = 1
      OBVIOUS
    <3>2. m \in 1..m
      BY <1>2, <3>1
    <3>3. st[m] + Len(runs[m]) = i + 1 /\ Len(runs[m]) \in 1..Len(runs[m]) /\ i > 0
      BY <1>3, <3>2 DEF Cut
    <3>4. runs[m][Len(runs[m])] = order[st[m] + Len(runs[m]) - 1] /\ st[m] + Len(runs[m]) - 1 = i
      <4>1. runs[m][Len(runs[m])] = order[st[m] + Len(runs[m]) - 1]
        BY <3>2, <3>3 DEF Cut
      <4>2. PICK z : z = Len(runs[m])
        OBVIOUS
      <4>3. z \in Nat /\ st[m] \in Nat /\ st[m] + z = i + 1
        BY <1>3, <3>2, <3>3, <4>2
      <4>4. st[m] + z - 1 = i
        BY <4>3
      <4>. QED
        BY <4>1, <4>2, <4>4
    <3>. QED
      BY <3>3, <3>4 DEF Cut
  <2>7. m > 0 => ss[s].row = NoRow \/ ss[order[i]].row # ss[s].row
    <3>1. m > 0 => runs # <<>> /\ Last(Last(runs)) = order[i]
      BY <1>2, <2>6 DEF Last
    <3>. QED
      BY <1>5, <3>1 DEF Continues
  <2>8. ASSUME NEW k \in 1..(m + 1)
        PROVE  /\ Len(new[k]) >= 1
               /\ st2[k] >= 1 /\ st2[k] + Len(new[k]) <= i + 2
               /\ k = m + 1 => st2[k] + Len(new[k]) = i + 2
               /\ k > 1 => /\ st2[k] = st2[k - 1] + Len(new[k - 1])
                           /\ \/ ss[order[st2[k]]].row = NoRow
                              \/ ss[order[st2[k] - 1]].row # ss[order[st2[k]]].row
    <3>1. CASE k <= m
      <4>1. k \in 1..m /\ new[k] = runs[k] /\ st2[k] = st[k]
        BY <2>3, <2>4, <3>1
      <4>2. k > 1 => k - 1 \in 1..m /\ new[k - 1] = runs[k - 1] /\ st2[k - 1] = st[k - 1]
        <5>1. k > 1 => k - 1 \in 1..m
          BY <4>1
        <5>. QED
          BY <2>3, <2>4, <5>1
      <4>3. /\ st[k] >= 1 /\ st[k] + Len(runs[k]) <= i + 1
            /\ k > 1 => /\ st[k] = st[k - 1] + Len(runs[k - 1])
                        /\ \/ ss[order[st[k]]].row = NoRow
                           \/ ss[order[st[k] - 1]].row # ss[order[st[k]]].row
        BY <4>1 DEF Cut
      <4>4. k # m + 1 /\ st[k] + Len(runs[k]) <= i + 2
        BY <1>3, <3>1, <4>1, <4>3
      <4>. QED
        BY <1>3, <4>1, <4>2, <4>3, <4>4
    <3>2. CASE k = m + 1
      <4>1. Len(new[k]) = 1 /\ st2[k] = i + 1
        BY <2>2, <2>3, <2>4, <3>2
      <4>2. k > 1 => /\ k - 1 = m /\ m \in 1..m /\ m > 0
        BY <3>2
      <4>3. k > 1 => st2[k] = st2[k - 1] + Len(new[k - 1])
        BY <2>3, <2>4, <2>6, <4>1, <4>2
      <4>4. order[st2[k]] = s /\ (k > 1 => st2[k] - 1 = i)
        BY <4>1 DEF s
      <4>. QED
        BY <2>7, <4>1, <4>2, <4>3, <4>4
    <3>. QED
      BY <1>2, <3>1, <3>2
  <2>9. ASSUME NEW k \in 1..(m + 1)
        PROVE  /\ \A j \in 1..Len(new[k]) :
                     /\ new[k][j] = order[st2[k] + j - 1]
                     /\ ss[new[k][j]].row = ss[new[k][1]].row
               /\ Len(new[k]) > 1 => ss[new[k][1]].row # NoRow
    <3>1. CASE k <= m
      <4>1. k \in 1..m /\ new[k] = runs[k] /\ st2[k] = st[k]
        BY <2>3, <2>4, <3>1
      <4>. QED
        BY <4>1 DEF Cut
    <3>2. CASE k = m + 1
      <4>1. Len(new[k]) = 1 /\ new[k][1] = s /\ st2[k] = i + 1 /\ st2[k] + 1 - 1 = i + 1
        <5>1. st2[k] = i + 1
          BY <2>4, <3>2
        <5>. QED
          <6>1. new[k] = <<s>>
            BY <2>3, <3>2
          <6>. QED
            BY <2>2, <5>1, <6>1
      <4>2. \A j \in 1..Len(new[k]) : j = 1
        BY <4>1
      <4>. QED
        BY <4>1, <4>2 DEF s
    <3>. QED
      BY <1>2, <3>1, <3>2
  <2>10. ASSUME NEW p \in 1..(i + 1)
         PROVE  \E k \in 1..(m + 1) : st2[k] <= p /\ p < st2[k] + Len(new[k])
    <3>1. CASE p <= i
      <4>1. PICK k \in 1..m : st[k] <= p /\ p < st[k] + Len(runs[k])
        BY <1>8, <3>1
      <4>. QED
        BY <1>2, <2>3, <2>4, <4>1
    <3>2. CASE p = i + 1
      <4>1. m + 1 \in 1..(m + 1) /\ Len(new[m + 1]) = 1 /\ st2[m + 1] = i + 1
        BY <1>2, <2>2, <2>3, <2>4
      <4>. QED
        BY <3>2, <4>1
    <3>. QED
      BY <3>1, <3>2
  <2>11. ASSUME NEW k \in 1..(m + 1), NEW q \in 1..(m + 1), k < q
         PROVE  st2[k] + Len(new[k]) <= st2[q]
    <3>1. k \in 1..m /\ new[k] = runs[k] /\ st2[k] = st[k]
      BY <1>2, <2>3, <2>4, <2>11
    <3>2. CASE q <= m
      BY SMTT(30), <2>3, <2>4, <2>11, <3>1, <3>2 DEF Cut
    <3>3. CASE q = m + 1
      <4>1. st[k] + Len(runs[k]) <= i + 1
        BY <3>1 DEF Cut
      <4>. QED
        BY <2>4, <3>1, <3>3, <4>1
    <3>. QED
      BY <1>2, <3>2, <3>3
  <2>12. st2[1] = 1 /\ new # <<>>
    <3>1. new # <<>>
      BY <1>2, <2>3
    <3>2. st2[1] = 1
      BY <1>2, <2>4, <2>5, <2>6
    <3>. QED
      BY <3>1, <3>2
  <2>13. i + 1 > 0 /\ i + 1 # 0 /\ (i + 1) + 1 = i + 2
    OBVIOUS
  <2>14. Cut(ss, i + 1, new, st2)
    <3> HIDE DEF order, m
    <3>. QED
      BY <2>3, <2>4, <2>8, <2>9, <2>10, <2>11, <2>12, <2>13 DEF Cut, order, m
  <2>. QED
    BY <2>14 DEF new, s
<1>. QED
  BY <1>4, <1>5

\* All sections of a page are cut into its runs.
LEMMA RunsAreCut ==
    ASSUME NEW ss, Sortable(ss)
    PROVE  \E st : Cut(ss, Cardinality(DOMAIN ss), Runs(ss), st)
<1> DEFINE n == Cardinality(DOMAIN ss)
<1>1. n \in Nat /\ DOMAIN Ordered(ss) = 1..n
  BY OrderedLists
<1> HIDE DEF n
<1>2. PICK r : /\ r[0] = <<>>
               /\ \A k \in Nat : k < n => r[k + 1] = Joined(ss, r[k], Ordered(ss)[k + 1])
               /\ r[n] = Runs(ss)
  BY <1>1, RunsGrow
<1> DEFINE G == {k \in Nat : k <= n => \E st : Cut(ss, k, r[k], st)}
<1>3. 0 \in G
  <2>1. <<>> \in Seq(Seq(DOMAIN ss)) /\ Len(<<>>) = 0 /\ 1..0 = {}
    OBVIOUS
  <2> DEFINE st == [k \in 1..0 |-> 1]
  <2>2. st \in [1..0 -> Nat]
    BY <2>1
  <2> HIDE DEF st
  <2>3. Cut(ss, 0, <<>>, st)
    BY <2>1, <2>2 DEF Cut
  <2>. QED
    BY <1>2, <2>3
<1>4. ASSUME NEW k \in Nat, k \in G PROVE k + 1 \in G
  <2>1. SUFFICES ASSUME k + 1 <= n PROVE \E st : Cut(ss, k + 1, r[k + 1], st)
    OBVIOUS
  <2>2. k < n /\ k <= n
    BY <1>1, <2>1
  <2>3. PICK st : Cut(ss, k, r[k], st)
    BY <1>4, <2>2
  <2>4. r[k + 1] = Joined(ss, r[k], Ordered(ss)[k + 1])
    BY <1>2, <2>2
  <2>. QED
    BY <2>2, <2>3, <2>4, CutGoesOn DEF n
<1>5. Nat \subseteq G
  <2> HIDE DEF G
  <2>. QED
    BY <1>3, <1>4, EveryNumber
<1>. QED
  BY <1>1, <1>2, <1>5 DEF n

\* The members of a row, the width of some sections, and whether no other
\* section stands between them.
Members(ss, row)  == {t \in DOMAIN ss : ss[t].row = row}
Width(ss, M)      == SumFunctionOnSet([t \in DOMAIN ss |-> ss[t].span], M)
Together(ss, M)   ==
    \A a, b \in M, c \in DOMAIN ss : Before(ss, a, c) /\ Before(ss, c, b) => c \in M

\* Every section is in one run, at one place; a run is of one row, without
\* gaps, and is the whole of a row that stands together.
LEMMA RunsOfRows ==
    ASSUME NEW ss, Sortable(ss)
    PROVE  LET runs == Runs(ss) IN
           /\ runs \in Seq(Seq(DOMAIN ss))
           /\ \A s \in DOMAIN ss : \E k \in 1..Len(runs) : \E j \in 1..Len(runs[k]) : runs[k][j] = s
           /\ \A k, q \in 1..Len(runs) : \A i \in 1..Len(runs[k]), j \in 1..Len(runs[q]) :
                  runs[k][i] = runs[q][j] => k = q /\ i = j
           /\ \A k \in 1..Len(runs) :
                 /\ Len(runs[k]) \in Nat /\ Len(runs[k]) >= 1
                 /\ Len(runs[k]) > 1 => ss[runs[k][1]].row # NoRow
                 /\ \A j \in 1..Len(runs[k]) : /\ runs[k][j] \in DOMAIN ss
                                               /\ ss[runs[k][j]].row = ss[runs[k][1]].row
                 /\ Together(ss, ToSet(runs[k]))
                 /\ LET M == Members(ss, ss[runs[k][1]].row) IN
                    ss[runs[k][1]].row # NoRow /\ Together(ss, M) => ToSet(runs[k]) = M
<1> DEFINE S == DOMAIN ss
           n == Cardinality(S)
           order == Ordered(ss)
           runs == Runs(ss)
           m == Len(runs)
<1>1. /\ n \in Nat /\ order \in [1..n -> S] /\ DOMAIN order = 1..n
      /\ \A s \in S : \E i \in 1..n : order[i] = s
      /\ \A i, j \in 1..n : i < j => Before(ss, order[i], order[j])
      /\ \A i, j \in 1..n : order[i] = order[j] => i = j
  BY OrderedLists
<1>2. \A s, t \in S : ~(Before(ss, s, t) /\ Before(ss, t, s)) /\ ~Before(ss, s, s)
  BY DEF Sortable, Before
<1>3. PICK st : Cut(ss, n, runs, st)
  BY RunsAreCut
<1>4. runs \in Seq(Seq(S)) /\ m \in Nat
  <2>1. runs \in Seq(Seq(S))
    BY <1>3 DEF Cut
  <2>. QED
    BY <2>1
<1>5. \A k \in 1..m : runs[k] \in Seq(S) /\ Len(runs[k]) \in Nat /\ DOMAIN runs[k] = 1..Len(runs[k])
  BY <1>4, ElementOfSeq, LenProperties
<1>6. \A k \in 1..m : /\ Len(runs[k]) >= 1
                      /\ st[k] \in Nat /\ st[k] >= 1 /\ st[k] + Len(runs[k]) <= n + 1
                      /\ Len(runs[k]) > 1 => ss[runs[k][1]].row # NoRow
                      /\ k = m => st[k] + Len(runs[k]) = n + 1
                      /\ k > 1 => /\ st[k] = st[k - 1] + Len(runs[k - 1])
                                  /\ \/ ss[order[st[k]]].row = NoRow
                                     \/ ss[order[st[k] - 1]].row # ss[order[st[k]]].row
  BY <1>3 DEF Cut
<1>7. \A k \in 1..m : \A j \in 1..Len(runs[k]) : /\ runs[k][j] = order[st[k] + j - 1]
                                                 /\ ss[runs[k][j]].row = ss[runs[k][1]].row
  BY <1>3 DEF Cut
<1>8. \A p \in 1..n : \E k \in 1..m : st[k] <= p /\ p < st[k] + Len(runs[k])
  BY <1>3 DEF Cut
<1>9. \A k, q \in 1..m : k < q => st[k] + Len(runs[k]) <= st[q]
  BY <1>3 DEF Cut
<1> HIDE DEF n, order, runs, m, S
<1>10. \A k \in 1..m : \A j \in 1..Len(runs[k]) : st[k] + j - 1 \in 1..n /\ runs[k][j] \in S
  <2>1. ASSUME NEW k \in 1..m, NEW j \in 1..Len(runs[k]) PROVE st[k] + j - 1 \in 1..n
    BY SMTT(30), <1>1, <1>5, <1>6
  <2>. QED
    BY <1>5, <2>1, ElementOfSeq
<1>11. ASSUME NEW p \in 1..n, NEW k \in 1..m, st[k] <= p, p < st[k] + Len(runs[k])
       PROVE  p - st[k] + 1 \in 1..Len(runs[k]) /\ runs[k][p - st[k] + 1] = order[p]
  <2>1. p - st[k] + 1 \in 1..Len(runs[k]) /\ st[k] + (p - st[k] + 1) - 1 = p
    BY <1>1, <1>5, <1>6, <1>11
  <2>. QED
    BY <1>7, <2>1
<1>12. ASSUME NEW i \in 1..n, NEW j \in 1..n, Before(ss, order[i], order[j]) PROVE i < j
  <2>1. i # j /\ ~(j < i)
    BY <1>1, <1>2, <1>12
  <2>. QED
    BY <1>1, <2>1
<1>13. ASSUME NEW s \in S PROVE \E k \in 1..m : \E j \in 1..Len(runs[k]) : runs[k][j] = s
  <2>1. PICK p \in 1..n : order[p] = s
    BY <1>1
  <2>2. PICK k \in 1..m : st[k] <= p /\ p < st[k] + Len(runs[k])
    BY <1>8
  <2>3. p - st[k] + 1 \in 1..Len(runs[k]) /\ runs[k][p - st[k] + 1] = order[p]
    BY <1>11, <2>2
  <2>. QED
    BY <2>1, <2>3
<1>14. ASSUME NEW k \in 1..m, NEW q \in 1..m, NEW i \in 1..Len(runs[k]), NEW j \in 1..Len(runs[q]),
              runs[k][i] = runs[q][j]
       PROVE  k = q /\ i = j
  <2>1. st[k] + i - 1 = st[q] + j - 1
    BY <1>1, <1>7, <1>10, <1>14
  <2>2. ~(k < q)
    BY SMTT(30), <1>5, <1>6, <1>9, <2>1
  <2>3. ~(q < k)
    BY <1>5, <1>6, <1>9, <2>1
  <2>4. k = q
    BY <1>4, <2>2, <2>3
  <2>. QED
    BY <1>5, <1>6, <2>1, <2>4
<1>15. ASSUME NEW k \in 1..m, NEW a \in ToSet(runs[k]), NEW b \in ToSet(runs[k]), NEW c \in S,
              Before(ss, a, c), Before(ss, c, b)
       PROVE  c \in ToSet(runs[k])
  <2>1. PICK i \in 1..Len(runs[k]), j \in 1..Len(runs[k]) : runs[k][i] = a /\ runs[k][j] = b
    BY <1>5 DEF ToSet
  <2>2. PICK p \in 1..n : order[p] = c
    BY <1>1
  <2>3. order[st[k] + i - 1] = a /\ order[st[k] + j - 1] = b
    BY <1>7, <2>1
  <2>4. st[k] + i - 1 < p /\ p < st[k] + j - 1
    BY <1>10, <1>12, <1>15, <2>2, <2>3
  <2>5. st[k] <= p /\ p < st[k] + Len(runs[k])
    <3>1. PICK l : l = Len(runs[k])
      OBVIOUS
    <3>2. l \in Nat /\ st[k] \in Nat /\ i \in 1..l /\ j \in 1..l
      BY <1>5, <1>6, <3>1
    <3>3. st[k] <= p /\ p < st[k] + l
      BY <1>1, <2>4, <3>2
    <3>. QED
      BY <3>1, <3>3
  <2>6. runs[k][p - st[k] + 1] = c /\ p - st[k] + 1 \in 1..Len(runs[k])
    BY <1>11, <2>2, <2>5
  <2>. QED
    BY <1>5, <2>6 DEF ToSet
<1>16. ASSUME NEW k \in 1..m, ss[runs[k][1]].row # NoRow,
              Together(ss, Members(ss, ss[runs[k][1]].row))
       PROVE  ToSet(runs[k]) = Members(ss, ss[runs[k][1]].row)
  <2> DEFINE r == ss[runs[k][1]].row
             M == Members(ss, r)
  <2>1. ToSet(runs[k]) \subseteq M
    BY <1>5, <1>7, <1>10 DEF ToSet, Members, S
  <2>2. ASSUME NEW a \in M PROVE a \in ToSet(runs[k])
    <3>1. a \in S /\ ss[a].row = r
      BY DEF Members, S
    <3>2. PICK q \in 1..m : \E j \in 1..Len(runs[q]) : runs[q][j] = a
      BY <1>13, <3>1
    <3>3. PICK j \in 1..Len(runs[q]) : runs[q][j] = a
      BY <3>2
    <3>4. PICK p : p = st[q] + j - 1
      OBVIOUS
    <3>5. p \in 1..n /\ order[p] = a /\ st[q] <= p /\ p < st[q] + Len(runs[q])
      BY SMTT(30), <1>5, <1>6, <1>7, <1>10, <3>3, <3>4
    <3>6. /\ 1 \in 1..Len(runs[k]) /\ st[k] \in 1..n /\ runs[k][1] = order[st[k]]
          /\ runs[k][1] \in M
      <4>1. 1 \in 1..Len(runs[k])
        BY <1>5, <1>6
      <4>2. runs[k][1] = order[st[k] + 1 - 1] /\ st[k] + 1 - 1 \in 1..n /\ runs[k][1] \in S
        BY <1>7, <1>10, <4>1
      <4>3. st[k] + 1 - 1 = st[k]
        BY <1>6
      <4>. QED
        BY <4>1, <4>2, <4>3 DEF Members, S
    <3>7. ~(q < k)
      <4>1. SUFFICES ASSUME q < k PROVE FALSE
        OBVIOUS
      <4>2. k > 1 /\ p < st[k]
        <5>1. st[q] + Len(runs[q]) <= st[k]
          BY <1>9, <4>1
        <5>2. Len(runs[q]) \in Nat /\ st[q] \in Nat /\ st[k] \in Nat
          BY <1>5, <1>6
        <5>3. p < st[k]
          BY <3>5, <5>1, <5>2
        <5>. QED
          BY <1>4, <4>1, <5>3
      <4>3. st[k] - 1 \in 1..n /\ order[st[k] - 1] \in S /\ ss[order[st[k] - 1]].row # r
        <5>1. st[k] - 1 \in 1..n
          BY <1>1, <1>6, <3>5, <3>6, <4>2
        <5>2. ss[order[st[k] - 1]].row # ss[order[st[k]]].row
          BY <1>6, <1>16, <3>6, <4>2
        <5>. QED
          BY <1>1, <3>6, <5>1, <5>2
      <4>4. p < st[k] - 1
        BY <1>1, <3>1, <3>5, <3>6, <4>2, <4>3
      <4>5. Before(ss, a, order[st[k] - 1]) /\ Before(ss, order[st[k] - 1], runs[k][1])
        BY <1>1, <3>5, <3>6, <4>3, <4>4
      <4>6. order[st[k] - 1] \in M
        BY <1>16, <3>6, <4>3, <4>5 DEF Together, S
      <4>. QED
        BY <4>3, <4>6 DEF Members
    <3>8. ~(k < q)
      <4>1. SUFFICES ASSUME k < q PROVE FALSE
        OBVIOUS
      <4> DEFINE e == st[k] + Len(runs[k])
      <4>2. k + 1 \in 1..m /\ k + 1 > 1 /\ (k + 1) - 1 = k
        BY <1>4, <4>1
      <4>3. st[k + 1] = e
        BY <1>6, <4>2
      <4>4. \/ ss[order[e]].row = NoRow
            \/ ss[order[e - 1]].row # ss[order[e]].row
        BY <1>6, <4>2, <4>3
      <4>5. e - 1 \in 1..n /\ order[e - 1] = runs[k][Len(runs[k])] /\ Len(runs[k]) \in 1..Len(runs[k])
        <5>1. Len(runs[k]) \in 1..Len(runs[k])
          BY <1>5, <1>6
        <5>2. runs[k][Len(runs[k])] = order[st[k] + Len(runs[k]) - 1]
          BY <1>7, <5>1
        <5>3. st[k] + Len(runs[k]) - 1 \in 1..n
          BY <1>10, <5>1
        <5>4. e - 1 = st[k] + Len(runs[k]) - 1
          <6>1. st[k] \in Nat /\ Len(runs[k]) \in Nat
            BY <1>5, <1>6
          <6>2. \A x, y \in Nat : (x + y) - 1 = x + y - 1
            OBVIOUS
          <6>. QED
            BY <6>1, <6>2
        <5> HIDE DEF e
        <5>. QED
          BY <5>1, <5>2, <5>3, <5>4
      <4>6. ss[order[e - 1]].row = r
        BY <1>7, <4>5
      <4>7. ss[order[e]].row # r
        BY <1>16, <4>4, <4>6
      <4>8. e <= st[q] /\ e <= p /\ e > st[k] /\ e \in Nat
        BY <1>5, <1>6, <1>9, <3>5, <4>1
      <4>9. e \in 1..n /\ e # p
        BY <1>1, <3>1, <3>5, <4>5, <4>7, <4>8
      <4> HIDE DEF e
      <4>10. order[e] \in S /\ Before(ss, runs[k][1], order[e]) /\ Before(ss, order[e], a)
        BY <1>1, <3>5, <3>6, <4>8, <4>9
      <4>11. order[e] \in M
        BY <1>16, <3>6, <4>10 DEF Together, S
      <4>. QED
        BY <4>7, <4>11 DEF Members
    <3>9. q = k
      BY <1>4, <3>7, <3>8
    <3>. QED
      BY <1>5, <3>3, <3>9 DEF ToSet
  <2>. QED
    BY <2>1, <2>2
<1>. QED
  <2>1. \A k \in 1..m : Together(ss, ToSet(runs[k]))
    BY <1>15 DEF Together, S
  <2>. QED
    BY <1>4, <1>5, <1>6, <1>7, <1>10, <1>13, <1>14, <1>16, <2>1 DEF runs, m, S

\* A list without repetition has as many elements as places, and what its
\* elements weigh is the sum over its places.
LEMMA SumOfList ==
    ASSUME NEW f, NEW n \in Nat, NEW list, DOMAIN list = 1..n,
           \A i, j \in 1..n : list[i] = list[j] => i = j,
           \A i \in 1..n : f[list[i]] \in Int
    PROVE  /\ IsFiniteSet(ToSet(list)) /\ Cardinality(ToSet(list)) = n
           /\ SumFunction([i \in 1..n |-> f[list[i]]]) = SumFunctionOnSet(f, ToSet(list))
<1> DEFINE D == 1..n
           T == ToSet(list)
           g == [i \in D |-> list[i]]
           h == [i \in D |-> f[list[i]]]
           Img(s) == {list[i] : i \in s}
<1>1. IsFiniteSet(D) /\ Cardinality(D) = n
  BY FS_Interval
<1>2. g \in Bijection(D, T)
  BY DEF ToSet, Bijection, Injection, Surjection, IsInjective
<1>3. IsFiniteSet(T) /\ Cardinality(T) = n
  <2>1. ExistsBijection(D, T)
    BY <1>2 DEF ExistsBijection
  <2>. QED
    BY <1>1, <2>1, FS_Bijection
<1>4. T = Img(D)
  BY DEF ToSet
<1>5. SumFunction(h) = SumFunctionOnSet(h, D)
  BY DEF SumFunction
<1>6. \A i \in D : h[i] = f[list[i]] /\ h[i] \in Int
  OBVIOUS
<1>7. \A i, j \in D : list[i] = list[j] => i = j
  OBVIOUS
<1> HIDE DEF D, T, h
<1> DEFINE bad == {s \in SUBSET D : SumFunctionOnSet(h, s) # SumFunctionOnSet(f, Img(s))}
<1>8. bad = {}
  <2> SUFFICES ASSUME bad # {} PROVE FALSE
    OBVIOUS
  <2>1. PICK s \in bad : \A t \in bad : t \subseteq s => t = s
    <3> DEFINE some == bad
    <3>1. some \subseteq SUBSET D /\ some # {}
      OBVIOUS
    <3> HIDE DEF some
    <3>2. \E s \in some : \A t \in some : t \subseteq s => t = s
      BY <1>1, <3>1, MinimalSet
    <3>. QED
      BY <3>2 DEF some
  <2>2. s \in SUBSET D /\ IsFiniteSet(s) /\ SumFunctionOnSet(h, s) # SumFunctionOnSet(f, Img(s))
    BY <1>1, FS_Subset
  <2>3. CASE s = {}
    <3>1. Img(s) = {}
      BY <2>3
    <3>2. SumFunctionOnSet(h, {}) = 0 /\ SumFunctionOnSet(f, {}) = 0
      BY FS_EmptySet, SumStep
    <3>. QED
      BY <2>2, <2>3, <3>1, <3>2
  <2>4. CASE s # {}
    <3>1. PICK i \in s : TRUE
      BY <2>4
    <3> DEFINE r == s \ {i}
    <3>2. r \in SUBSET D /\ r \subseteq s /\ r # s /\ i \in D
      BY <2>2
    <3>3. SumFunctionOnSet(h, r) = SumFunctionOnSet(f, Img(r))
      BY <2>1, <3>2
    <3>4. SumFunctionOnSet(h, s) = h[i] + SumFunctionOnSet(h, r)
      BY <1>6, <2>2, SumMember
    <3>5. Img(r) = Img(s) \ {list[i]} /\ list[i] \in Img(s)
      BY <1>7, <2>2, <3>2
    <3>6. IsFiniteSet(Img(s))
      <4>1. Img(s) \in SUBSET T
        BY <1>4, <2>2
      <4>. QED
        BY <1>3, <4>1, FS_Subset
    <3>7. \A x \in Img(s) : f[x] \in Int
      BY <1>6, <2>2
    <3> DEFINE I == Img(s)
    <3>8. SumFunctionOnSet(f, I) = f[list[i]] + SumFunctionOnSet(f, I \ {list[i]})
      <4> HIDE DEF Img
      <4>1. list[i] \in I
        BY <3>5
      <4> HIDE DEF I
      <4>. QED
        BY <3>6, <3>7, <4>1, SumMember DEF I
    <3>. QED
      BY <1>6, <2>2, <3>2, <3>3, <3>4, <3>5, <3>8
  <2>. QED
    BY <2>3, <2>4
<1>9. SumFunctionOnSet(h, D) = SumFunctionOnSet(f, T)
  <2>1. D \in SUBSET D
    OBVIOUS
  <2>. QED
    BY <1>4, <1>8, <2>1
<1>. QED
  BY <1>3, <1>5, <1>9 DEF D, T, h

\* What weighs something adds to the sum.
LEMMA SumGrows ==
    ASSUME NEW f, NEW T, IsFiniteSet(T), NEW S \in SUBSET T, \A x \in T : f[x] \in Int /\ f[x] >= 1,
           SumFunctionOnSet(f, S) = SumFunctionOnSet(f, T)
    PROVE  S = T
<1> DEFINE low(s) == SumFunctionOnSet(f, s) >= SumFunctionOnSet(f, S)
           bad == {s \in SUBSET T : S \subseteq s /\ ~low(s)}
<1>1. ASSUME NEW s \in SUBSET T PROVE IsFiniteSet(s) /\ SumFunctionOnSet(f, s) \in Int
  <2>1. IsFiniteSet(s) /\ \A x \in s : f[x] \in Int
    BY FS_Subset
  <2>. QED
    BY <2>1, SumType
<1>2. bad = {}
  <2> SUFFICES ASSUME bad # {} PROVE FALSE
    OBVIOUS
  <2>1. PICK s \in bad : \A t \in bad : t \subseteq s => t = s
    <3> DEFINE some == bad
    <3>1. some \subseteq SUBSET T /\ some # {}
      OBVIOUS
    <3> HIDE DEF some
    <3>2. \E s \in some : \A t \in some : t \subseteq s => t = s
      BY <3>1, MinimalSet
    <3>. QED
      BY <3>2 DEF some
  <2>2. s \in SUBSET T /\ S \subseteq s /\ ~low(s)
    OBVIOUS
  <2>3. s # S
    BY <1>1, <2>2
  <2>4. PICK x \in s : x \notin S
    BY <2>2, <2>3
  <2> DEFINE r == s \ {x}
  <2>5. r \in SUBSET T /\ S \subseteq r /\ r \subseteq s /\ r # s
    BY <2>2, <2>4
  <2>6. low(r)
    BY <2>1, <2>5
  <2>7. SumFunctionOnSet(f, s) = f[x] + SumFunctionOnSet(f, r)
    <3>1. IsFiniteSet(s) /\ \A y \in s : f[y] \in Int
      BY <1>1, <2>2
    <3>. QED
      BY <3>1, SumMember
  <2>8. f[x] \in Int /\ f[x] >= 1
    BY <2>2, <2>4
  <2>. QED
    BY <1>1, <2>2, <2>5, <2>6, <2>7, <2>8
<1>3. SUFFICES ASSUME S # T PROVE FALSE
  OBVIOUS
<1>4. PICK x \in T : x \notin S
  BY <1>3
<1> DEFINE r == T \ {x}
<1>5. r \in SUBSET T /\ S \subseteq r
  BY <1>4
<1>6. low(r)
  BY <1>2, <1>5
<1>7. SumFunctionOnSet(f, T) = f[x] + SumFunctionOnSet(f, r)
  BY SumMember
<1>. QED
  BY <1>1, <1>4, <1>5, <1>6, <1>7

\* The sections a page may have.
Sections(ss) == DOMAIN ss \subseteq 1..MaxSections /\ \A s \in DOMAIN ss : ss[s] \in Section

\* Each row has the whole width; and besides, it is two to four neighbours.
RowTotals(ss) ==
    \A s \in DOMAIN ss : ss[s].row # NoRow => Width(ss, Members(ss, ss[s].row)) = GridUnits

WholeRow(ss, M) ==
    Cardinality(M) \in 2..MaxCells /\ Width(ss, M) = GridUnits /\ Together(ss, M)

WholeRows(ss) ==
    \A s \in DOMAIN ss : ss[s].row # NoRow => WholeRow(ss, Members(ss, ss[s].row))

LEMMA SectionsSort ==
    ASSUME NEW ss, Sections(ss)
    PROVE  /\ Sortable(ss) /\ IsFiniteSet(DOMAIN ss)
           /\ \A s \in DOMAIN ss : /\ ss[s].order \in Nat /\ ss[s].row \in Nat
                                   /\ ss[s].span \in 1..GridUnits /\ ss[s].locked \in BOOLEAN
<1>1. \A s \in DOMAIN ss : /\ ss[s].order \in Nat /\ ss[s].row \in Nat
                           /\ ss[s].span \in 1..GridUnits /\ ss[s].locked \in BOOLEAN
  BY DEF Sections, Section
<1>. QED
  BY <1>1, IdsAreFinite DEF Sections, Sortable

\* What a run weighs.
LEMMA WidthOfList ==
    ASSUME NEW ss, Sections(ss), NEW n \in Nat, NEW list, DOMAIN list = 1..n,
           \A i, j \in 1..n : list[i] = list[j] => i = j,
           \A i \in 1..n : list[i] \in DOMAIN ss
    PROVE  /\ SumFunction([i \in 1..n |-> ss[list[i]].span]) = Width(ss, ToSet(list))
           /\ Cardinality(ToSet(list)) = n /\ IsFiniteSet(ToSet(list))
<1> DEFINE f == [t \in DOMAIN ss |-> ss[t].span]
<1>1. \A i \in 1..n : f[list[i]] = ss[list[i]].span
  OBVIOUS
<1>2. \A i \in 1..n : f[list[i]] \in Int
  BY <1>1, SectionsSort DEF GridUnits
<1>3. [i \in 1..n |-> f[list[i]]] = [i \in 1..n |-> ss[list[i]].span]
  BY <1>1
<1> HIDE DEF f
<1>4. /\ IsFiniteSet(ToSet(list)) /\ Cardinality(ToSet(list)) = n
      /\ SumFunction([i \in 1..n |-> f[list[i]]]) = SumFunctionOnSet(f, ToSet(list))
  BY <1>2, SumOfList
<1>. QED
  BY <1>3, <1>4 DEF Width, f

\* What is known of one run.
OneRun(ss, run) ==
    /\ run \in Seq(DOMAIN ss) /\ Len(run) \in Nat /\ DOMAIN run = 1..Len(run) /\ Len(run) >= 1
    /\ Len(run) > 1 => ss[run[1]].row # NoRow
    /\ \A j \in 1..Len(run) : run[j] \in DOMAIN ss /\ ss[run[j]].row = ss[run[1]].row
    /\ \A i, j \in 1..Len(run) : run[i] = run[j] => i = j
    /\ Together(ss, ToSet(run))
    /\ ss[run[1]].row # NoRow /\ Together(ss, Members(ss, ss[run[1]].row)) =>
           ToSet(run) = Members(ss, ss[run[1]].row)

LEMMA EachRun ==
    ASSUME NEW ss, Sortable(ss)
    PROVE  /\ Runs(ss) \in Seq(Seq(DOMAIN ss)) /\ Len(Runs(ss)) \in Nat
           /\ DOMAIN Runs(ss) = 1..Len(Runs(ss))
           /\ \A k \in 1..Len(Runs(ss)) : OneRun(ss, Runs(ss)[k])
           /\ \A s \in DOMAIN ss :
                  \E k \in 1..Len(Runs(ss)) : \E j \in 1..Len(Runs(ss)[k]) : Runs(ss)[k][j] = s
           /\ \A k, q \in 1..Len(Runs(ss)) :
                  \A i \in 1..Len(Runs(ss)[k]), j \in 1..Len(Runs(ss)[q]) :
                      Runs(ss)[k][i] = Runs(ss)[q][j] => k = q /\ i = j
<1> DEFINE runs == Runs(ss)
<1>1. /\ runs \in Seq(Seq(DOMAIN ss))
      /\ \A s \in DOMAIN ss : \E k \in 1..Len(runs) : \E j \in 1..Len(runs[k]) : runs[k][j] = s
      /\ \A k, q \in 1..Len(runs) : \A i \in 1..Len(runs[k]), j \in 1..Len(runs[q]) :
             runs[k][i] = runs[q][j] => k = q /\ i = j
      /\ \A k \in 1..Len(runs) :
            /\ Len(runs[k]) \in Nat /\ Len(runs[k]) >= 1
            /\ Len(runs[k]) > 1 => ss[runs[k][1]].row # NoRow
            /\ \A j \in 1..Len(runs[k]) : /\ runs[k][j] \in DOMAIN ss
                                          /\ ss[runs[k][j]].row = ss[runs[k][1]].row
            /\ Together(ss, ToSet(runs[k]))
            /\ ss[runs[k][1]].row # NoRow /\ Together(ss, Members(ss, ss[runs[k][1]].row)) =>
                   ToSet(runs[k]) = Members(ss, ss[runs[k][1]].row)
  BY RunsOfRows
<1> HIDE DEF runs
<1>2. Len(runs) \in Nat /\ DOMAIN runs = 1..Len(runs)
  BY <1>1
<1>3. ASSUME NEW k \in 1..Len(runs) PROVE OneRun(ss, runs[k])
  <2>1. runs[k] \in Seq(DOMAIN ss)
    BY <1>1, <1>2, ElementOfSeq
  <2>2. DOMAIN runs[k] = 1..Len(runs[k])
    BY <2>1
  <2>3. \A i, j \in 1..Len(runs[k]) : runs[k][i] = runs[k][j] => i = j
    BY <1>1
  <2>4. /\ Len(runs[k]) \in Nat /\ Len(runs[k]) >= 1
        /\ Len(runs[k]) > 1 => ss[runs[k][1]].row # NoRow
        /\ Together(ss, ToSet(runs[k]))
    BY <1>1
  <2>5. \A j \in 1..Len(runs[k]) : /\ runs[k][j] \in DOMAIN ss
                                    /\ ss[runs[k][j]].row = ss[runs[k][1]].row
    BY <1>1
  <2>6. ss[runs[k][1]].row # NoRow /\ Together(ss, Members(ss, ss[runs[k][1]].row)) =>
            ToSet(runs[k]) = Members(ss, ss[runs[k][1]].row)
    BY <1>1
  <2>. QED
    BY <2>1, <2>2, <2>3, <2>4, <2>5, <2>6 DEF OneRun
<1>. QED
  BY <1>1, <1>2, <1>3 DEF runs

\* validate_page_row_layout, said of the runs by number.
LEMMA ValidRuns ==
    ASSUME NEW ss, Sections(ss)
    PROVE  RowsValid(ss) <=>
               \A k \in 1..Len(Runs(ss)) : ss[Runs(ss)[k][1]].row # NoRow =>
                   /\ Len(Runs(ss)[k]) \in 2..MaxCells
                   /\ Cardinality(ToSet(Runs(ss)[k])) = Len(Runs(ss)[k])
                   /\ Width(ss, ToSet(Runs(ss)[k])) = GridUnits
<1> DEFINE runs == Runs(ss)
           m == Len(runs)
<1>1. Sortable(ss)
  BY SectionsSort
<1>3. DOMAIN runs = 1..m /\ m \in Nat
  BY <1>1, EachRun
<1>4. ASSUME NEW k \in 1..m
      PROVE  /\ Head(runs[k]) = runs[k][1]
             /\ SumFunction([i \in DOMAIN runs[k] |-> ss[runs[k][i]].span]) = Width(ss, ToSet(runs[k]))
             /\ Cardinality(ToSet(runs[k])) = Len(runs[k])
  <2> DEFINE list == runs[k]
             n == Len(list)
  <2>0. OneRun(ss, list)
    BY <1>1, EachRun
  <2> HIDE DEF list, n, m, runs
  <2>1. /\ list \in Seq(DOMAIN ss) /\ DOMAIN list = 1..n /\ n \in Nat /\ n >= 1
        /\ \A i, j \in 1..n : list[i] = list[j] => i = j
        /\ \A i \in 1..n : list[i] \in DOMAIN ss
    BY <2>0 DEF OneRun, n
  <2>4. /\ SumFunction([i \in 1..n |-> ss[list[i]].span]) = Width(ss, ToSet(list))
        /\ Cardinality(ToSet(list)) = n
    BY <2>1, WidthOfList
  <2>5. Head(list) = list[1]
    BY <2>1 DEF n
  <2>. QED
    BY <2>1, <2>4, <2>5 DEF list, n
<1>5. ToSet(runs) = {runs[k] : k \in 1..m}
  BY <1>3 DEF ToSet
<1> HIDE DEF runs, m
<1>6. RowsValid(ss) <=>
          \A k \in 1..m : ss[Head(runs[k])].row # NoRow =>
              /\ Len(runs[k]) \in 2..MaxCells
              /\ SumFunction([i \in DOMAIN runs[k] |-> ss[runs[k][i]].span]) = GridUnits
  BY <1>5 DEF RowsValid, runs
<1>. QED
  BY <1>4, <1>6 DEF runs, m

\* Where each row is whole, it is a run, and validate_page_row_layout agrees.
LEMMA WholeIsValid ==
    ASSUME NEW ss, Sections(ss), WholeRows(ss)
    PROVE  RowsValid(ss)
<1> DEFINE runs == Runs(ss)
<1>1. Sortable(ss)
  BY SectionsSort
<1>2. ASSUME NEW k \in 1..Len(runs), ss[runs[k][1]].row # NoRow
      PROVE  /\ Len(runs[k]) \in 2..MaxCells
             /\ Cardinality(ToSet(runs[k])) = Len(runs[k])
             /\ Width(ss, ToSet(runs[k])) = GridUnits
  <2> DEFINE list == runs[k]
             n == Len(list)
             M == Members(ss, ss[list[1]].row)
  <2>1. /\ n \in Nat /\ n >= 1 /\ \A i \in 1..n : list[i] \in DOMAIN ss
        /\ \A i, j \in 1..n : list[i] = list[j] => i = j
        /\ Together(ss, M) => ToSet(list) = M
        /\ DOMAIN list = 1..n
    <3>1. OneRun(ss, list)
      BY <1>1, EachRun
    <3> HIDE DEF runs
    <3>. QED
      BY <1>2, <3>1 DEF OneRun
  <2> HIDE DEF list, runs
  <2>3. list[1] \in DOMAIN ss
    BY <2>1
  <2>4. WholeRow(ss, M)
    BY <1>2, <2>3 DEF WholeRows, list, runs
  <2>5. ToSet(list) = M
    BY <2>1, <2>4 DEF WholeRow
  <2> HIDE DEF M, n
  <2>6. Cardinality(ToSet(list)) = n
    BY <2>1, WidthOfList
  <2>. QED
    BY <2>4, <2>5, <2>6 DEF WholeRow, n, list
<1>. QED
  BY <1>2, ValidRuns

\* And where it agrees, and no row is wider than a run of it, each is whole.
LEMMA ValidIsWhole ==
    ASSUME NEW ss, Sections(ss), RowsValid(ss), RowTotals(ss)
    PROVE  WholeRows(ss)
<1> DEFINE runs == Runs(ss)
<1>1. Sortable(ss) /\ IsFiniteSet(DOMAIN ss)
  BY SectionsSort
<1>2. SUFFICES ASSUME NEW s \in DOMAIN ss, ss[s].row # NoRow
               PROVE  WholeRow(ss, Members(ss, ss[s].row))
  BY DEF WholeRows
<1>3. PICK k \in 1..Len(runs) : \E j \in 1..Len(runs[k]) : runs[k][j] = s
  BY <1>1, EachRun
<1> DEFINE list == runs[k]
           n == Len(list)
           M == Members(ss, ss[s].row)
           f == [t \in DOMAIN ss |-> ss[t].span]
<1>4. /\ n \in Nat /\ n >= 1 /\ DOMAIN list = 1..n /\ Together(ss, ToSet(list))
      /\ \A j \in 1..n : list[j] \in DOMAIN ss /\ ss[list[j]].row = ss[list[1]].row
  <2>1. OneRun(ss, list)
    BY <1>1, EachRun
  <2> HIDE DEF runs
  <2>. QED
    BY <2>1 DEF OneRun
<1>6. ss[list[1]].row = ss[s].row
  BY <1>3, <1>4
<1>7. n \in 2..MaxCells /\ Cardinality(ToSet(list)) = n /\ Width(ss, ToSet(list)) = GridUnits
  BY <1>2, <1>6, ValidRuns
<1> HIDE DEF list, n, runs
<1>8. ToSet(list) \in SUBSET M /\ M \in SUBSET (DOMAIN ss)
  BY <1>4, <1>6 DEF ToSet, Members
<1>9. IsFiniteSet(M)
  BY <1>1, <1>8, FS_Subset
<1>10. Width(ss, M) = GridUnits
  BY <1>2 DEF RowTotals
<1>11. \A x \in M : f[x] \in Int /\ f[x] >= 1
  <2>1. \A x \in DOMAIN ss : f[x] = ss[x].span /\ ss[x].span \in 1..GridUnits
    BY SectionsSort
  <2>. QED
    BY <1>8, <2>1 DEF GridUnits
<1>12. SumFunctionOnSet(f, ToSet(list)) = SumFunctionOnSet(f, M)
  BY <1>7, <1>10 DEF Width
<1> HIDE DEF M, f
<1>13. ToSet(list) = M
  BY <1>8, <1>9, <1>11, <1>12, SumGrows
<1>. QED
  BY <1>4, <1>7, <1>10, <1>13 DEF WholeRow, M

\* The rows of a page are rows of another one, with the same members.
RowsFrom(ss, new) ==
    \A t \in DOMAIN new : new[t].row # NoRow =>
        /\ t \in DOMAIN ss /\ ss[t].row = new[t].row /\ ss[t].span = new[t].span
        /\ \A u \in Members(ss, ss[t].row) : u \in DOMAIN new /\ new[u].row = ss[t].row

LEMMA RowsAreKept ==
    ASSUME NEW ss, Sections(ss), NEW new, RowsFrom(ss, new), NEW t \in DOMAIN new, new[t].row # NoRow
    PROVE  /\ Members(new, new[t].row) = Members(ss, ss[t].row)
           /\ Width(new, Members(new, new[t].row)) = Width(ss, Members(ss, ss[t].row))
<1> DEFINE M == Members(ss, ss[t].row)
           f == [u \in DOMAIN ss |-> ss[u].span]
           g == [u \in DOMAIN new |-> new[u].span]
<1>1. t \in DOMAIN ss /\ ss[t].row = new[t].row
  BY DEF RowsFrom
<1>2. Members(new, new[t].row) = M
  BY <1>1 DEF RowsFrom, Members
<1>3. M \in SUBSET (DOMAIN ss) /\ IsFiniteSet(DOMAIN ss)
  BY SectionsSort DEF Members
<1>4. IsFiniteSet(M)
  BY <1>3, FS_Subset
<1>5. ASSUME NEW u \in M PROVE g[u] = f[u]
  <2>1. u \in DOMAIN ss /\ u \in DOMAIN new /\ new[u].row = ss[t].row
    BY <1>1 DEF RowsFrom, Members
  <2>2. ss[u].span = new[u].span
    BY <1>1, <2>1 DEF RowsFrom
  <2>. QED
    BY <2>1, <2>2
<1> HIDE DEF M, f, g
<1>6. SumFunctionOnSet(g, M) = SumFunctionOnSet(f, M)
  BY <1>4, <1>5, SumSame
<1>. QED
  BY <1>2, <1>6 DEF Width, M, f, g

LEMMA TotalsAreKept ==
    ASSUME NEW ss, Sections(ss), RowTotals(ss), NEW new, RowsFrom(ss, new)
    PROVE  RowTotals(new)
<1>1. SUFFICES ASSUME NEW t \in DOMAIN new, new[t].row # NoRow
               PROVE  Width(new, Members(new, new[t].row)) = GridUnits
  BY DEF RowTotals
<1>2. t \in DOMAIN ss /\ ss[t].row = new[t].row
  BY <1>1 DEF RowsFrom
<1>3. Width(ss, Members(ss, ss[t].row)) = GridUnits
  BY <1>1, <1>2 DEF RowTotals
<1>. QED
  BY <1>1, <1>3, RowsAreKept

\* Sections that come last do not part a row.
LEMMA RowsStayWhole ==
    ASSUME NEW ss, Sections(ss), WholeRows(ss), NEW new, Sections(new), RowsFrom(ss, new),
           \A c \in DOMAIN new : c \in DOMAIN ss => new[c].order = ss[c].order,
           \A c \in DOMAIN new : c \notin DOMAIN ss => \A t \in DOMAIN ss : ss[t].order < new[c].order
    PROVE  WholeRows(new)
<1>1. SUFFICES ASSUME NEW t \in DOMAIN new, new[t].row # NoRow
               PROVE  WholeRow(new, Members(new, new[t].row))
  BY DEF WholeRows
<1> DEFINE M == Members(ss, ss[t].row)
<1>2. /\ t \in DOMAIN ss /\ ss[t].row = new[t].row
      /\ \A u \in M : u \in DOMAIN new /\ new[u].row = ss[t].row
  BY <1>1 DEF RowsFrom
<1>3. Members(new, new[t].row) = M /\ Width(new, M) = Width(ss, M)
  BY <1>1, RowsAreKept
<1>4. WholeRow(ss, M)
  BY <1>1, <1>2 DEF WholeRows
<1>5. M \subseteq DOMAIN ss
  BY DEF Members
<1> HIDE DEF M
<1>6. ASSUME NEW a \in M, NEW b \in M, NEW c \in DOMAIN new, Before(new, a, c), Before(new, c, b)
      PROVE  c \in M
  <2>1. /\ a \in DOMAIN ss /\ a \in DOMAIN new /\ new[a].order = ss[a].order
        /\ b \in DOMAIN ss /\ b \in DOMAIN new /\ new[b].order = ss[b].order
    BY <1>2, <1>5
  <2>2. CASE c \in DOMAIN ss
    <3>1. Before(ss, a, c) /\ Before(ss, c, b)
      BY <1>6, <2>1, <2>2 DEF Before
    <3>. QED
      BY <1>4, <2>2, <3>1 DEF WholeRow, Together
  <2>3. CASE c \notin DOMAIN ss
    <3>1. ss[b].order < new[c].order
      BY <2>1, <2>3
    <3>2. ss[b].order \in Nat /\ new[c].order \in Nat
      BY <2>1, SectionsSort
    <3>. QED
      BY <1>6, <2>1, <3>1, <3>2 DEF Before
  <2>. QED
    BY <2>2, <2>3
<1>7. Together(new, M)
  BY <1>6 DEF Together
<1>. QED
  BY <1>3, <1>4, <1>7 DEF WholeRow

LEMMA WholeHasTotals == ASSUME NEW ss, WholeRows(ss) PROVE RowTotals(ss)
  BY DEF WholeRows, WholeRow, RowTotals

LEMMA SecsAreSections == SecsOK <=> Sections(secs)
  BY DEF SecsOK, Sections, Ids

LEMMA LawfulIsSections == ASSUME NEW ss, Lawful(ss) PROVE Sections(ss)
  BY DEF Lawful, Sections

\* What sections become that keep their row and span, or are new and of their own.
LEMMA SameRowsFrom ==
    ASSUME NEW new, Ids \subseteq DOMAIN new,
           \A t \in Ids : new[t].row = secs[t].row /\ new[t].span = secs[t].span,
           \A t \in DOMAIN new : t \notin Ids => new[t].row = NoRow
    PROVE  RowsFrom(secs, new)
  BY DEF RowsFrom, Members, Ids

LEMMA AddedRowsAreWhole ==
    ASSUME SecsOK, WholeRows(secs), MayAppend
    PROVE  WholeRows(With(Fresh, Standalone(NextOrder)))
<1>1. Fresh \notin Ids
  BY FreshIsNew
<1> DEFINE ss == With(Fresh, Standalone(NextOrder))
<1>2. /\ DOMAIN ss = Ids \cup {Fresh} /\ ss[Fresh] = Standalone(NextOrder)
      /\ \A s \in Ids : ss[s] = secs[s]
  BY <1>1 DEF With
<1>3. Sections(ss)
  BY AddedIsLawful, LawfulIsSections
<1> HIDE DEF ss
<1>4. ss[Fresh].row = NoRow /\ ss[Fresh].order = NextOrder
  BY <1>2 DEF Standalone
<1>5. RowsFrom(secs, ss)
  BY <1>2, <1>4, SameRowsFrom
<1>6. \A s \in Ids : secs[s].order < NextOrder
  BY NextOrderIsNat
<1>7. WholeRows(ss)
  <2>1. \A c \in DOMAIN ss : c \in DOMAIN secs => ss[c].order = secs[c].order
    BY <1>2 DEF Ids
  <2>2. \A c \in DOMAIN ss : c \notin DOMAIN secs => \A t \in DOMAIN secs : secs[t].order < ss[c].order
    BY <1>2, <1>4, <1>6 DEF Ids
  <2>3. Sections(secs)
    BY SecsAreSections
  <2>. QED
    BY <1>3, <1>5, <2>1, <2>2, <2>3, RowsStayWhole
<1>. QED
  BY <1>7 DEF ss

LEMMA RemovedRowsAreWhole ==
    ASSUME SecsOK, WholeRows(secs), NEW s \in Ids, secs[s].row = NoRow
    PROVE  WholeRows(Restrict(secs, Ids \ {s}))
<1> DEFINE ss == Restrict(secs, Ids \ {s})
<1>1. DOMAIN ss = Ids \ {s} /\ \A t \in Ids \ {s} : ss[t] = secs[t]
  BY DEF Restrict
<1> HIDE DEF ss
<1>2. Sections(ss) /\ Sections(secs)
  BY <1>1, SecsAreSections DEF SecsOK, Sections
<1>3. RowsFrom(secs, ss)
  BY <1>1 DEF RowsFrom, Members, Ids
<1>4. \A c \in DOMAIN ss : c \in DOMAIN secs /\ ss[c].order = secs[c].order
  BY <1>1 DEF Ids
<1>5. WholeRows(ss)
  BY <1>2, <1>3, <1>4, RowsStayWhole
<1>. QED
  BY <1>5 DEF ss

LEMMA RowFullKeepsWhole ==
    ASSUME SecsOK, WholeRows(secs), NEW s \in Ids, RowFull(s)
    PROVE  WholeRows(secs')
<1> DEFINE members == {t \in Ids : secs[t].row = secs[s].row}
<1>1. secs' = [t \in Ids |->
             IF t \in members THEN [secs[t] EXCEPT !.row = NoRow, !.span = GridUnits] ELSE secs[t]]
  BY DEF RowFull, WriteRows
<1>2. Sections(secs') /\ Sections(secs)
  BY RowFullIsLawful, LawfulIsSections, SecsAreSections
<1>3. DOMAIN secs' = Ids /\ \A t \in Ids : t \notin members => secs'[t] = secs[t]
  BY <1>1
<1>4. \A t \in members : secs'[t].row = NoRow /\ secs'[t].order = secs[t].order
  <2>1. SUFFICES ASSUME NEW t \in members PROVE secs'[t].row = NoRow /\ secs'[t].order = secs[t].order
    OBVIOUS
  <2>2. secs'[t] = [secs[t] EXCEPT !.row = NoRow, !.span = GridUnits]
    BY <1>1
  <2>3. secs[t] = [order |-> secs[t].order, row |-> secs[t].row, span |-> secs[t].span,
                   locked |-> secs[t].locked]
    BY SectionIs DEF SecsOK
  <2>4. secs'[t] = [order |-> secs[t].order, row |-> NoRow, span |-> GridUnits,
                    locked |-> secs[t].locked]
    BY <2>2, <2>3
  <2>. QED
    BY <2>4
<1>5. RowsFrom(secs, secs')
  BY <1>3, <1>4 DEF RowsFrom, Members, Ids
<1> HIDE DEF members
<1>6. \A c \in DOMAIN secs' : c \in DOMAIN secs /\ secs'[c].order = secs[c].order
  BY <1>3, <1>4 DEF Ids
<1>. QED
  BY <1>2, <1>5, <1>6, RowsStayWhole

LEMMA LockToggleKeepsWhole ==
    ASSUME SecsOK, WholeRows(secs), NEW s \in Ids, LockToggle(s)
    PROVE  WholeRows(secs')
<1>1. secs' = [secs EXCEPT ![s].locked = ~@]
  BY DEF LockToggle
<1>2. Sections(secs') /\ Sections(secs)
  BY LockToggleIsLawful, LawfulIsSections, SecsAreSections
<1>3. DOMAIN secs' = Ids /\ \A t \in Ids : t # s => secs'[t] = secs[t]
  BY <1>1 DEF Ids
<1>4. secs'[s].row = secs[s].row /\ secs'[s].span = secs[s].span /\ secs'[s].order = secs[s].order
  <2>1. secs'[s] = [secs[s] EXCEPT !.locked = ~secs[s].locked]
    BY <1>1 DEF Ids
  <2>2. secs[s] = [order |-> secs[s].order, row |-> secs[s].row, span |-> secs[s].span,
                   locked |-> secs[s].locked]
    BY SectionIs DEF SecsOK
  <2>3. secs'[s] = [order |-> secs[s].order, row |-> secs[s].row, span |-> secs[s].span,
                    locked |-> ~secs[s].locked]
    BY <2>1, <2>2
  <2>. QED
    BY <2>3
<1>5. RowsFrom(secs, secs')
  <2>1. \A t \in Ids : secs'[t].row = secs[t].row /\ secs'[t].span = secs[t].span
    BY <1>3, <1>4
  <2>. QED
    BY <1>3, <2>1, SameRowsFrom
<1>6. \A c \in DOMAIN secs' : c \in DOMAIN secs /\ secs'[c].order = secs[c].order
  BY <1>3, <1>4 DEF Ids
<1>. QED
  BY <1>2, <1>5, <1>6, RowsStayWhole

\* What validate_page_row_layout has let pass.
LEMMA ValidatedRowsAreWhole ==
    ASSUME SecsOK, WholeRows(secs), NEW new, Lawful(new), RowsValid(new), RowsFrom(secs, new)
    PROVE  WholeRows(new)
<1>1. Sections(secs) /\ Sections(new) /\ RowTotals(secs)
  BY SecsAreSections, LawfulIsSections, WholeHasTotals
<1>2. RowTotals(new)
  BY <1>1, TotalsAreKept
<1>. QED
  BY <1>1, <1>2, ValidIsWhole

LEMMA SectionAddKeepsWhole ==
    ASSUME SecsOK, WholeRows(secs), NEW k \in 1..(Cardinality(Ids) + 1), SectionAdd(k)
    PROVE  WholeRows(secs')
<1>1. RowsValid(secs') /\ Lawful(secs')
  BY SectionAddIsLawful DEF SectionAdd, Addable, WriteRows
<1>2. RowsFrom(secs, secs')
  BY SectionAddMakes, SameRowsFrom
<1>. QED
  BY <1>1, <1>2, ValidatedRowsAreWhole

\* Another order is another order only.
LEMMA OrderOnly ==
    ASSUME NEW x \in Section, NEW n
    PROVE  LET y == [x EXCEPT !.order = n] IN
           /\ y.row = x.row /\ y.span = x.span
           /\ y = [order |-> n, row |-> x.row, span |-> x.span, locked |-> x.locked]
<1>1. x = [order |-> x.order, row |-> x.row, span |-> x.span, locked |-> x.locked]
  BY SectionIs
<1>2. [x EXCEPT !.order = n] = [order |-> n, row |-> x.row, span |-> x.span, locked |-> x.locked]
  BY <1>1
<1>. QED
  BY <1>2

LEMMA ReorderKeepsWhole ==
    ASSUME SecsOK, WholeRows(secs),
           NEW listed \in SUBSET Ids, NEW list \in SetToSeqs(listed), Reorder(list)
    PROVE  WholeRows(secs')
<1> DEFINE place(s) == (CHOOSE i \in DOMAIN list : list[i] = s) - 1
<1>1. /\ secs' = [s \in Ids |-> IF s \in ToSet(list) THEN [secs[s] EXCEPT !.order = place(s)]
                                ELSE secs[s]]
      /\ RowsValid(secs')
  BY DEF Reorder, WriteRows
<1>2. Lawful(secs')
  BY ReorderIsLawful
<1>3. DOMAIN secs' = Ids
  BY <1>1
<1>4. ASSUME NEW s \in Ids PROVE secs'[s].row = secs[s].row /\ secs'[s].span = secs[s].span
  <2>1. secs[s] \in Section
    BY DEF SecsOK
  <2>2. PICK n : n = place(s)
    OBVIOUS
  <2>3. secs'[s] = secs[s] \/ secs'[s] = [secs[s] EXCEPT !.order = n]
    BY <1>1, <2>2
  <2>4. [secs[s] EXCEPT !.order = n].row = secs[s].row /\ [secs[s] EXCEPT !.order = n].span = secs[s].span
    BY <2>1, OrderOnly
  <2>. QED
    BY <2>3, <2>4
<1>5. RowsFrom(secs, secs')
  BY <1>3, <1>4, SameRowsFrom
<1>. QED
  BY <1>1, <1>2, <1>5, ValidatedRowsAreWhole

LEMMA MoveKeepsWhole ==
    ASSUME SecsOK, WholeRows(secs), NEW s \in Ids, NEW d \in {-1, 1}, Move(s, d)
    PROVE  WholeRows(secs')
<1> DEFINE order == Ordered(secs)
           at == CHOOSE i \in DOMAIN order : order[i] = s
           other == order[at + d]
<1>1. /\ secs' = [secs EXCEPT ![s].order = secs[other].order, ![other].order = secs[s].order]
      /\ RowsValid(secs')
  BY DEF Move, WriteRows
<1>2. Lawful(secs')
  BY MoveIsLawful
<1> HIDE DEF other
<1>3. PICK u : u = [secs EXCEPT ![s].order = secs[other].order]
  OBVIOUS
<1>4. secs' = [u EXCEPT ![other].order = secs[s].order]
  BY <1>1, <1>3
<1>5. /\ DOMAIN u = Ids /\ u[s] = [secs[s] EXCEPT !.order = secs[other].order]
      /\ \A t \in Ids : t # s => u[t] = secs[t]
  BY <1>3 DEF Ids
<1>6. /\ DOMAIN secs' = Ids
      /\ \A t \in Ids : secs'[t] = IF t = other THEN [u[t] EXCEPT !.order = secs[s].order] ELSE u[t]
  BY <1>4, <1>5
<1>7. ASSUME NEW t \in Ids PROVE secs'[t].row = secs[t].row /\ secs'[t].span = secs[t].span
  <2>1. secs[t] \in Section
    BY DEF SecsOK
  <2>2. \E n : u[t] = [order |-> n, row |-> secs[t].row, span |-> secs[t].span,
                       locked |-> secs[t].locked]
    <3>1. CASE t = s
      <4>1. PICK n : n = secs[other].order
        OBVIOUS
      <4>2. u[t] = [secs[t] EXCEPT !.order = n]
        BY <1>5, <3>1, <4>1
      <4>. QED
        BY ZenonT(30), <2>1, <4>2, OrderOnly
    <3>2. CASE t # s
      BY <1>5, <2>1, <3>2, SectionIs
    <3>. QED
      BY <3>1, <3>2
  <2>3. PICK n : u[t] = [order |-> n, row |-> secs[t].row, span |-> secs[t].span,
                         locked |-> secs[t].locked]
    BY <2>2
  <2>4. secs'[t] = u[t] \/ secs'[t] = [u[t] EXCEPT !.order = secs[s].order]
    BY <1>6
  <2>. QED
    BY <2>3, <2>4
<1>8. RowsFrom(secs, secs')
  BY <1>6, <1>7, SameRowsFrom
<1>. QED
  BY <1>1, <1>2, <1>8, ValidatedRowsAreWhole

LEMMA ApplyPresetIsWhole ==
    ASSUME SecsOK, ApplyPreset
    PROVE  WholeRows(secs')
<1> DEFINE D == DOMAIN PresetRows
<1>1. secs' = [s \in D |-> [order |-> s - 1, row |-> PresetRows[s][1], span |-> PresetRows[s][2],
                            locked |-> FALSE]]
  BY DEF ApplyPreset, WriteRows
<1>2. D = 1..Len(PresetRows) /\ Len(PresetRows) \in Nat
  BY PresetIsWhole
<1>3. DOMAIN secs' = D
  BY <1>1
<1>4. \A s \in D : /\ secs'[s].order = s - 1 /\ secs'[s].row = PresetRows[s][1]
                   /\ secs'[s].span = PresetRows[s][2]
  BY <1>1
<1>5. SUFFICES ASSUME NEW s \in D, PresetRows[s][1] # NoRow
               PROVE  WholeRow(secs', Members(secs', PresetRows[s][1]))
  BY <1>3, <1>4 DEF WholeRows
<1> DEFINE M == {t \in D : PresetRows[t][1] = PresetRows[s][1]}
<1>6. Members(secs', PresetRows[s][1]) = M
  BY <1>3, <1>4 DEF Members
<1>7. /\ Cardinality(M) \in 2..MaxCells
      /\ SumFunctionOnSet([t \in D |-> PresetRows[t][2]], M) = GridUnits
      /\ \A a, b \in M : a..b \subseteq M
  BY <1>5, PresetIsWhole
<1>8. Width(secs', M) = GridUnits
  <2>1. [t \in D |-> PresetRows[t][2]] = [t \in DOMAIN secs' |-> secs'[t].span]
    BY <1>3, <1>4
  <2>. QED
    BY <1>7, <2>1 DEF Width
<1>9. ASSUME NEW a \in M, NEW b \in M, NEW c \in D, Before(secs', a, c), Before(secs', c, b)
      PROVE  c \in M
  <2>1. /\ a \in Nat /\ b \in Nat /\ c \in Nat /\ secs'[a].order = a - 1
        /\ secs'[b].order = b - 1 /\ secs'[c].order = c - 1
    BY <1>2, <1>4
  <2>2. c \in a..b
    BY <1>9, <2>1 DEF Before
  <2>. QED
    BY <1>7, <2>2
<1>. QED
  BY <1>3, <1>6, <1>7, <1>8, <1>9 DEF WholeRow, Together

\* A row of the members given, and of no other section, with the spans given.
LEMMA RegroupedRowsAreWhole ==
    ASSUME SecsOK, WholeRows(secs), NEW row \in Nat, row # NoRow, NEW spans \in RowPresets,
           NEW members \in Seq(Ids), Len(members) = Len(spans),
           \A i, j \in 1..Len(members) : members[i] = members[j] => i = j,
           NEW released, \A t \in released : secs[t].row = row,
           \A t \in ToSet(members) : secs[t].row = NoRow \/ secs[t].row = row,
           \A t \in Ids : secs[t].row = row => t \in ToSet(members) \/ t \in released,
           Lawful(Regrouped(members, row, spans, released)),
           RowsValid(Regrouped(members, row, spans, released))
    PROVE  WholeRows(Regrouped(members, row, spans, released))
<1> DEFINE ss == Regrouped(members, row, spans, released)
           at(t) == CHOOSE i \in DOMAIN members : members[i] = t
           n == Len(members)
<1>1. /\ n \in Nat /\ DOMAIN members = 1..n /\ spans \in Seq(1..GridUnits) /\ DOMAIN spans = 1..n
      /\ \A i \in 1..n : members[i] \in Ids
  BY LayoutsFill, ElementOfSeq, LenProperties
<1>2. DOMAIN ss = Ids
  BY DEF Regrouped
<1>3. ASSUME NEW t \in Ids
      PROVE  /\ t \in ToSet(members) => ss[t].row = row /\ ss[t].span = spans[at(t)]
             /\ t \notin ToSet(members) /\ t \in released => ss[t].row = NoRow
             /\ t \notin ToSet(members) /\ t \notin released => ss[t] = secs[t]
  <2>1. secs[t] = [order |-> secs[t].order, row |-> secs[t].row, span |-> secs[t].span,
                   locked |-> secs[t].locked]
    BY SectionIs DEF SecsOK
  <2>2. ss[t] = IF t \in ToSet(members)
                THEN [secs[t] EXCEPT !.row = row, !.span = spans[at(t)]]
                ELSE IF t \in released
                THEN [secs[t] EXCEPT !.row = NoRow, !.span = GridUnits]
                ELSE secs[t]
    BY DEF Regrouped
  <2> HIDE DEF ss, at
  <2>3. t \in ToSet(members) =>
            ss[t] = [order |-> secs[t].order, row |-> row, span |-> spans[at(t)],
                     locked |-> secs[t].locked]
    BY <2>1, <2>2
  <2>4. t \notin ToSet(members) /\ t \in released =>
            ss[t] = [order |-> secs[t].order, row |-> NoRow, span |-> GridUnits,
                     locked |-> secs[t].locked]
    BY <2>1, <2>2
  <2>. QED
    BY <2>2, <2>3, <2>4
<1>4. Sections(secs) /\ Sections(ss) /\ RowTotals(secs)
  BY SecsAreSections, LawfulIsSections, WholeHasTotals
<1>5. RowsValid(ss)
  OBVIOUS
<1>6. \A i \in 1..n : at(members[i]) = i /\ members[i] \in ToSet(members)
  BY <1>1 DEF ToSet
<1> HIDE DEF ss, at
<1>7. ToSet(members) \subseteq Ids
  BY <1>1 DEF ToSet
<1>8. Members(ss, row) = ToSet(members)
  <2>1. ASSUME NEW t \in Ids PROVE ss[t].row = row <=> t \in ToSet(members)
    <3>1. CASE t \in ToSet(members)
      BY <1>3, <3>1
    <3>2. CASE t \notin ToSet(members) /\ t \in released
      BY <1>3, <3>2
    <3>3. CASE t \notin ToSet(members) /\ t \notin released
      BY <1>3, <3>3
    <3>. QED
      BY <3>1, <3>2, <3>3
  <2>. QED
    BY <1>2, <1>7, <2>1 DEF Members
<1>9. Width(ss, ToSet(members)) = GridUnits
  <2>1. SumFunction([i \in 1..n |-> ss[members[i]].span]) = Width(ss, ToSet(members))
    <3>1. \A i \in 1..n : members[i] \in DOMAIN ss
      BY <1>1, <1>2
    <3>2. \A i, j \in 1..n : members[i] = members[j] => i = j
      OBVIOUS
    <3> HIDE DEF n
    <3>. QED
      BY <1>1, <1>4, <3>1, <3>2, WidthOfList
  <2>2. \A i \in 1..n : ss[members[i]].span = spans[i]
    <3>1. SUFFICES ASSUME NEW i \in 1..n PROVE ss[members[i]].span = spans[i]
      OBVIOUS
    <3>2. members[i] \in Ids /\ members[i] \in ToSet(members) /\ at(members[i]) = i
      BY <1>1, <1>6
    <3>. QED
      BY <1>3, <3>2
  <2>3. [i \in 1..n |-> ss[members[i]].span] = spans
    <3>1. [i \in 1..n |-> ss[members[i]].span] = [i \in 1..n |-> spans[i]]
      BY <2>2
    <3>2. spans = [i \in 1..n |-> spans[i]]
      BY <1>1
    <3>. QED
      BY <3>1, <3>2
  <2>4. SumFunction(spans) = GridUnits
    BY LayoutsFill
  <2>. QED
    BY <2>1, <2>3, <2>4
<1>10. ASSUME NEW t \in Ids, ss[t].row # NoRow, ss[t].row # row
       PROVE  Width(ss, Members(ss, ss[t].row)) = GridUnits
  <2> DEFINE r == ss[t].row
             M == Members(secs, r)
             f == [u \in DOMAIN secs |-> secs[u].span]
             g == [u \in DOMAIN ss |-> ss[u].span]
  <2>1. ASSUME NEW u \in Ids
        PROVE  /\ ss[u].row = r <=> secs[u].row = r
               /\ ss[u].row = r => ss[u].span = secs[u].span
    <3>1. CASE u \in ToSet(members)
      BY <1>3, <1>10, <3>1
    <3>2. CASE u \notin ToSet(members) /\ u \in released
      BY <1>3, <1>10, <3>2
    <3>3. CASE u \notin ToSet(members) /\ u \notin released
      BY <1>3, <3>3
    <3>. QED
      BY <3>1, <3>2, <3>3
  <2>2. Members(ss, r) = M
    BY <1>2, <2>1 DEF Members, Ids
  <2>3. IsFiniteSet(M)
    <3>1. M \in SUBSET (DOMAIN secs) /\ IsFiniteSet(DOMAIN secs)
      BY <1>4, SectionsSort DEF Members
    <3>. QED
      BY <3>1, FS_Subset
  <2>4. \A u \in M : g[u] = f[u]
    BY <1>2, <2>1 DEF Members, Ids
  <2>5. Width(secs, M) = GridUnits
    <3>1. secs[t].row = r /\ t \in DOMAIN secs
      BY <2>1 DEF Ids
    <3>. QED
      BY <1>4, <1>10, <3>1 DEF RowTotals
  <2> HIDE DEF M, f, g
  <2>6. SumFunctionOnSet(g, M) = SumFunctionOnSet(f, M)
    BY <2>3, <2>4, SumSame
  <2>. QED
    BY <2>2, <2>5, <2>6 DEF Width, f, g
<1>11. RowTotals(ss)
  BY <1>2, <1>8, <1>9, <1>10 DEF RowTotals
<1>12. WholeRows(ss)
  BY <1>4, <1>5, <1>11, ValidIsWhole
<1>. QED
  BY <1>12 DEF ss

\* What follows a section in order is no section twice.
LEMMA NeighboursDiffer ==
    ASSUME SecsOK, NEW s \in Ids, NEW n \in Nat,
           LET at == CHOOSE i \in DOMAIN Ordered(secs) : Ordered(secs)[i] = s
           IN  at + n - 1 <= Len(Ordered(secs))
    PROVE  LET order == Ordered(secs)
               at == CHOOSE i \in DOMAIN order : order[i] = s
               members == SubSeq(order, at, at + n - 1) IN
           \A i, j \in 1..n : members[i] = members[j] => i = j
<1> DEFINE order == Ordered(secs)
           at == CHOOSE i \in DOMAIN order : order[i] = s
           members == SubSeq(order, at, at + n - 1)
           l == Len(order)
<1>1. /\ at \in 1..l /\ \A i \in 1..n : members[i] = order[at + i - 1]
  BY NeighboursAreListed
<1>2. Sortable(secs) /\ at + n - 1 <= l
  BY SecsAreSections, SectionsSort
<1>3. \A i, j \in 1..l : order[i] = order[j] => i = j
  <2>1. Len(order) = Cardinality(DOMAIN secs)
    BY <1>2, OrderedIsSeq
  <2>. QED
    BY <1>2, <2>1, OrderedLists
<1>4. l \in Nat
  BY <1>2, OrderedIsSeq
<1> HIDE DEF order, at, members, l
<1>5. ASSUME NEW i \in 1..n, NEW j \in 1..n, members[i] = members[j] PROVE i = j
  <2>1. at + i - 1 \in 1..l /\ at + j - 1 \in 1..l
    BY <1>1, <1>2, <1>4
  <2>2. at + i - 1 = at + j - 1
    BY <1>1, <1>3, <1>5, <2>1
  <2>. QED
    BY <1>1, <1>4, <2>2
<1>. QED
  BY <1>5 DEF order, at, members

LEMMA RowGroupKeepsWhole ==
    ASSUME SecsOK, WholeRows(secs), NEW s \in Ids, NEW spans \in RowPresets, RowGroup(s, spans)
    PROVE  WholeRows(secs')
<1> DEFINE order == Ordered(secs)
           at == CHOOSE i \in DOMAIN order : order[i] = s
           members == SubSeq(order, at, at + Len(spans) - 1)
           key == CHOOSE r \in 1..MaxSections : \A t \in Ids : secs[t].row # r
           ss == Regrouped(members, key, spans, {})
<1>1. /\ secs[s].row = NoRow /\ at + Len(spans) - 1 <= Len(order)
      /\ \A m \in ToSet(members) : secs[m].row = NoRow
      /\ RowsValid(ss) /\ secs' = ss
  BY DEF RowGroup, WriteRows
<1>2. key \in 1..MaxSections /\ \A t \in Ids : secs[t].row # key
  <2>1. \E r \in 1..MaxSections : \A t \in Ids : secs[t].row # r
    BY <1>1, SomeRowIsFree
  <2>. QED
    BY <2>1
<1>3. members \in Seq(Ids) /\ Len(members) = Len(spans) /\ Len(spans) \in Nat
  BY <1>1, SpansAreListed, NeighboursAreListed
<1>4. \A i, j \in 1..Len(spans) : members[i] = members[j] => i = j
  BY <1>1, SpansAreListed, NeighboursDiffer
<1>5. Lawful(secs')
  BY RowGroupIsLawful
<1> HIDE DEF key, members
<1>6. key \in Nat /\ key # NoRow
  BY <1>2, PageIsBounded DEF NoRow
<1>7. Lawful(ss) /\ RowsValid(ss)
  BY <1>1, <1>5
<1>8. WholeRows(ss)
  BY <1>1, <1>2, <1>3, <1>4, <1>6, <1>7, RegroupedRowsAreWhole
<1>. QED
  BY <1>1, <1>8

LEMMA RowReshapeKeepsWhole ==
    ASSUME SecsOK, WholeRows(secs), NEW s \in Ids, NEW spans \in RowPresets, RowReshape(s, spans)
    PROVE  WholeRows(secs')
<1> DEFINE order == Ordered(secs)
           row == secs[s].row
           M == {t \in Ids : secs[t].row = row}
           current == Ordered(Restrict(secs, M))
           first == Head(current)
           start == CHOOSE i \in DOMAIN order : order[i] = first
           members == SubSeq(order, start, start + Len(spans) - 1)
           released == ToSet(current) \ ToSet(members)
           ss == Regrouped(members, row, spans, released)
<1>1. /\ row # NoRow /\ start + Len(spans) - 1 <= Len(order)
      /\ \A m \in ToSet(members) \ ToSet(current) : secs[m].row = NoRow
      /\ RowsValid(ss) /\ secs' = ss
  BY DEF RowReshape, WriteRows
<1>2. current \in Seq(M) /\ ToSet(current) = M
  BY RowIsListed
<1>3. Lawful(secs')
  BY RowReshapeIsLawful
<1> HIDE DEF current
<1>4. first \in Ids
  <2>1. s \in M /\ M \subseteq Ids
    OBVIOUS
  <2>2. current # <<>>
    BY <1>2, <2>1 DEF ToSet
  <2>3. first \in M
    BY <1>2, <2>2
  <2>. QED
    BY <2>1, <2>3
<1> HIDE DEF first
<1>5. members \in Seq(Ids) /\ Len(members) = Len(spans) /\ Len(spans) \in Nat
  BY <1>1, <1>4, SpansAreListed, NeighboursAreListed
<1>6. \A i, j \in 1..Len(spans) : members[i] = members[j] => i = j
  BY <1>1, <1>4, SpansAreListed, NeighboursDiffer
<1>7. row \in Nat
  BY DEF SecsOK, Section
<1>8. /\ \A t \in released : secs[t].row = row
      /\ \A t \in Ids : secs[t].row = row => t \in ToSet(members) \/ t \in released
      /\ \A t \in ToSet(members) : secs[t].row = NoRow \/ secs[t].row = row
  BY <1>1, <1>2
<1> HIDE DEF members, row, released
<1>9. Lawful(ss) /\ RowsValid(ss)
  BY <1>1, <1>3
<1>10. WholeRows(ss)
  BY <1>1, <1>5, <1>6, <1>7, <1>8, <1>9, RegroupedRowsAreWhole
<1>. QED
  BY <1>1, <1>10

-----------------------------------------------------------------------------
(* The containers of a page.                                               *)
Cells == [span : 1..GridUnits, section : Nat]

Filled(cells) ==
    /\ Len(cells) \in 1..MaxCells
    /\ SumFunction([j \in DOMAIN cells |-> cells[j].span]) = GridUnits

\* The cells hold the sections given, each of them once.
Once(cs, ids) ==
    /\ \A c \in DOMAIN cs : \A j \in DOMAIN cs[c] : cs[c][j].section \in ids \cup {NoSection}
    /\ \A s \in ids : \E c \in DOMAIN cs : \E j \in DOMAIN cs[c] : cs[c][j].section = s
    /\ \A c, d \in DOMAIN cs : \A j \in DOMAIN cs[c], k \in DOMAIN cs[d] :
           cs[c][j].section = cs[d][k].section /\ cs[c][j].section \in ids => c = d /\ j = k

\* The list of containers, and whether each fills the width.
Boxes(cs)     == cs \in Seq(Seq(Cells))
AllFilled(cs) == \A c \in DOMAIN cs : Filled(cs[c])

LEMMA BoxIs ==
    ASSUME NEW cs, Boxes(cs)
    PROVE  /\ Len(cs) \in Nat /\ DOMAIN cs = 1..Len(cs)
           /\ \A c \in DOMAIN cs : /\ cs[c] \in Seq(Cells) /\ Len(cs[c]) \in Nat
                                   /\ DOMAIN cs[c] = 1..Len(cs[c])
                                   /\ \A j \in DOMAIN cs[c] : cs[c][j] \in Cells
<1>1. Len(cs) \in Nat /\ DOMAIN cs = 1..Len(cs) /\ \A c \in DOMAIN cs : cs[c] \in Seq(Cells)
  BY ElementOfSeq, LenProperties DEF Boxes
<1>2. ASSUME NEW c \in DOMAIN cs
      PROVE  /\ Len(cs[c]) \in Nat /\ DOMAIN cs[c] = 1..Len(cs[c])
             /\ \A j \in DOMAIN cs[c] : cs[c][j] \in Cells
  BY <1>1, ElementOfSeq, LenProperties
<1>. QED
  BY <1>1, <1>2

LEMMA OneSpan == ASSUME NEW f, DOMAIN f = 1..1, f[1] \in Int PROVE SumFunction(f) = f[1]
<1>1. 1..1 = {1} /\ IsFiniteSet({1}) /\ {1} \ {1} = {}
  <2>1. 1..1 = {1}
    OBVIOUS
  <2>. QED
    BY <2>1, FS_Singleton
<1>2. SumFunctionOnSet(f, {}) = 0
  BY FS_EmptySet, SumStep
<1>3. SumFunctionOnSet(f, {1}) = f[1] + SumFunctionOnSet(f, {1} \ {1})
  BY <1>1, SumMember
<1>. QED
  BY <1>1, <1>2, <1>3 DEF SumFunction

\* rebuild_page_from_legacy_rows: the rows, as containers.
LEMMA RebuiltMakes ==
    ASSUME NEW ss, Sections(ss)
    PROVE  /\ Boxes(Rebuilt(ss)) /\ Once(Rebuilt(ss), DOMAIN ss)
           /\ WholeRows(ss) => AllFilled(Rebuilt(ss))
<1> DEFINE runs == Runs(ss)
           m == Len(runs)
           cs == Rebuilt(ss)
<1>1. /\ Sortable(ss) /\ DOMAIN ss \subseteq Nat
      /\ \A s \in DOMAIN ss : ss[s].row \in Nat /\ ss[s].span \in 1..GridUnits
  BY SectionsSort DEF Sortable
<1>2. /\ m \in Nat /\ DOMAIN runs = 1..m /\ \A k \in 1..m : OneRun(ss, runs[k])
      /\ \A s \in DOMAIN ss : \E k \in 1..m : \E j \in 1..Len(runs[k]) : runs[k][j] = s
      /\ \A k, q \in 1..m : \A i \in 1..Len(runs[k]), j \in 1..Len(runs[q]) :
             runs[k][i] = runs[q][j] => k = q /\ i = j
  BY <1>1, EachRun
<1>3. cs = [c \in DOMAIN runs |->
               [j \in DOMAIN runs[c] |-> Cell(SpanOf(ss, runs[c][j]), runs[c][j])]]
  BY DEF Rebuilt
<1> HIDE DEF runs, cs, m
<1>4. \A c \in 1..m : /\ Len(runs[c]) \in Nat /\ Len(runs[c]) >= 1 /\ DOMAIN runs[c] = 1..Len(runs[c])
                      /\ \A j \in 1..Len(runs[c]) : runs[c][j] \in DOMAIN ss
  BY <1>2 DEF OneRun
<1>5. DOMAIN cs = 1..m
  BY <1>2, <1>3
<1>6. ASSUME NEW c \in 1..m
      PROVE  /\ DOMAIN cs[c] = 1..Len(runs[c])
             /\ \A j \in 1..Len(runs[c]) : /\ cs[c][j].section = runs[c][j]
                                           /\ cs[c][j].span = SpanOf(ss, runs[c][j])
                                           /\ cs[c][j] \in Cells
             /\ cs[c] \in Seq(Cells) /\ Len(cs[c]) = Len(runs[c])
  <2>1. cs[c] = [j \in 1..Len(runs[c]) |-> Cell(SpanOf(ss, runs[c][j]), runs[c][j])]
    BY <1>2, <1>3, <1>4
  <2>2. ASSUME NEW j \in 1..Len(runs[c])
        PROVE  /\ cs[c][j].section = runs[c][j] /\ cs[c][j].span = SpanOf(ss, runs[c][j])
               /\ cs[c][j] \in Cells
    <3>1. cs[c][j] = Cell(SpanOf(ss, runs[c][j]), runs[c][j])
      BY <2>1
    <3>2. SpanOf(ss, runs[c][j]) \in 1..GridUnits /\ runs[c][j] \in Nat
      BY <1>1, <1>4 DEF SpanOf, GridUnits
    <3>. QED
      BY <3>1, <3>2 DEF Cell, Cells
  <2>3. DOMAIN cs[c] = 1..Len(runs[c])
    BY <2>1
  <2>4. cs[c] \in [1..Len(runs[c]) -> Cells]
    BY <2>1, <2>2
  <2>5. cs[c] \in Seq(Cells) /\ Len(cs[c]) = Len(runs[c])
    BY <1>4, <2>4
  <2>. QED
    BY <2>2, <2>3, <2>5
<1>7. Boxes(cs)
  <2>1. cs \in [1..m -> Seq(Cells)]
    BY <1>2, <1>3, <1>6
  <2>. QED
    BY <1>2, <2>1 DEF Boxes
<1>8. Once(cs, DOMAIN ss)
  <2>1. \A c \in DOMAIN cs : \A j \in DOMAIN cs[c] : cs[c][j].section \in DOMAIN ss
    BY <1>4, <1>5, <1>6
  <2>2. ASSUME NEW s \in DOMAIN ss
        PROVE  \E c \in DOMAIN cs : \E j \in DOMAIN cs[c] : cs[c][j].section = s
    <3>1. PICK k \in 1..m : \E j \in 1..Len(runs[k]) : runs[k][j] = s
      BY <1>2
    <3>. QED
      BY <1>5, <1>6, <3>1
  <2>3. ASSUME NEW c \in DOMAIN cs, NEW d \in DOMAIN cs, NEW j \in DOMAIN cs[c], NEW k \in DOMAIN cs[d],
               cs[c][j].section = cs[d][k].section
        PROVE  c = d /\ j = k
    <3>1. c \in 1..m /\ d \in 1..m /\ j \in 1..Len(runs[c]) /\ k \in 1..Len(runs[d])
      BY <1>5, <1>6
    <3>2. runs[c][j] = runs[d][k]
      BY <1>6, <2>3, <3>1
    <3>. QED
      BY <1>2, <3>1, <3>2
  <2>. QED
    BY <2>1, <2>2, <2>3 DEF Once
<1>9. ASSUME WholeRows(ss), NEW c \in 1..m PROVE Filled(cs[c])
  <2> DEFINE list == runs[c]
             n == Len(list)
             f == [j \in DOMAIN cs[c] |-> cs[c][j].span]
  <2>1. RowsValid(ss)
    BY <1>9, WholeIsValid
  <2>2. ss[list[1]].row # NoRow =>
            n \in 2..MaxCells /\ Width(ss, ToSet(list)) = GridUnits
    BY <2>1, ValidRuns DEF runs, m
  <2>3. /\ n \in Nat /\ n >= 1 /\ DOMAIN list = 1..n
        /\ n > 1 => ss[list[1]].row # NoRow
        /\ \A j \in 1..n : list[j] \in DOMAIN ss /\ ss[list[j]].row = ss[list[1]].row
        /\ \A i, j \in 1..n : list[i] = list[j] => i = j
    BY <1>2 DEF OneRun
  <2>4. Len(cs[c]) = n /\ DOMAIN f = 1..n /\ \A j \in 1..n : f[j] = SpanOf(ss, list[j])
    BY <1>6
  <2> HIDE DEF list, n, f
  <2>5. CASE ss[list[1]].row = NoRow
    <3>1. n = 1
      BY <2>3, <2>5
    <3>2. f[1] = GridUnits
      BY <2>4, <2>5, <3>1 DEF SpanOf
    <3>3. SumFunction(f) = GridUnits
      BY <2>4, <3>1, <3>2, OneSpan DEF GridUnits
    <3>. QED
      BY <2>4, <3>1, <3>3 DEF Filled, MaxCells, f
  <2>6. CASE ss[list[1]].row # NoRow
    <3>1. n \in 1..MaxCells
      BY <2>2, <2>6 DEF MaxCells
    <3>2. \A j \in 1..n : f[j] = ss[list[j]].span
      BY <2>3, <2>4, <2>6 DEF SpanOf
    <3>3. f = [j \in 1..n |-> ss[list[j]].span]
      <4>1. f = [j \in 1..n |-> f[j]]
        BY <2>4 DEF f
      <4>. QED
        BY <3>2, <4>1
    <3>4. SumFunction([j \in 1..n |-> ss[list[j]].span]) = Width(ss, ToSet(list))
      BY <2>3, WidthOfList
    <3>. QED
      BY <2>2, <2>4, <2>6, <3>1, <3>3, <3>4 DEF Filled, f
  <2>. QED
    BY <2>5, <2>6
<1>. QED
  BY <1>5, <1>7, <1>8, <1>9 DEF AllFilled, cs

\* Where every section has its cell, ensure_page_containers adds nothing.
LEMMA NothingMissing ==
    ASSUME NEW ss, NEW cs, cs # <<>>, Boxes(cs), Once(cs, DOMAIN ss), NoSection \notin DOMAIN ss
    PROVE  Ensured(ss, cs) = cs
<1> DEFINE left == Restrict(ss, DOMAIN ss \ Placed(cs))
           missing == Ordered(left)
           more == [i \in DOMAIN missing |-> Single(missing[i])]
<1>1. DOMAIN ss \ Placed(cs) = {}
  <2>1. SUFFICES ASSUME NEW s \in DOMAIN ss PROVE s \in Placed(cs)
    OBVIOUS
  <2>2. PICK c \in DOMAIN cs : \E j \in DOMAIN cs[c] : cs[c][j].section = s
    BY DEF Once
  <2> DEFINE own(d) == {cs[d][j].section : j \in DOMAIN cs[d]}
             all    == {own(d) : d \in DOMAIN cs}
  <2>3. s \in own(c) /\ own(c) \in all /\ s # NoSection
    BY <2>2
  <2>4. Placed(cs) = (UNION all) \ {NoSection}
    BY DEF Placed
  <2> HIDE DEF own, all
  <2>. QED
    BY <2>3, <2>4
<1>2. DOMAIN left = {}
  BY <1>1 DEF Restrict
<1> HIDE DEF left
<1>3. DOMAIN missing = {}
  <2>1. Cardinality(DOMAIN left) = 0
    BY <1>2, FS_EmptySet
  <2>2. DOMAIN missing = 1..0
    BY <2>1 DEF Ordered
  <2>. QED
    BY <2>2
<1>4. more = <<>>
  BY <1>3
<1>5. Ensured(ss, cs) = cs \o more
  BY DEF Ensured, left
<1>. QED
  BY <1>4, <1>5, ConcatEmptySeq DEF Boxes

\* Each row stays whole until one of its cells is cleared.
LEMMA RowsKeepWhole ==
    ASSUME SecsOK, cleared \in BOOLEAN, ~cleared => WholeRows(secs), Once(conts, Ids),
           [PageNext]_pageVars
    PROVE  cleared' \in BOOLEAN /\ (~cleared' => WholeRows(secs'))
<1> DEFINE Kept == cleared' \in BOOLEAN /\ (~cleared' => WholeRows(secs'))
<1>1. ASSUME UNCHANGED cleared, ~cleared => WholeRows(secs') PROVE Kept
  BY <1>1
<1>2. ASSUME UNCHANGED <<secs, cleared>> PROVE Kept
  BY <1>2
<1>0. SUFFICES Kept
  OBVIOUS
<1> HIDE DEF Kept
<1>3. ASSUME NEW k \in 1..(Cardinality(Ids) + 1), SectionAdd(k) PROVE Kept
  BY <1>1, <1>3, SectionAddKeepsWhole DEF SectionAdd, WriteRows
<1>4. ASSUME NEW s \in Ids, SectionRemove(s) PROVE Kept
  <2>1. secs[s].row = NoRow /\ secs' = Restrict(secs, Ids \ {s}) /\ UNCHANGED cleared
    BY <1>4 DEF SectionRemove, Removable, WriteRows
  <2>. QED
    BY <1>1, <2>1, RemovedRowsAreWhole
<1>5. ASSUME NEW s \in Ids, RowFull(s) \/ LockToggle(s) PROVE Kept
  BY <1>1, <1>5, RowFullKeepsWhole, LockToggleKeepsWhole DEF RowFull, LockToggle, WriteRows
<1>6. ASSUME NEW s \in Ids, Duplicate(s) PROVE Kept
  BY <1>1, <1>6, AddedRowsAreWhole DEF Duplicate
<1>7. ASSUME NEW s \in Ids, NEW spans \in RowPresets, RowGroup(s, spans) \/ RowReshape(s, spans)
      PROVE  Kept
  BY <1>1, <1>7, RowGroupKeepsWhole, RowReshapeKeepsWhole DEF RowGroup, RowReshape, WriteRows
<1>8. ASSUME NEW s \in Ids, NEW d \in {-1, 1}, Move(s, d) PROVE Kept
  BY <1>1, <1>8, MoveKeepsWhole DEF Move, WriteRows
<1>9. ASSUME NEW listed \in SUBSET Ids, NEW list \in SetToSeqs(listed), Reorder(list) PROVE Kept
  BY <1>1, <1>9, ReorderKeepsWhole DEF Reorder, WriteRows
<1>10. ASSUME ApplyPreset PROVE Kept
  BY <1>1, <1>10, ApplyPresetIsWhole DEF ApplyPreset, WriteRows
<1>11. ASSUME NEW spans, ContainerAdd(spans) \/ \E c \in DOMAIN conts : ContainerLayout(c, spans)
       PROVE  Kept
  BY <1>2, <1>11 DEF ContainerAdd, ContainerLayout
<1>12. ASSUME NEW c \in DOMAIN conts, ContainerRemove(c) \/ \E d \in {-1, 1} : ContainerMove(c, d)
       PROVE  Kept
  BY <1>2, <1>12 DEF ContainerRemove, ContainerMove
<1>13. ASSUME NEW c \in DOMAIN conts, NEW j \in DOMAIN conts[c], CellAdd(c, j) PROVE Kept
  BY <1>1, <1>13, AddedRowsAreWhole DEF CellAdd
<1>14. ASSUME NEW c \in DOMAIN conts, NEW j \in DOMAIN conts[c], CellClear(c, j)
       PROVE  Kept
  <2>1. PICK s : s = conts[c][j].section
    OBVIOUS
  <2>2. /\ secs' = Restrict(secs, Ids \ {s})
        /\ cleared' <=> (cleared \/ secs[s].row # NoRow)
        /\ cleared' \in BOOLEAN
    BY <1>14, <2>1 DEF CellClear
  <2>3. s \in Ids
    BY <1>14, <2>1 DEF Once, CellClear
  <2>4. ~cleared' => WholeRows(secs')
    BY <2>2, <2>3, RemovedRowsAreWhole
  <2>. QED
    BY <2>2, <2>4 DEF Kept
<1>15. ASSUME SectionInContainer PROVE Kept
  BY <1>1, <1>15, AddedRowsAreWhole DEF SectionInContainer
<1>16. CASE UNCHANGED pageVars
  BY <1>2, <1>16 DEF pageVars
<1>17. CASE PageNext
  BY <1>3, <1>4, <1>5, <1>6, <1>7, <1>8, <1>9, <1>10, <1>11, <1>12, <1>13, <1>14, <1>15, <1>17
     DEF PageNext
<1>. QED
  BY <1>16, <1>17

\* The sections keep their places.
LEMMA PlacesStay ==
    ASSUME NEW cs, NEW ids, NoSection \notin ids, Once(cs, ids), NEW new,
           \A c \in DOMAIN new : \A j \in DOMAIN new[c] : new[c][j].section # NoSection =>
               c \in DOMAIN cs /\ j \in DOMAIN cs[c] /\ cs[c][j].section = new[c][j].section,
           \A c \in DOMAIN cs : \A j \in DOMAIN cs[c] : cs[c][j].section # NoSection =>
               c \in DOMAIN new /\ j \in DOMAIN new[c] /\ cs[c][j].section = new[c][j].section
    PROVE  Once(new, ids)
<1>1. \A c \in DOMAIN new : \A j \in DOMAIN new[c] : new[c][j].section \in ids \cup {NoSection}
  BY DEF Once
<1>2. ASSUME NEW s \in ids PROVE \E c \in DOMAIN new : \E j \in DOMAIN new[c] : new[c][j].section = s
  <2>1. PICK c \in DOMAIN cs : \E j \in DOMAIN cs[c] : cs[c][j].section = s
    BY DEF Once
  <2>2. PICK j \in DOMAIN cs[c] : cs[c][j].section = s
    BY <2>1
  <2>. QED
    BY <2>2
<1>3. ASSUME NEW c \in DOMAIN new, NEW d \in DOMAIN new, NEW j \in DOMAIN new[c], NEW k \in DOMAIN new[d],
             new[c][j].section = new[d][k].section, new[c][j].section \in ids
      PROVE  c = d /\ j = k
  <2>1. /\ c \in DOMAIN cs /\ j \in DOMAIN cs[c] /\ cs[c][j].section = new[c][j].section
        /\ d \in DOMAIN cs /\ k \in DOMAIN cs[d] /\ cs[d][k].section = new[d][k].section
    BY <1>3
  <2>. QED
    BY <1>3, <2>1 DEF Once
<1>. QED
  BY <1>1, <1>2, <1>3 DEF Once

\* The containers that hold something are the old ones in other places.
LEMMA PlacesMove ==
    ASSUME NEW cs, NEW ids, NoSection \notin ids, Once(cs, ids), NEW new, NEW from,
           \A c \in DOMAIN new : from[c] \in DOMAIN cs /\ new[c] = cs[from[c]],
           \A c, d \in DOMAIN new : from[c] = from[d] => c = d,
           \A d \in DOMAIN cs : \A j \in DOMAIN cs[d] : cs[d][j].section # NoSection =>
               \E c \in DOMAIN new : from[c] = d
    PROVE  Once(new, ids)
<1>1. \A c \in DOMAIN new : \A j \in DOMAIN new[c] : new[c][j].section \in ids \cup {NoSection}
  BY DEF Once
<1>2. ASSUME NEW s \in ids PROVE \E c \in DOMAIN new : \E j \in DOMAIN new[c] : new[c][j].section = s
  <2>1. PICK d \in DOMAIN cs : \E j \in DOMAIN cs[d] : cs[d][j].section = s
    BY DEF Once
  <2>2. PICK j \in DOMAIN cs[d] : cs[d][j].section = s
    BY <2>1
  <2>3. PICK c \in DOMAIN new : from[c] = d
    BY <2>2
  <2>. QED
    BY <2>2, <2>3
<1>3. ASSUME NEW c \in DOMAIN new, NEW d \in DOMAIN new, NEW j \in DOMAIN new[c], NEW k \in DOMAIN new[d],
             new[c][j].section = new[d][k].section, new[c][j].section \in ids
      PROVE  c = d /\ j = k
  <2>1. /\ from[c] \in DOMAIN cs /\ new[c] = cs[from[c]]
        /\ from[d] \in DOMAIN cs /\ new[d] = cs[from[d]]
    OBVIOUS
  <2>2. from[c] = from[d] /\ j = k
    BY <1>3, <2>1 DEF Once
  <2>. QED
    BY <2>2
<1>. QED
  BY <1>1, <1>2, <1>3 DEF Once

\* A cell is given a section that had none.
LEMMA PlaceGiven ==
    ASSUME NEW cs, NEW ids, NoSection \notin ids, Once(cs, ids), NEW new,
           NEW x, x \notin ids, x # NoSection,
           NEW at \in DOMAIN new, NEW cell \in DOMAIN new[at], new[at][cell].section = x,
           \A c \in DOMAIN new : \A j \in DOMAIN new[c] :
               (c # at \/ j # cell) /\ new[c][j].section # NoSection =>
                   c \in DOMAIN cs /\ j \in DOMAIN cs[c] /\ cs[c][j].section = new[c][j].section,
           \A c \in DOMAIN cs : \A j \in DOMAIN cs[c] : cs[c][j].section # NoSection =>
               c \in DOMAIN new /\ j \in DOMAIN new[c] /\ cs[c][j].section = new[c][j].section
    PROVE  Once(new, ids \cup {x})
<1>1. ASSUME NEW c \in DOMAIN new, NEW j \in DOMAIN new[c], c # at \/ j # cell
      PROVE  new[c][j].section \in ids \cup {NoSection}
  BY <1>1 DEF Once
<1>2. ASSUME NEW s \in ids \cup {x}
      PROVE  \E c \in DOMAIN new : \E j \in DOMAIN new[c] : new[c][j].section = s
  <2>1. CASE s = x
    BY <2>1
  <2>2. CASE s \in ids
    <3>1. PICK c \in DOMAIN cs : \E j \in DOMAIN cs[c] : cs[c][j].section = s
      BY <2>2 DEF Once
    <3>2. PICK j \in DOMAIN cs[c] : cs[c][j].section = s
      BY <3>1
    <3>. QED
      BY <2>2, <3>2
  <2>. QED
    BY <2>1, <2>2
<1>3. ASSUME NEW c \in DOMAIN new, NEW d \in DOMAIN new, NEW j \in DOMAIN new[c], NEW k \in DOMAIN new[d],
             new[c][j].section = new[d][k].section, new[c][j].section \in ids \cup {x}
      PROVE  c = d /\ j = k
  <2>1. CASE new[c][j].section = x
    <3>1. c = at /\ j = cell
      BY <1>1, <2>1
    <3>2. d = at /\ k = cell
      BY ZenonT(30), <1>1, <1>3, <2>1
    <3>. QED
      BY <3>1, <3>2
  <2>2. CASE new[c][j].section \in ids
    <3>1. /\ c \in DOMAIN cs /\ j \in DOMAIN cs[c] /\ cs[c][j].section = new[c][j].section
          /\ d \in DOMAIN cs /\ k \in DOMAIN cs[d] /\ cs[d][k].section = new[d][k].section
      BY <1>3, <2>2
    <3>. QED
      BY <1>3, <2>2, <3>1 DEF Once
  <2>. QED
    BY <1>3, <2>1, <2>2
<1>4. \A c \in DOMAIN new : \A j \in DOMAIN new[c] :
          new[c][j].section \in (ids \cup {x}) \cup {NoSection}
  BY <1>1
<1>. QED
  BY <1>2, <1>3, <1>4 DEF Once

\* The cell of a section is emptied.
LEMMA PlaceTaken ==
    ASSUME NEW cs, NEW ids, NoSection \notin ids, Once(cs, ids), NEW new, DOMAIN new = DOMAIN cs,
           NEW at \in DOMAIN cs, NEW cell \in DOMAIN cs[at], cs[at][cell].section \in ids,
           \A c \in DOMAIN cs : DOMAIN new[c] = DOMAIN cs[c],
           \A c \in DOMAIN cs : \A j \in DOMAIN cs[c] :
               new[c][j].section = IF c = at /\ j = cell THEN NoSection ELSE cs[c][j].section
    PROVE  Once(new, ids \ {cs[at][cell].section})
<1> DEFINE x == cs[at][cell].section
<1>1. ASSUME NEW c \in DOMAIN new, NEW j \in DOMAIN new[c]
      PROVE  new[c][j].section \in (ids \ {x}) \cup {NoSection}
  <2>1. c \in DOMAIN cs /\ j \in DOMAIN cs[c]
    OBVIOUS
  <2>2. cs[c][j].section = x => c = at /\ j = cell
    BY <2>1 DEF Once
  <2>. QED
    BY <2>1, <2>2 DEF Once
<1>2. ASSUME NEW s \in ids \ {x}
      PROVE  \E c \in DOMAIN new : \E j \in DOMAIN new[c] : new[c][j].section = s
  <2>1. PICK c \in DOMAIN cs : \E j \in DOMAIN cs[c] : cs[c][j].section = s
    BY DEF Once
  <2>2. PICK j \in DOMAIN cs[c] : cs[c][j].section = s
    BY <2>1
  <2>. QED
    BY <2>2
<1>3. ASSUME NEW c \in DOMAIN new, NEW d \in DOMAIN new, NEW j \in DOMAIN new[c], NEW k \in DOMAIN new[d],
             new[c][j].section = new[d][k].section, new[c][j].section \in ids \ {x}
      PROVE  c = d /\ j = k
  <2>1. /\ c \in DOMAIN cs /\ j \in DOMAIN cs[c] /\ d \in DOMAIN cs /\ k \in DOMAIN cs[d]
    OBVIOUS
  <2>2. cs[c][j].section = new[c][j].section /\ cs[d][k].section = new[d][k].section
    BY <1>3, <2>1
  <2>. QED
    BY <1>3, <2>1, <2>2 DEF Once
<1>. QED
  BY <1>1, <1>2, <1>3 DEF Once

\* Cells with the spans of a row, whatever they hold, fill the width.
LEMMA SpansFill ==
    ASSUME NEW spans \in RowPresets \cup {<<GridUnits>>}
    PROVE  /\ spans \in Seq(1..GridUnits) /\ Len(spans) \in 1..MaxCells /\ Len(spans) \in Nat
           /\ DOMAIN spans = 1..Len(spans) /\ SumFunction(spans) = GridUnits
<1>1. CASE spans \in RowPresets
  BY <1>1, LayoutsFill, LenProperties DEF MaxCells
<1>2. CASE spans = <<GridUnits>>
  <2>1. /\ spans \in Seq(1..GridUnits) /\ Len(spans) = 1 /\ DOMAIN spans = 1..1
        /\ spans[1] = GridUnits
    BY <1>2 DEF GridUnits
  <2>2. SumFunction(spans) = GridUnits
    BY <2>1, OneSpan DEF GridUnits
  <2>. QED
    BY <2>1, <2>2 DEF MaxCells
<1>. QED
  BY <1>1, <1>2

LEMMA CellsFill ==
    ASSUME NEW spans \in RowPresets \cup {<<GridUnits>>}, NEW held,
           \A j \in DOMAIN spans : held[j] \in Nat
    PROVE  LET cells == [j \in DOMAIN spans |-> Cell(spans[j], held[j])] IN
           /\ cells \in Seq(Cells) /\ Len(cells) = Len(spans) /\ DOMAIN cells = 1..Len(spans)
           /\ Filled(cells) /\ \A j \in 1..Len(spans) : cells[j].section = held[j]
<1> DEFINE cells == [j \in DOMAIN spans |-> Cell(spans[j], held[j])]
           n == Len(spans)
<1>1. /\ spans \in Seq(1..GridUnits) /\ n \in 1..MaxCells /\ n \in Nat
      /\ DOMAIN spans = 1..n /\ SumFunction(spans) = GridUnits
  BY SpansFill
<1> HIDE DEF n
<1>2. \A j \in 1..n : spans[j] \in 1..GridUnits
  BY <1>1, ElementOfSeq DEF n
<1>3. ASSUME NEW j \in 1..n
      PROVE  cells[j] \in Cells /\ cells[j].section = held[j] /\ cells[j].span = spans[j]
  <2>1. cells[j] = [span |-> spans[j], section |-> held[j]]
    BY <1>1 DEF Cell
  <2>. QED
    BY <1>1, <1>2, <2>1 DEF Cells
<1>4. DOMAIN cells = 1..n
  BY <1>1
<1>5. cells \in [1..n -> Cells]
  BY <1>1, <1>3
<1> HIDE DEF cells
<1>6. cells \in Seq(Cells) /\ Len(cells) = n
  BY <1>1, <1>5
<1>7. [j \in DOMAIN cells |-> cells[j].span] = spans
  <2>1. [j \in DOMAIN cells |-> cells[j].span] = [j \in 1..n |-> spans[j]]
    BY <1>3, <1>4
  <2>2. spans = [j \in 1..n |-> spans[j]]
    BY <1>1
  <2>. QED
    BY <2>1, <2>2
<1>8. Filled(cells)
  BY <1>1, <1>6, <1>7 DEF Filled
<1>. QED
  BY <1>3, <1>4, <1>6, <1>8 DEF cells, n

LEMMA SingleFills ==
    ASSUME NEW s \in Nat
    PROVE  /\ Single(s) \in Seq(Cells) /\ DOMAIN Single(s) = 1..1 /\ Filled(Single(s))
           /\ Single(s)[1].section = s
<1> DEFINE spans == <<GridUnits>>
           held == [j \in 1..1 |-> s]
           cells == [j \in DOMAIN spans |-> Cell(spans[j], held[j])]
<1>1. DOMAIN spans = 1..1 /\ Len(spans) = 1 /\ spans[1] = GridUnits
  BY DEF GridUnits
<1>2. cells = Single(s)
  <2>1. \A j \in 1..1 : cells[j] = Cell(GridUnits, s)
    BY <1>1
  <2>2. Single(s) = [j \in 1..1 |-> Cell(GridUnits, s)]
    BY DEF Single
  <2>. QED
    BY <1>1, <2>1, <2>2
<1>3. /\ cells \in Seq(Cells) /\ Len(cells) = Len(spans) /\ DOMAIN cells = 1..Len(spans)
      /\ Filled(cells) /\ \A j \in 1..Len(spans) : cells[j].section = held[j]
  <2>1. spans \in RowPresets \cup {<<GridUnits>>} /\ \A j \in DOMAIN spans : held[j] \in Nat
    BY <1>1
  <2> HIDE DEF spans, held
  <2>. QED
    BY <2>1, CellsFill
<1> HIDE DEF cells
<1>. QED
  BY <1>1, <1>2, <1>3

\* A container at the end, or in the place of another.
LEMMA BoxAppended ==
    ASSUME NEW cs, Boxes(cs), NEW cells \in Seq(Cells), Filled(cells)
    PROVE  LET new == Append(cs, cells) IN
           /\ Boxes(new) /\ (AllFilled(cs) => AllFilled(new))
           /\ DOMAIN new = 1..(Len(cs) + 1) /\ new[Len(cs) + 1] = cells
           /\ \A c \in DOMAIN cs : c \in DOMAIN new /\ new[c] = cs[c] /\ c # Len(cs) + 1
<1> DEFINE new == Append(cs, cells)
           l == Len(cs)
<1>1. l \in Nat /\ DOMAIN cs = 1..l /\ cs \in Seq(Seq(Cells))
  BY BoxIs DEF Boxes
<1>2. /\ new \in Seq(Seq(Cells)) /\ Len(new) = l + 1 /\ new[l + 1] = cells
      /\ \A c \in 1..l : new[c] = cs[c]
  BY <1>1
<1>3. DOMAIN new = 1..(l + 1)
  BY <1>2, LenProperties
<1> HIDE DEF new, l
<1>4. ASSUME AllFilled(cs), NEW c \in 1..(l + 1) PROVE Filled(new[c])
  <2>1. CASE c = l + 1
    BY <1>2, <2>1
  <2>2. CASE c # l + 1
    <3>1. c \in 1..l
      BY <1>1, <2>2
    <3>. QED
      BY <1>1, <1>2, <1>4, <3>1 DEF AllFilled
  <2>. QED
    BY <2>1, <2>2
<1>5. \A c \in 1..l : c \in 1..(l + 1) /\ c # l + 1
  BY <1>1
<1>. QED
  BY <1>1, <1>2, <1>3, <1>4, <1>5 DEF Boxes, AllFilled, new, l

LEMMA BoxReplaced ==
    ASSUME NEW cs, Boxes(cs), NEW c \in DOMAIN cs, NEW cells \in Seq(Cells),
           Filled(cells) \/ (Filled(cs[c]) => Filled(cells))
    PROVE  LET new == [cs EXCEPT ![c] = cells] IN
           /\ Boxes(new) /\ (AllFilled(cs) => AllFilled(new))
           /\ DOMAIN new = DOMAIN cs /\ new[c] = cells
           /\ \A d \in DOMAIN cs : d # c => new[d] = cs[d]
<1> DEFINE new == [cs EXCEPT ![c] = cells]
<1>1. c \in 1..Len(cs) /\ cs \in Seq(Seq(Cells)) /\ DOMAIN cs = 1..Len(cs)
  BY BoxIs DEF Boxes
<1>2. new \in Seq(Seq(Cells))
  BY <1>1, ExceptSeq
<1>3. /\ DOMAIN new = DOMAIN cs /\ new[c] = cells
      /\ \A d \in DOMAIN cs : d # c => new[d] = cs[d]
  OBVIOUS
<1> HIDE DEF new
<1>4. AllFilled(cs) => AllFilled(new)
  BY <1>3 DEF AllFilled
<1>. QED
  BY <1>2, <1>3, <1>4 DEF Boxes, new

\* One cell that holds something else.
SetCell(cs, c, j, x) == [cs EXCEPT ![c][j].section = x]

LEMMA CellSet ==
    ASSUME NEW cs, Boxes(cs), NEW c \in DOMAIN cs, NEW j \in DOMAIN cs[c], NEW x \in Nat
    PROVE  LET new == SetCell(cs, c, j, x) IN
           /\ Boxes(new) /\ (AllFilled(cs) => AllFilled(new))
           /\ DOMAIN new = DOMAIN cs
           /\ \A d \in DOMAIN cs : DOMAIN new[d] = DOMAIN cs[d]
           /\ \A d \in DOMAIN cs : \A k \in DOMAIN cs[d] :
                  new[d][k].section = IF d = c /\ k = j THEN x ELSE cs[d][k].section
<1> DEFINE cell == [cs[c][j] EXCEPT !.section = x]
           cells == [cs[c] EXCEPT ![j] = cell]
           new == SetCell(cs, c, j, x)
<1>1. /\ cs[c] \in Seq(Cells) /\ Len(cs[c]) \in Nat /\ DOMAIN cs[c] = 1..Len(cs[c])
      /\ cs[c][j] \in Cells
  BY BoxIs
<1>2. cell \in Cells /\ cell.section = x /\ cell.span = cs[c][j].span
  <2>1. cs[c][j] = [span |-> cs[c][j].span, section |-> cs[c][j].section]
    BY <1>1 DEF Cells
  <2>2. cell = [span |-> cs[c][j].span, section |-> x]
    BY <2>1
  <2>. QED
    BY <1>1, <2>2 DEF Cells
<1> HIDE DEF cell
<1>3. cells \in Seq(Cells) /\ Len(cells) = Len(cs[c])
  BY <1>1, <1>2, ExceptSeq
<1>4. /\ DOMAIN cells = DOMAIN cs[c] /\ cells[j] = cell
      /\ \A k \in DOMAIN cs[c] : k # j => cells[k] = cs[c][k]
  OBVIOUS
<1> HIDE DEF cells
<1>5. Filled(cs[c]) => Filled(cells)
  <2>1. [k \in DOMAIN cells |-> cells[k].span] = [k \in DOMAIN cs[c] |-> cs[c][k].span]
    BY <1>2, <1>4
  <2>. QED
    BY <1>3, <2>1 DEF Filled
<1>6. new = [cs EXCEPT ![c] = cells]
  BY DEF cells, cell, SetCell
<1> HIDE DEF new
<1>7. /\ Boxes(new) /\ (AllFilled(cs) => AllFilled(new))
      /\ DOMAIN new = DOMAIN cs /\ new[c] = cells
      /\ \A d \in DOMAIN cs : d # c => new[d] = cs[d]
  <2> DEFINE w == [cs EXCEPT ![c] = cells]
  <2>1. /\ Boxes(w) /\ (AllFilled(cs) => AllFilled(w))
        /\ DOMAIN w = DOMAIN cs /\ w[c] = cells
        /\ \A d \in DOMAIN cs : d # c => w[d] = cs[d]
    BY <1>3, <1>5, BoxReplaced
  <2> HIDE DEF w
  <2>. QED
    BY <1>6, <2>1 DEF w
<1>8. \A d \in DOMAIN cs : DOMAIN new[d] = DOMAIN cs[d]
  BY <1>4, <1>7
<1>9. ASSUME NEW d \in DOMAIN cs, NEW k \in DOMAIN cs[d]
      PROVE  new[d][k].section = IF d = c /\ k = j THEN x ELSE cs[d][k].section
  <2>1. CASE d # c
    BY <1>7, <2>1
  <2>2. CASE d = c /\ k = j
    BY <1>2, <1>4, <1>7, <2>2
  <2>3. CASE d = c /\ k # j
    BY <1>4, <1>7, <2>3
  <2>. QED
    BY <2>1, <2>2, <2>3
<1>. QED
  BY <1>7, <1>8, <1>9 DEF new

\* The containers hold every section once, and fill the width as long as no member
\* of a row was cleared.
ContsOK ==
    /\ Boxes(conts) /\ Once(conts, Ids)
    /\ ~cleared => AllFilled(conts)

LEMMA WrittenRowsAreKept ==
    ASSUME NEW ss, WriteRows(ss), Sections(secs'), ~cleared' => WholeRows(secs')
    PROVE  ContsOK'
<1>1. conts' = Rebuilt(secs') /\ secs' = ss
  BY DEF WriteRows
<1>2. Sections(ss) /\ (~cleared' => WholeRows(ss))
  BY <1>1
<1>3. Boxes(Rebuilt(ss)) /\ Once(Rebuilt(ss), DOMAIN ss) /\ (WholeRows(ss) => AllFilled(Rebuilt(ss)))
  BY <1>2, RebuiltMakes
<1>. QED
  BY <1>1, <1>2, <1>3 DEF ContsOK, Ids

\* An operation that leaves the sections and cleared as they are.
LEMMA PlacedAreKept ==
    ASSUME UNCHANGED <<secs, cleared>>, Boxes(conts'), Once(conts', Ids),
           ~cleared => AllFilled(conts')
    PROVE  ContsOK'
BY DEF ContsOK, Ids

LEMMA NoSectionIsNone == ASSUME SecsOK PROVE NoSection \notin Ids /\ Ids \subseteq Nat
BY PageIsBounded DEF SecsOK, NoSection

LEMMA ContainerAddKeeps ==
    ASSUME SecsOK, ContsOK, NEW spans \in RowPresets \cup {<<GridUnits>>}, ContainerAdd(spans)
    PROVE  ContsOK'
<1> DEFINE held == [j \in DOMAIN spans |-> NoSection]
           cells == [j \in DOMAIN spans |-> Cell(spans[j], held[j])]
<1>1. cells = EmptyCells(spans)
  BY DEF EmptyCells
<1>2. /\ cells \in Seq(Cells) /\ Len(cells) = Len(spans) /\ DOMAIN cells = 1..Len(spans)
      /\ Filled(cells) /\ \A j \in 1..Len(spans) : cells[j].section = held[j]
  <2>1. \A j \in DOMAIN spans : held[j] \in Nat
    BY DEF NoSection
  <2> HIDE DEF held
  <2>. QED
    BY <2>1, CellsFill
<1>3. DOMAIN spans = 1..Len(spans)
  BY SpansFill
<1>4. \A j \in DOMAIN cells : cells[j].section = NoSection
  BY <1>2, <1>3
<1> HIDE DEF cells
<1>5. conts' = Append(conts, cells) /\ UNCHANGED <<secs, cleared>>
  BY <1>1 DEF ContainerAdd
<1>6. /\ Boxes(conts') /\ (AllFilled(conts) => AllFilled(conts'))
      /\ DOMAIN conts' = 1..(Len(conts) + 1) /\ conts'[Len(conts) + 1] = cells
      /\ \A c \in DOMAIN conts : c \in DOMAIN conts' /\ conts'[c] = conts[c] /\ c # Len(conts) + 1
  BY <1>2, <1>5, BoxAppended DEF ContsOK
<1>7. Len(conts) \in Nat /\ DOMAIN conts = 1..Len(conts)
  BY BoxIs DEF ContsOK
<1>8. Once(conts', Ids)
  <2>1. PICK cs, new : cs = conts /\ new = conts'
    OBVIOUS
  <2>2. \A c \in DOMAIN new : c # Len(cs) + 1 => c \in DOMAIN cs
    BY <1>6, <1>7, <2>1
  <2>3. \A c \in DOMAIN new : \A j \in DOMAIN new[c] : new[c][j].section # NoSection =>
            c \in DOMAIN cs /\ j \in DOMAIN cs[c] /\ cs[c][j].section = new[c][j].section
    BY <1>4, <1>6, <2>1, <2>2
  <2>4. \A c \in DOMAIN cs : \A j \in DOMAIN cs[c] : cs[c][j].section # NoSection =>
            c \in DOMAIN new /\ j \in DOMAIN new[c] /\ cs[c][j].section = new[c][j].section
    BY <1>6, <2>1
  <2>5. Once(cs, Ids) /\ NoSection \notin Ids
    BY <2>1, NoSectionIsNone DEF ContsOK
  <2>6. Once(new, Ids)
    BY <2>3, <2>4, <2>5, PlacesStay
  <2>. QED
    BY <2>1, <2>6
<1>. QED
  BY <1>5, <1>6, <1>8, PlacedAreKept DEF ContsOK

LEMMA ContainerLayoutKeeps ==
    ASSUME SecsOK, ContsOK, NEW spans \in RowPresets \cup {<<GridUnits>>},
           NEW c \in DOMAIN conts, ContainerLayout(c, spans)
    PROVE  ContsOK'
<1> DEFINE held == [j \in DOMAIN spans |->
                       IF j <= Len(conts[c]) THEN conts[c][j].section ELSE NoSection]
           cells == [j \in DOMAIN spans |-> Cell(spans[j], held[j])]
<1>1. cells = LaidOut(conts[c], spans)
  BY DEF LaidOut
<1>2. /\ DOMAIN spans = 1..Len(spans) /\ Len(spans) \in Nat
      /\ Len(conts[c]) \in Nat /\ DOMAIN conts[c] = 1..Len(conts[c])
      /\ \A j \in DOMAIN conts[c] : conts[c][j].section \in Nat
  BY SpansFill, BoxIs DEF ContsOK, Cells
<1>3. /\ cells \in Seq(Cells) /\ Len(cells) = Len(spans) /\ DOMAIN cells = 1..Len(spans)
      /\ Filled(cells) /\ \A j \in 1..Len(spans) : cells[j].section = held[j]
  <2>1. \A j \in DOMAIN spans : held[j] \in Nat
    BY <1>2 DEF NoSection
  <2> HIDE DEF held
  <2>. QED
    BY <2>1, CellsFill
<1>4. ASSUME NEW j \in DOMAIN cells, cells[j].section # NoSection
      PROVE  j \in DOMAIN conts[c] /\ cells[j].section = conts[c][j].section
  BY <1>2, <1>3, <1>4
<1>5. ASSUME NEW j \in DOMAIN conts[c], conts[c][j].section # NoSection
      PROVE  j \in DOMAIN cells /\ cells[j].section = conts[c][j].section
  <2>1. ~(j > Len(spans))
    BY <1>5 DEF ContainerLayout, Shrinkable
  <2>2. j \in 1..Len(spans)
    BY <1>2, <2>1
  <2>. QED
    BY <1>2, <1>3, <2>2
<1> HIDE DEF cells
<1>6. conts' = [conts EXCEPT ![c] = cells] /\ UNCHANGED <<secs, cleared>>
  BY <1>1 DEF ContainerLayout
<1>7. /\ Boxes(conts') /\ (AllFilled(conts) => AllFilled(conts'))
      /\ DOMAIN conts' = DOMAIN conts /\ conts'[c] = cells
      /\ \A d \in DOMAIN conts : d # c => conts'[d] = conts[d]
  BY <1>3, <1>6, BoxReplaced DEF ContsOK
<1>8. Once(conts', Ids)
  <2>1. PICK cs, new : cs = conts /\ new = conts'
    OBVIOUS
  <2>2. \A d \in DOMAIN new : \A j \in DOMAIN new[d] : new[d][j].section # NoSection =>
            d \in DOMAIN cs /\ j \in DOMAIN cs[d] /\ cs[d][j].section = new[d][j].section
    BY <1>4, <1>7, <2>1
  <2>3. \A d \in DOMAIN cs : \A j \in DOMAIN cs[d] : cs[d][j].section # NoSection =>
            d \in DOMAIN new /\ j \in DOMAIN new[d] /\ cs[d][j].section = new[d][j].section
    BY <1>5, <1>7, <2>1
  <2>4. Once(cs, Ids) /\ NoSection \notin Ids
    BY <2>1, NoSectionIsNone DEF ContsOK
  <2>5. Once(new, Ids)
    BY <2>2, <2>3, <2>4, PlacesStay
  <2>. QED
    BY <2>1, <2>5
<1>. QED
  BY <1>6, <1>7, <1>8, PlacedAreKept DEF ContsOK

LEMMA ContainerMoveKeeps ==
    ASSUME SecsOK, ContsOK, NEW c \in DOMAIN conts, NEW d \in {-1, 1}, ContainerMove(c, d)
    PROVE  ContsOK'
<1> DEFINE other == c + d
           from == [e \in DOMAIN conts |-> IF e = c THEN other ELSE IF e = other THEN c ELSE e]
<1>1. /\ Len(conts) \in Nat /\ DOMAIN conts = 1..Len(conts) /\ conts \in Seq(Seq(Cells))
      /\ \A e \in DOMAIN conts : conts[e] \in Seq(Cells)
  BY BoxIs DEF ContsOK, Boxes
<1>2. /\ other \in DOMAIN conts /\ other # c /\ UNCHANGED <<secs, cleared>>
      /\ conts' = [conts EXCEPT ![c] = conts[other], ![other] = conts[c]]
  BY <1>1 DEF ContainerMove
<1> HIDE DEF other
<1>3. /\ DOMAIN conts' = DOMAIN conts /\ \A e \in DOMAIN conts : conts'[e] = conts[from[e]]
      /\ \A e \in DOMAIN conts : from[e] \in DOMAIN conts
      /\ \A e, f \in DOMAIN conts : from[e] = from[f] => e = f
      /\ \A e \in DOMAIN conts : from[from[e]] = e
  BY <1>2
<1> HIDE DEF from
<1>4. Boxes(conts')
  <2>1. PICK x, y : x = conts[other] /\ y = conts[c]
    OBVIOUS
  <2>2. x \in Seq(Cells) /\ y \in Seq(Cells) /\ c \in 1..Len(conts) /\ other \in 1..Len(conts)
    BY <1>1, <1>2, <2>1
  <2> DEFINE half == [conts EXCEPT ![c] = x]
  <2>3. half \in Seq(Seq(Cells)) /\ Len(half) = Len(conts)
    BY <1>1, <2>2, ExceptSeq
  <2>4. conts' = [half EXCEPT ![other] = y]
    BY <1>2, <2>1
  <2> HIDE DEF half
  <2>5. conts' \in Seq(Seq(Cells))
    BY <2>2, <2>3, <2>4, ExceptSeq
  <2>. QED
    BY <2>5 DEF Boxes
<1>5. ~cleared => AllFilled(conts')
  BY <1>3 DEF ContsOK, AllFilled
<1>6. Once(conts', Ids)
  <2>1. PICK cs, new : cs = conts /\ new = conts'
    OBVIOUS
  <2>2. \A e \in DOMAIN new : from[e] \in DOMAIN cs /\ new[e] = cs[from[e]]
    BY <1>3, <2>1
  <2>3. \A e, f \in DOMAIN new : from[e] = from[f] => e = f
    BY <1>3, <2>1
  <2>4. \A e \in DOMAIN cs : \A j \in DOMAIN cs[e] : cs[e][j].section # NoSection =>
            \E f \in DOMAIN new : from[f] = e
    BY <1>3, <2>1
  <2>5. Once(cs, Ids) /\ NoSection \notin Ids
    BY <2>1, NoSectionIsNone DEF ContsOK
  <2>6. Once(new, Ids)
    BY <2>2, <2>3, <2>4, <2>5, PlacesMove
  <2>. QED
    BY <2>1, <2>6
<1>. QED
  BY <1>2, <1>4, <1>5, <1>6, PlacedAreKept

\* The list without one of its members.
LEMMA RemovedAt ==
    ASSUME NEW S, NEW list \in Seq(S), NEW i \in 1..Len(list)
    PROVE  /\ RemoveAt(list, i) \in Seq(S) /\ Len(RemoveAt(list, i)) = Len(list) - 1
           /\ \A k \in 1..(Len(list) - 1) :
                  RemoveAt(list, i)[k] = IF k < i THEN list[k] ELSE list[k + 1]
<1> DEFINE n == Len(list)
           p == SubSeq(list, 1, i - 1)
           q == SubSeq(list, i + 1, n)
<1>1. n \in Nat /\ i \in 1..n /\ \A k \in 1..n : list[k] \in S
  BY ElementOfSeq, LenProperties
<1>2. p \in Seq(S) /\ Len(p) = i - 1 /\ \A k \in 1..(i - 1) : p[k] = list[k]
  <2>1. PICK m : m = i - 1
    OBVIOUS
  <2>2. m \in Nat /\ m \in Int /\ 1 \in Int /\ \A k \in 1..m : list[k] \in S
    BY <1>1, <2>1
  <2> DEFINE w == SubSeq(list, 1, m)
  <2>3. /\ w \in Seq(S) /\ Len(w) = (IF 1 <= m THEN m - 1 + 1 ELSE 0)
        /\ \A k \in 1..(m - 1 + 1) : w[k] = list[1 + k - 1]
    BY <2>2, SubSeqProperties
  <2> HIDE DEF w
  <2>4. Len(w) = m
    BY <2>2, <2>3
  <2>5. \A k \in 1..m : k \in 1..(m - 1 + 1) /\ 1 + k - 1 = k
    BY <2>2
  <2>. QED
    BY <2>1, <2>3, <2>4, <2>5 DEF w
<1>3. q \in Seq(S) /\ Len(q) = n - i /\ \A k \in 1..(n - i) : q[k] = list[i + k]
  <2>1. PICK m : m = i + 1
    OBVIOUS
  <2>2. m \in Int /\ n \in Int /\ \A k \in m..n : list[k] \in S
    BY <1>1, <2>1
  <2> DEFINE w == SubSeq(list, m, n)
  <2>3. /\ w \in Seq(S) /\ Len(w) = (IF m <= n THEN n - m + 1 ELSE 0)
        /\ \A k \in 1..(n - m + 1) : w[k] = list[m + k - 1]
    <3> HIDE DEF n
    <3>. QED
      BY <2>2, SubSeqProperties
  <2> HIDE DEF w, n
  <2>4. Len(w) = n - i
    BY <1>1, <2>1, <2>3
  <2>5. \A k \in 1..(n - i) : k \in 1..(n - m + 1) /\ m + k - 1 = i + k
    BY <1>1, <2>1
  <2>. QED
    BY <2>1, <2>3, <2>4, <2>5 DEF w, n
<1>4. RemoveAt(list, i) = p \o q
  BY DEF RemoveAt
<1> HIDE DEF p, q, n
<1>5. /\ p \o q \in Seq(S) /\ Len(p \o q) = Len(p) + Len(q)
      /\ \A k \in 1..(Len(p) + Len(q)) :
             (p \o q)[k] = IF k <= Len(p) THEN p[k] ELSE q[k - Len(p)]
  BY <1>2, <1>3, ConcatProperties
<1>6. Len(p \o q) = n - 1
  BY <1>1, <1>2, <1>3, <1>5
<1>7. ASSUME NEW k \in 1..(n - 1)
      PROVE  (p \o q)[k] = IF k < i THEN list[k] ELSE list[k + 1]
  <2>1. k \in 1..(Len(p) + Len(q))
    BY <1>1, <1>2, <1>3
  <2>2. CASE k < i
    <3>1. k \in 1..(i - 1) /\ k <= Len(p)
      BY <1>1, <1>2, <2>2
    <3>. QED
      BY <1>2, <1>5, <2>1, <2>2, <3>1
  <2>3. CASE ~(k < i)
    <3>1. ~(k <= Len(p)) /\ k - Len(p) \in 1..(n - i) /\ i + (k - Len(p)) = k + 1
      BY <1>1, <1>2, <2>3
    <3>. QED
      BY <1>3, <1>5, <2>1, <2>3, <3>1
  <2>. QED
    BY <2>2, <2>3
<1>. QED
  BY <1>4, <1>5, <1>6, <1>7 DEF n

LEMMA ContainerRemoveKeeps ==
    ASSUME SecsOK, ContsOK, NEW c \in DOMAIN conts, ContainerRemove(c)
    PROVE  ContsOK'
<1> DEFINE n == Len(conts)
           from == [e \in 1..(n - 1) |-> IF e < c THEN e ELSE e + 1]
<1>1. n \in Nat /\ DOMAIN conts = 1..n /\ conts \in Seq(Seq(Cells)) /\ c \in 1..n
  BY BoxIs DEF ContsOK, Boxes
<1>2. /\ conts' = RemoveAt(conts, c) /\ UNCHANGED <<secs, cleared>>
      /\ \A j \in DOMAIN conts[c] : conts[c][j].section = NoSection
  BY DEF ContainerRemove
<1>3. /\ conts' \in Seq(Seq(Cells)) /\ Len(conts') = n - 1
      /\ \A k \in 1..(n - 1) : conts'[k] = IF k < c THEN conts[k] ELSE conts[k + 1]
  BY <1>1, <1>2, RemovedAt
<1>4. DOMAIN conts' = 1..(n - 1)
  BY <1>3, LenProperties
<1> HIDE DEF n
<1>5. \A e \in 1..(n - 1) : from[e] \in DOMAIN conts /\ conts'[e] = conts[from[e]]
  BY <1>1, <1>3
<1>6. \A e, f \in 1..(n - 1) : from[e] = from[f] => e = f
  BY <1>1
<1>7. ASSUME NEW e \in 1..n, e # c PROVE \E f \in 1..(n - 1) : from[f] = e
  <2>1. CASE e < c
    <3>1. e \in 1..(n - 1) /\ from[e] = e
      BY <1>1, <2>1
    <3>. QED
      BY <3>1
  <2>2. CASE ~(e < c)
    <3>1. e - 1 \in 1..(n - 1) /\ ~(e - 1 < c) /\ (e - 1) + 1 = e
      BY <1>1, <1>7, <2>2
    <3>2. from[e - 1] = e
      BY <3>1
    <3>. QED
      BY <3>1, <3>2
  <2>. QED
    BY <2>1, <2>2
<1> HIDE DEF from
<1>8. ~cleared => AllFilled(conts')
  BY <1>4, <1>5 DEF ContsOK, AllFilled
<1>9. Once(conts', Ids)
  <2>1. PICK cs, new : cs = conts /\ new = conts'
    OBVIOUS
  <2>2. \A e \in DOMAIN new : from[e] \in DOMAIN cs /\ new[e] = cs[from[e]]
    BY <1>4, <1>5, <2>1
  <2>3. \A e, f \in DOMAIN new : from[e] = from[f] => e = f
    BY <1>4, <1>6, <2>1
  <2>4. \A e \in DOMAIN cs : \A j \in DOMAIN cs[e] : cs[e][j].section # NoSection =>
            \E f \in DOMAIN new : from[f] = e
    BY <1>1, <1>2, <1>4, <1>7, <2>1
  <2>5. Once(cs, Ids) /\ NoSection \notin Ids
    BY <2>1, NoSectionIsNone DEF ContsOK
  <2>6. Once(new, Ids)
    BY <2>2, <2>3, <2>4, <2>5, PlacesMove
  <2>. QED
    BY <2>1, <2>6
<1>. QED
  BY <1>2, <1>3, <1>8, <1>9, PlacedAreKept DEF Boxes

\* A new section takes the place it is given.
LEMMA FreshIsAdded ==
    ASSUME SecsOK
    PROVE  /\ DOMAIN With(Fresh, Standalone(NextOrder)) = Ids \cup {Fresh}
           /\ Fresh \in Nat /\ Fresh \notin Ids /\ Fresh # NoSection
BY FreshIsNew DEF With, NoSection

LEMMA CellAddKeeps ==
    ASSUME SecsOK, ContsOK, NEW c \in DOMAIN conts, NEW j \in DOMAIN conts[c], CellAdd(c, j)
    PROVE  ContsOK'
<1>1. /\ conts[c][j].section = NoSection /\ secs' = With(Fresh, Standalone(NextOrder))
      /\ conts' = [conts EXCEPT ![c][j].section = Fresh] /\ UNCHANGED cleared
  BY DEF CellAdd
<1>2. /\ DOMAIN secs' = Ids \cup {Fresh}
      /\ Fresh \in Nat /\ Fresh \notin Ids /\ Fresh # NoSection
  BY <1>1, FreshIsAdded
<1>3. PICK cs, new, x : cs = conts /\ new = conts' /\ x = Fresh
  OBVIOUS
<1>4. Boxes(cs) /\ Once(cs, Ids) /\ NoSection \notin Ids /\ x \in Nat
  BY <1>2, <1>3, NoSectionIsNone DEF ContsOK
<1>5. /\ c \in DOMAIN cs /\ j \in DOMAIN cs[c] /\ new = SetCell(cs, c, j, x)
      /\ cs[c][j].section = NoSection
  BY <1>1, <1>3 DEF SetCell
<1>6. /\ Boxes(new) /\ (AllFilled(cs) => AllFilled(new))
      /\ DOMAIN new = DOMAIN cs
      /\ \A d \in DOMAIN cs : DOMAIN new[d] = DOMAIN cs[d]
      /\ \A d \in DOMAIN cs : \A k \in DOMAIN cs[d] :
             new[d][k].section = IF d = c /\ k = j THEN x ELSE cs[d][k].section
  BY <1>4, <1>5, CellSet
<1>7. Once(new, Ids \cup {x})
  <2>1. c \in DOMAIN new /\ j \in DOMAIN new[c] /\ new[c][j].section = x
    BY <1>5, <1>6
  <2>2. \A d \in DOMAIN new : \A k \in DOMAIN new[d] :
            (d # c \/ k # j) /\ new[d][k].section # NoSection =>
                d \in DOMAIN cs /\ k \in DOMAIN cs[d] /\ cs[d][k].section = new[d][k].section
    BY <1>6
  <2>3. \A d \in DOMAIN cs : \A k \in DOMAIN cs[d] : cs[d][k].section # NoSection =>
            d \in DOMAIN new /\ k \in DOMAIN new[d] /\ cs[d][k].section = new[d][k].section
    BY <1>5, <1>6
  <2>. QED
    BY <1>2, <1>3, <1>4, <2>1, <2>2, <2>3, PlaceGiven
<1>. QED
  BY <1>1, <1>2, <1>3, <1>6, <1>7 DEF ContsOK, Ids

LEMMA AddedContainerKeeps ==
    ASSUME SecsOK, ContsOK, secs' = With(Fresh, Standalone(NextOrder)),
           conts' = Append(conts, Single(Fresh)), UNCHANGED cleared
    PROVE  ContsOK'
<1>1. /\ DOMAIN secs' = Ids \cup {Fresh}
      /\ Fresh \in Nat /\ Fresh \notin Ids /\ Fresh # NoSection
  BY FreshIsAdded
<1>2. PICK cs, new, x, cells :
          cs = conts /\ new = conts' /\ x = Fresh /\ cells = Single(Fresh)
  OBVIOUS
<1>3. Boxes(cs) /\ Once(cs, Ids) /\ NoSection \notin Ids /\ x \in Nat
  BY <1>1, <1>2, NoSectionIsNone DEF ContsOK
<1>4. cells \in Seq(Cells) /\ DOMAIN cells = 1..1 /\ Filled(cells) /\ cells[1].section = x
  BY <1>1, <1>2, SingleFills
<1>5. /\ Boxes(new) /\ (AllFilled(cs) => AllFilled(new))
      /\ DOMAIN new = 1..(Len(cs) + 1) /\ new[Len(cs) + 1] = cells
      /\ \A c \in DOMAIN cs : c \in DOMAIN new /\ new[c] = cs[c] /\ c # Len(cs) + 1
  BY <1>2, <1>3, <1>4, BoxAppended
<1>6. Once(new, Ids \cup {x})
  <2>1. PICK at, one : at = Len(cs) + 1 /\ one = 1
    OBVIOUS
  <2>2. at \in DOMAIN new /\ new[at] = cells /\ \A c \in DOMAIN new : c # at => c \in DOMAIN cs
    BY <1>3, <1>5, <2>1, BoxIs
  <2>3. one \in DOMAIN new[at] /\ new[at][one].section = x /\ \A j \in DOMAIN new[at] : j = one
    BY <1>4, <2>1, <2>2
  <2>4. \A c \in DOMAIN new : \A j \in DOMAIN new[c] :
            (c # at \/ j # one) /\ new[c][j].section # NoSection =>
                c \in DOMAIN cs /\ j \in DOMAIN cs[c] /\ cs[c][j].section = new[c][j].section
    BY <1>5, <2>2, <2>3
  <2>5. \A c \in DOMAIN cs : \A j \in DOMAIN cs[c] : cs[c][j].section # NoSection =>
            c \in DOMAIN new /\ j \in DOMAIN new[c] /\ cs[c][j].section = new[c][j].section
    BY <1>5
  <2>. QED
    <3>1. /\ at \in DOMAIN new /\ one \in DOMAIN new[at] /\ new[at][one].section = x
          /\ Once(cs, Ids) /\ NoSection \notin Ids /\ x \notin Ids /\ x # NoSection
      BY <1>1, <1>2, <1>3, <2>2, <2>3
    <3>. QED
      BY <2>4, <2>5, <3>1, PlaceGiven
<1>. QED
  BY <1>1, <1>2, <1>5, <1>6 DEF ContsOK, Ids

LEMMA CellClearKeeps ==
    ASSUME SecsOK, ContsOK, cleared \in BOOLEAN,
           NEW c \in DOMAIN conts, NEW j \in DOMAIN conts[c], CellClear(c, j)
    PROVE  ContsOK'
<1>1. PICK cs, new, s : cs = conts /\ new = conts' /\ s = conts[c][j].section
  OBVIOUS
<1>2. /\ s # NoSection /\ secs' = Restrict(secs, Ids \ {s})
      /\ conts' = [conts EXCEPT ![c][j].section = NoSection]
      /\ ~cleared' => ~cleared
  BY <1>1 DEF CellClear, Vacated
<1>3. DOMAIN secs' = Ids \ {s}
  BY <1>2 DEF Restrict
<1>4. Boxes(cs) /\ Once(cs, Ids) /\ NoSection \notin Ids /\ NoSection \in Nat
  BY <1>1, NoSectionIsNone DEF ContsOK, NoSection
<1>5. /\ c \in DOMAIN cs /\ j \in DOMAIN cs[c] /\ new = SetCell(cs, c, j, NoSection)
      /\ cs[c][j].section = s
  BY <1>1, <1>2 DEF SetCell
<1>6. s \in Ids
  BY <1>2, <1>4, <1>5 DEF Once
<1>7. /\ Boxes(new) /\ (AllFilled(cs) => AllFilled(new))
      /\ DOMAIN new = DOMAIN cs
      /\ \A d \in DOMAIN cs : DOMAIN new[d] = DOMAIN cs[d]
      /\ \A d \in DOMAIN cs : \A k \in DOMAIN cs[d] :
             new[d][k].section = IF d = c /\ k = j THEN NoSection ELSE cs[d][k].section
  BY <1>4, <1>5, CellSet
<1>8. Once(new, Ids \ {s})
  BY <1>4, <1>5, <1>6, <1>7, PlaceTaken
<1>. QED
  BY <1>1, <1>2, <1>3, <1>7, <1>8 DEF ContsOK, Ids

\* The inductive invariant of a page.
PageInv ==
    /\ SecsOK
    /\ cleared \in BOOLEAN
    /\ ~cleared => WholeRows(secs)
    /\ ContsOK

LEMMA ContainersAreKept ==
    ASSUME PageInv, [PageNext]_pageVars
    PROVE  ContsOK'
<1>1. SecsOK /\ ContsOK /\ cleared \in BOOLEAN
  BY DEF PageInv
<1>2. Sections(secs')
  BY <1>1, EveryStepIsLawful, LawfulIsSections
<1>3. ~cleared' => WholeRows(secs')
  BY RowsKeepWhole DEF PageInv, ContsOK
<1>4. ASSUME NEW ss, WriteRows(ss) PROVE ContsOK'
  BY <1>2, <1>3, <1>4, WrittenRowsAreKept
<1>5. ASSUME NEW k \in 1..(Cardinality(Ids) + 1), SectionAdd(k) PROVE ContsOK'
  BY <1>4, <1>5 DEF SectionAdd
<1>6. ASSUME NEW s \in Ids, SectionRemove(s) \/ RowFull(s) PROVE ContsOK'
  BY <1>4, <1>6 DEF SectionRemove, RowFull
<1>7. ASSUME NEW s \in Ids, LockToggle(s) PROVE ContsOK'
  <2>1. DOMAIN secs' = Ids /\ UNCHANGED <<conts, cleared>>
    BY <1>7 DEF LockToggle, Ids
  <2>. QED
    BY <1>1, <2>1 DEF ContsOK, Ids
<1>8. ASSUME NEW s \in Ids, Duplicate(s) PROVE ContsOK'
  BY <1>1, <1>8, AddedContainerKeeps DEF Duplicate, PlaceCopy
<1>9. ASSUME NEW s \in Ids, NEW spans \in RowPresets, RowGroup(s, spans) \/ RowReshape(s, spans)
      PROVE  ContsOK'
  BY <1>4, <1>9 DEF RowGroup, RowReshape
<1>10. ASSUME NEW s \in Ids, NEW d \in {-1, 1}, Move(s, d) PROVE ContsOK'
  BY <1>4, <1>10 DEF Move
<1>11. ASSUME NEW listed \in SUBSET Ids, NEW list \in SetToSeqs(listed), Reorder(list)
       PROVE  ContsOK'
  BY <1>4, <1>11 DEF Reorder
<1>12. ASSUME ApplyPreset PROVE ContsOK'
  BY <1>4, <1>12 DEF ApplyPreset
<1>13. ASSUME NEW spans \in RowPresets \cup {<<GridUnits>>},
              ContainerAdd(spans) \/ \E c \in DOMAIN conts : ContainerLayout(c, spans)
       PROVE  ContsOK'
  BY <1>1, <1>13, ContainerAddKeeps, ContainerLayoutKeeps
<1>14. ASSUME NEW c \in DOMAIN conts, ContainerRemove(c) \/ \E d \in {-1, 1} : ContainerMove(c, d)
       PROVE  ContsOK'
  BY <1>1, <1>14, ContainerRemoveKeeps, ContainerMoveKeeps
<1>15. ASSUME NEW c \in DOMAIN conts, NEW j \in DOMAIN conts[c], CellAdd(c, j) \/ CellClear(c, j)
       PROVE  ContsOK'
  BY <1>1, <1>15, CellAddKeeps, CellClearKeeps
<1>16. ASSUME SectionInContainer PROVE ContsOK'
  BY <1>1, <1>16, AddedContainerKeeps DEF SectionInContainer
<1>17. CASE UNCHANGED pageVars
  BY <1>1, <1>17 DEF pageVars, ContsOK, Ids
<1>18. CASE PageNext
  BY <1>5, <1>6, <1>7, <1>8, <1>9, <1>10, <1>11, <1>12, <1>13, <1>14, <1>15, <1>16, <1>18
     DEF PageNext
<1>. QED
  BY <1>17, <1>18

LEMMA PageStart == ASSUME PageInit PROVE PageInv
<1>1. /\ secs = [s \in 1..Bootstrap |-> Standalone(s - 1)]
      /\ conts = Rebuilt(secs) /\ cleared = FALSE
  BY DEF PageInit
<1>2. SecsOK /\ Sections(secs)
  BY SecsStart, SecsAreSections
<1>3. \A s \in DOMAIN secs : secs[s].row = NoRow
  BY <1>1 DEF Standalone
<1>4. WholeRows(secs)
  BY <1>3 DEF WholeRows
<1>5. Boxes(Rebuilt(secs)) /\ Once(Rebuilt(secs), Ids) /\ AllFilled(Rebuilt(secs))
  BY <1>2, <1>4, RebuiltMakes DEF Ids
<1>. QED
  BY <1>1, <1>2, <1>4, <1>5 DEF PageInv, ContsOK

\* A section that is in just one cell: the places that hold it are one.
LEMMA OnePlace ==
    ASSUME NEW cs, NEW ids, Once(cs, ids), NEW s \in ids
    PROVE  Cardinality(UNION {{<<c, j>> : j \in {k \in DOMAIN cs[c] : cs[c][k].section = s}}
                                 : c \in DOMAIN cs}) = 1
<1> DEFINE own(c) == {<<c, j>> : j \in {k \in DOMAIN cs[c] : cs[c][k].section = s}}
           all    == {own(c) : c \in DOMAIN cs}
<1>1. PICK at \in DOMAIN cs : \E j \in DOMAIN cs[at] : cs[at][j].section = s
  BY DEF Once
<1>2. PICK cell \in DOMAIN cs[at] : cs[at][cell].section = s
  BY <1>1
<1>3. <<at, cell>> \in own(at) /\ own(at) \in all
  BY <1>2
<1>4. \A c \in DOMAIN cs : \A p \in own(c) : p = <<at, cell>>
  BY <1>2 DEF Once
<1>5. \A o \in all : \A p \in o : p = <<at, cell>>
  BY <1>4
<1> HIDE DEF own
<1>6. UNION all = {<<at, cell>>}
  <2> HIDE DEF all
  <2>. QED
    BY <1>3, <1>5
<1>7. Cardinality(UNION all) = 1
  BY <1>6, FS_Singleton
<1>. QED
  BY <1>7 DEF own

LEMMA PageInvIsSound == ASSUME PageInv PROVE PageSound
<1>1. /\ SecsOK /\ cleared \in BOOLEAN /\ Boxes(conts) /\ Once(conts, Ids)
      /\ NoSection \notin Ids /\ Ids = DOMAIN secs
  BY NoSectionIsNone DEF PageInv, ContsOK, Ids
<1>2. PageTypeOK
  <2>1. ASSUME NEW c \in DOMAIN conts, NEW j \in DOMAIN conts[c]
        PROVE  /\ conts[c][j].span \in 1..GridUnits
               /\ conts[c][j].section \in Ids \cup {NoSection}
    <3>1. conts[c][j] \in Cells
      BY <1>1, BoxIs
    <3>. QED
      BY <1>1, <3>1 DEF Cells, Once
  <2>. QED
    BY <1>1, <2>1 DEF PageTypeOK, SecsOK
<1>3. EverySectionPlaced
  <2>1. conts # <<>> => Ensured(secs, conts) = conts
    BY <1>1, NothingMissing
  <2>. QED
    BY <1>1, <2>1, OnePlace DEF EverySectionPlaced
<1>4. RowsWhole
  BY <1>1, SecsAreSections, WholeIsValid DEF RowsWhole, PageInv
<1>5. ContainersFill
  BY DEF ContainersFill, PageInv, ContsOK, AllFilled, Filled
<1>. QED
  BY <1>2, <1>3, <1>4, <1>5 DEF PageSound

\* However the two layouts of a page are edited, every section is in just one cell,
\* and rows and containers fill the width until a member of a row is cleared.
THEOREM PageIsSound == PageSpec => []PageSound
<1>1. ASSUME PageInv, [PageNext]_pageVars PROVE PageInv'
  <2>1. SecsOK'
    BY <1>1, EveryStepIsLawful DEF PageInv, Lawful, SecsOK, Ids
  <2>2. cleared' \in BOOLEAN /\ (~cleared' => WholeRows(secs'))
    BY <1>1, RowsKeepWhole DEF PageInv, ContsOK
  <2>3. ContsOK'
    BY <1>1, ContainersAreKept
  <2>4. (~cleared => WholeRows(secs))'
    BY <2>2 DEF WholeRows, WholeRow, Members, Width, Together
  <2>. QED
    BY <2>1, <2>2, <2>3, <2>4 DEF PageInv
<1>. QED
  BY <1>1, PageStart, PageInvIsSound, PTL DEF PageSpec
===============================================================================
