--------------------------- MODULE CurationProofs ---------------------------
(***************************************************************************)
(* The curation engine keeps its promises for every folder, every bound on *)
(* the Trash FIFO, every number of scans and every set of faults, and it   *)
(* implements the removal ledger.                                          *)
(*                                                                         *)
(* CurationInv is inductive.  Its largest part, what is pending, offered   *)
(* and unknown, is the ledger's own invariant, which RemovalLedgerProofs   *)
(* shows every ledger step to keep; so an action is only shown to be a     *)
(* ledger step, or none, and to keep the rest: the catalog's positions,    *)
(* the selection and the records that outlive the playlist they were       *)
(* captured in.  "Steps" is that obligation, and each action is one lemma. *)
(*                                                                         *)
(* First the playlist's operations on sequences, then the recursion over   *)
(* the FIFO (RevertAll), then the actions, then the theorems.  Last, the   *)
(* canonical order, which holds while nothing disturbs the engine; its     *)
(* invariant is OrderInv.                                                  *)
(***************************************************************************)
EXTENDS Curation, SequenceTheorems, FiniteSetTheorems, WellFoundedInduction, TLAPS

(* Positions and files are numbers; no file is NoFile.                       *)
LEMMA FilesFacts == Files \subseteq Nat \ {NoFile} /\ NoFile \notin Files /\ MaxPending \in Nat
BY CurationAssumption DEF Files, NoFile

(* A sequence of files and the set of files it lists.                        *)
LEMMA Listing ==
    ASSUME NEW s \in Seq(Files)
    PROVE  /\ Len(s) \in Nat
           /\ DOMAIN s = 1..Len(s)
           /\ \A i \in 1..Len(s) : s[i] \in Files
           /\ s = <<>> <=> Len(s) = 0
           /\ ToSet(s) \subseteq Files
           /\ \A f : Contains(s, f) <=> f \in ToSet(s)
           /\ s = <<>> <=> ToSet(s) = {}
<1>1. /\ Len(s) \in Nat
      /\ DOMAIN s = 1..Len(s)
      /\ \A i \in 1..Len(s) : s[i] \in Files
      BY LenProperties, ElementOfSeq
<1>2. s = <<>> <=> Len(s) = 0
      BY EmptySeq
<1>3. ToSet(s) = {s[i] : i \in 1..Len(s)}
      BY <1>1 DEF ToSet
<1>4. \A f : Contains(s, f) <=> f \in ToSet(s)
      BY <1>3 DEF Contains
<1>5. s = <<>> <=> ToSet(s) = {}
  <2>1. CASE Len(s) = 0
        BY <1>2, <1>3, <2>1
  <2>2. CASE Len(s) # 0
        <3>1. 1 \in 1..Len(s)
              BY <1>1, <2>2
        <3> QED BY <1>2, <1>3, <2>2, <3>1
  <2> QED BY <2>1, <2>2
<1> QED BY <1>1, <1>2, <1>3, <1>4, <1>5

(* Inserting shifts what follows; nothing is lost.                           *)
HasInserted(t, s, i, f) ==
    /\ t \in Seq(Files)
    /\ Len(t) = Len(s) + 1
    /\ \A j \in 1..(Len(s) + 1) :
         t[j] = IF j < i THEN s[j] ELSE IF j = i THEN f ELSE s[j - 1]

LEMMA InsertAtFacts ==
    ASSUME NEW s \in Seq(Files), NEW i \in 1..(Len(s) + 1), NEW f \in Files
    PROVE  HasInserted(InsertAt(s, i, f), s, i, f)
<1> DEFINE front == SubSeq(s, 1, i - 1)
           back  == SubSeq(s, i, Len(s))
           mid   == front \o <<f>>
<1>1. Len(s) \in Nat /\ i \in Int /\ \A j \in 1..Len(s) : s[j] \in Files
      BY Listing
<1>2. /\ front \in Seq(Files)
      /\ Len(front) = i - 1
      /\ \A j \in 1..(i - 1) : front[j] = s[j]
      BY <1>1, SubSeqProperties
<1>3. /\ back \in Seq(Files)
      /\ Len(back) = Len(s) - i + 1
      /\ \A j \in 1..(Len(s) - i + 1) : back[j] = s[i + j - 1]
      BY <1>1, SubSeqProperties
<1>4. /\ <<f>> \in Seq(Files) /\ Len(<<f>>) = 1 /\ <<f>>[1] = f
      OBVIOUS
<1> HIDE DEF front, back
<1>5. /\ mid \in Seq(Files)
      /\ Len(mid) = i
      /\ \A j \in 1..i : mid[j] = IF j < i THEN s[j] ELSE f
      BY <1>1, <1>2, <1>4, ConcatProperties
<1> HIDE DEF mid
<1>6. /\ mid \o back \in Seq(Files)
      /\ Len(mid \o back) = Len(s) + 1
      /\ \A j \in 1..(Len(s) + 1) :
           (mid \o back)[j] = IF j <= i THEN mid[j] ELSE back[j - i]
  <2>1. /\ mid \o back \in Seq(Files)
        /\ Len(mid \o back) = Len(mid) + Len(back)
        /\ \A j \in 1..Len(mid) + Len(back) :
             (mid \o back)[j] = IF j <= Len(mid) THEN mid[j] ELSE back[j - Len(mid)]
        BY <1>3, <1>5, ConcatProperties
  <2>2. Len(mid) + Len(back) = Len(s) + 1
        BY <1>1, <1>3, <1>5
  <2> QED BY <1>5, <2>1, <2>2
<1>7. InsertAt(s, i, f) = mid \o back
      BY DEF InsertAt, mid, front, back
<1>8. ASSUME NEW j \in 1..(Len(s) + 1)
      PROVE  (mid \o back)[j] = IF j < i THEN s[j] ELSE IF j = i THEN f ELSE s[j - 1]
  <2>1. CASE j <= i
        BY <1>1, <1>5, <1>6, <2>1
  <2>2. CASE j > i
    <3>1. j - i \in 1..(Len(s) - i + 1) /\ i + (j - i) - 1 = j - 1
          BY <1>1, <2>2
    <3> QED BY <1>1, <1>3, <1>6, <2>2, <3>1
  <2>3. j <= i \/ j > i
        BY <1>1
  <2> QED BY <2>1, <2>2, <2>3, Zenon
<1> QED BY <1>6, <1>7, <1>8 DEF HasInserted

(* Removing closes the gap; nothing else moves.                              *)
LEMMA RemoveAtFacts ==
    ASSUME NEW s \in Seq(Files), NEW i \in 1..Len(s)
    PROVE  /\ RemoveAt(s, i) \in Seq(Files)
           /\ Len(RemoveAt(s, i)) = Len(s) - 1
           /\ \A j \in 1..(Len(s) - 1) : RemoveAt(s, i)[j] = IF j < i THEN s[j] ELSE s[j + 1]
<1> DEFINE front == SubSeq(s, 1, i - 1)
           back  == SubSeq(s, i + 1, Len(s))
<1>1. Len(s) \in Nat /\ i \in Int /\ \A j \in 1..Len(s) : s[j] \in Files
      BY Listing
<1>2. /\ front \in Seq(Files)
      /\ Len(front) = i - 1
      /\ \A j \in 1..(i - 1) : front[j] = s[j]
      BY <1>1, SubSeqProperties
<1>3. /\ back \in Seq(Files)
      /\ Len(back) = Len(s) - i
      /\ \A j \in 1..(Len(s) - i) : back[j] = s[i + j]
      <2>1. \A k \in (i + 1)..Len(s) : s[k] \in Files
            BY <1>1
      <2>2. i + 1 \in Int /\ Len(s) \in Int
            BY <1>1
      <2>3. /\ back \in Seq(Files)
            /\ Len(back) = IF i + 1 <= Len(s) THEN Len(s) - (i + 1) + 1 ELSE 0
            /\ \A j \in 1..(Len(s) - (i + 1) + 1) : back[j] = s[(i + 1) + j - 1]
            BY <2>1, <2>2, SubSeqProperties
      <2> QED BY <1>1, <2>3
<1> HIDE DEF front, back
<1>4. /\ front \o back \in Seq(Files)
      /\ Len(front \o back) = Len(s) - 1
      /\ \A j \in 1..(Len(s) - 1) :
           (front \o back)[j] = IF j <= i - 1 THEN front[j] ELSE back[j - (i - 1)]
  <2>1. /\ front \o back \in Seq(Files)
        /\ Len(front \o back) = Len(front) + Len(back)
        /\ \A j \in 1..Len(front) + Len(back) :
             (front \o back)[j] = IF j <= Len(front) THEN front[j] ELSE back[j - Len(front)]
        BY <1>2, <1>3, ConcatProperties
  <2>2. Len(front) + Len(back) = Len(s) - 1
        BY <1>1, <1>2, <1>3
  <2> QED BY <1>2, <2>1, <2>2
<1>5. RemoveAt(s, i) = front \o back
      BY DEF RemoveAt, front, back
<1>6. ASSUME NEW j \in 1..(Len(s) - 1)
      PROVE  (front \o back)[j] = IF j < i THEN s[j] ELSE s[j + 1]
  <2>1. CASE j < i
        BY <1>1, <1>2, <1>4, <2>1
  <2>2. CASE j >= i
    <3>1. j - (i - 1) \in 1..(Len(s) - i) /\ i + (j - (i - 1)) = j + 1
          BY <1>1, <2>2
    <3>2. back[j - (i - 1)] = s[j + 1]
          BY <1>3, <3>1
    <3>3. ~(j <= i - 1) /\ ~(j < i)
          BY <1>1, <2>2
    <3> QED BY <1>4, <3>2, <3>3
  <2>3. j < i \/ j >= i
        BY <1>1
  <2> QED BY <2>1, <2>2, <2>3, Zenon
<1> QED BY <1>4, <1>5, <1>6

(* A listed file has a position, and it is there.                            *)
LEMMA PositionFacts ==
    ASSUME NEW s \in Seq(Files), NEW f, Contains(s, f)
    PROVE  /\ PositionOf(s, f) \in 0..(Len(s) - 1)
           /\ s[PositionOf(s, f) + 1] = f
<1> DEFINE p == CHOOSE i \in DOMAIN s : s[i] = f
<1>1. \E i \in DOMAIN s : s[i] = f
      BY Listing DEF Contains
<1>2. p \in DOMAIN s /\ s[p] = f
      BY <1>1
<1> HIDE DEF p
<1>3. p \in 1..Len(s) /\ Len(s) \in Nat
      BY <1>2, Listing
<1>4. PositionOf(s, f) = p - 1
      BY DEF PositionOf, p
<1> QED BY <1>2, <1>3, <1>4

(* Playlist::remove_paths, of one path.                                      *)
LEMMA WithoutFacts ==
    ASSUME NEW s \in Seq(Files), Distinct(s), NEW f
    PROVE  /\ Without(s, f) \in Seq(Files)
           /\ Distinct(Without(s, f))
           /\ ToSet(Without(s, f)) = ToSet(s) \ {f}
<1>1. CASE ~Contains(s, f)
      BY <1>1, Listing DEF Without
<1>2. CASE Contains(s, f)
  <2> DEFINE p == PositionOf(s, f) + 1
             r == RemoveAt(s, p)
  <2>1. p \in 1..Len(s) /\ s[p] = f /\ Len(s) \in Nat
        BY <1>2, PositionFacts, Listing
  <2>2. Without(s, f) = r
        BY <1>2 DEF Without
  <2> HIDE DEF p
  <2>3. /\ r \in Seq(Files)
        /\ Len(r) = Len(s) - 1
        /\ \A j \in 1..(Len(s) - 1) : r[j] = IF j < p THEN s[j] ELSE s[j + 1]
        BY <2>1, RemoveAtFacts
  <2> HIDE DEF r
  <2>4. DOMAIN r = 1..(Len(s) - 1) /\ DOMAIN s = 1..Len(s)
        BY <2>3, Listing
  <2>5. ASSUME NEW i \in 1..Len(s), NEW j \in 1..Len(s), s[i] = s[j]
        PROVE  i = j
        BY <2>4, <2>5 DEF Distinct
  <2>6. Distinct(r)
    <3> SUFFICES ASSUME NEW i \in 1..(Len(s) - 1), NEW j \in 1..(Len(s) - 1), r[i] = r[j]
                 PROVE  i = j
        BY <2>4 DEF Distinct
    <3> DEFINE i2 == IF i < p THEN i ELSE i + 1
               j2 == IF j < p THEN j ELSE j + 1
    <3>1. i2 \in 1..Len(s) /\ j2 \in 1..Len(s) /\ s[i2] = s[j2]
          BY <2>1, <2>3
    <3>2. i2 = j2
          BY <2>5, <3>1
    <3> QED BY <2>1, <3>2
  <2>7. ToSet(r) \subseteq ToSet(s) \ {f}
    <3> SUFFICES ASSUME NEW j \in 1..(Len(s) - 1)
                 PROVE  r[j] \in ToSet(s) \ {f}
        BY <2>4 DEF ToSet
    <3> DEFINE j2 == IF j < p THEN j ELSE j + 1
    <3>1. j2 \in 1..Len(s) /\ r[j] = s[j2] /\ j2 # p
          BY <2>1, <2>3
    <3>2. s[j2] # f
          BY <2>1, <2>5, <3>1
    <3> QED BY <2>4, <3>1, <3>2 DEF ToSet
  <2>8. ToSet(s) \ {f} \subseteq ToSet(r)
    <3> SUFFICES ASSUME NEW k \in 1..Len(s), s[k] # f
                 PROVE  \E j \in 1..(Len(s) - 1) : r[j] = s[k]
        BY <2>4 DEF ToSet
    <3>1. CASE k < p
          BY <2>1, <2>3, <3>1
    <3>2. CASE k > p
      <4>1. k - 1 \in 1..(Len(s) - 1) /\ ~(k - 1 < p) /\ (k - 1) + 1 = k
            BY <2>1, <3>2
      <4>2. r[k - 1] = s[k]
            BY <2>3, <4>1
      <4> QED BY <4>1, <4>2
    <3> QED BY <2>1, <3>1, <3>2
  <2> QED BY <2>2, <2>3, <2>6, <2>7, <2>8
<1> QED BY <1>1, <1>2

-----------------------------------------------------------------------------
(* The playlist's operations.                                                *)

(* A catalog and a selection as the engine keeps them.                       *)
Sound(b) == b \in Browses /\ Distinct(b.files) /\ Selected(b)

(* Record updates, named so that the lemmas about them can be cited.         *)
WithFiles(b, s, k) == [b EXCEPT !.files = s, !.index = k]

AtIndex(b, k) == [b EXCEPT !.index = k]

LEMMA Relisted ==
    ASSUME NEW b \in Browses, NEW s \in Seq(Files), NEW k \in Nat
    PROVE  /\ WithFiles(b, s, k) \in Browses
           /\ WithFiles(b, s, k).files = s
           /\ WithFiles(b, s, k).index = k
           /\ WithFiles(b, s, k).selected = b.selected
           /\ WithFiles(b, s, k).view = b.view
           /\ WithFiles(b, s, k).missing = b.missing
BY DEF Browses, WithFiles

LEMMA Repositioned ==
    ASSUME NEW b \in Browses, NEW k \in Nat
    PROVE  /\ AtIndex(b, k) \in Browses
           /\ AtIndex(b, k).files = b.files
           /\ AtIndex(b, k).index = k
           /\ AtIndex(b, k).selected = b.selected
           /\ AtIndex(b, k).view = b.view
           /\ AtIndex(b, k).missing = b.missing
BY DEF Browses, AtIndex

(* The fields of a playlist and its selection.                               *)
LEMMA Shape ==
    ASSUME NEW b \in Browses
    PROVE  /\ b.files \in Seq(Files)
           /\ b.index \in Nat
           /\ b.selected \in Files \cup {NoFile}
           /\ b.missing \in BOOLEAN
           /\ b.view \in Arrivals \cup {"failed", "blank"}
BY DEF Browses

(* A load selects the entry at its position.                                 *)
LEMMA LoadFacts ==
    ASSUME NEW b \in Browses, Distinct(b.files), NEW index \in Nat, index < Len(b.files),
           NEW view \in Arrivals
    PROVE  /\ Sound(Load(b, index, view))
           /\ Load(b, index, view).files = b.files
           /\ Load(b, index, view).selected = b.files[index + 1]
           /\ Load(b, index, view).selected \in ToSet(b.files)
<1> DEFINE r == Load(b, index, view)
<1>1. b.files \in Seq(Files)
      BY DEF Browses
<1>2. index + 1 \in 1..Len(b.files) /\ b.files[index + 1] \in Files
      BY <1>1, Listing
<1>3. /\ r \in Browses /\ r.files = b.files
      /\ r.index = index /\ r.selected = b.files[index + 1]
      BY <1>2 DEF Load, Browses
<1>4. b.files[index + 1] \in ToSet(b.files)
      BY <1>1, <1>2, Listing DEF ToSet
<1>5. Selected(r)
      BY <1>2, <1>3, FilesFacts DEF Selected
<1> QED BY <1>3, <1>4, <1>5 DEF Sound

(* With nothing listed, nothing is selected.                                 *)
LEMMA BlankFacts ==
    ASSUME NEW b \in Browses, b.files = <<>>
    PROVE  /\ Sound(Blank(b))
           /\ Blank(b).files = <<>>
           /\ Blank(b).selected = NoFile
<1>1. /\ Blank(b) \in Browses /\ Blank(b).files = <<>> /\ Blank(b).selected = NoFile
      /\ Blank(b).view = "blank"
      BY DEF Blank, Browses
<1>2. Len(<<>>) = 0 /\ DOMAIN <<>> = {}
      OBVIOUS
<1> QED BY <1>1, <1>2 DEF Sound, Selected, Distinct, Contains

(* after_paths_removed: the file is gone, the selection is listed or none.   *)
LEMMA AfterRemovedFacts ==
    ASSUME NEW b \in Browses, Sound(b), NEW f \in Files, NEW old \in Nat, NEW view \in Arrivals
    PROVE  /\ Sound(AfterRemoved(b, f, old, view))
           /\ ToSet(AfterRemoved(b, f, old, view).files) = ToSet(b.files) \ {f}
           /\ \/ AfterRemoved(b, f, old, view).selected \in ToSet(b.files) \ {f}
              \/ AfterRemoved(b, f, old, view).selected = NoFile
<1> DEFINE files == Without(b.files, f)
           index == IF files = <<>> THEN 0 ELSE Least(old, Len(files) - 1)
           kept  == WithFiles(b, files, index)
           r     == AfterRemoved(b, f, old, view)
<1>1. b.files \in Seq(Files) /\ Distinct(b.files)
      BY DEF Browses, Sound
<1>2. files \in Seq(Files) /\ Distinct(files) /\ ToSet(files) = ToSet(b.files) \ {f}
      BY <1>1, WithoutFacts
<1> HIDE DEF files
<1>3. /\ Len(files) \in Nat
      /\ files = <<>> <=> Len(files) = 0
      /\ \A g : Contains(files, g) <=> g \in ToSet(files)
      BY <1>2, Listing
<1>4. index \in Nat /\ (files # <<>> => index < Len(files))
      BY <1>3 DEF Least
<1> HIDE DEF index
<1>5. kept \in Browses /\ kept.files = files /\ kept.index = index /\ kept.selected = b.selected
      BY <1>2, <1>4, Relisted
<1>6. r = IF files = <<>> THEN Blank(kept)
          ELSE IF b.selected # f /\ Contains(files, b.selected)
          THEN AtIndex(kept, PositionOf(files, b.selected))
          ELSE Load(kept, index, view)
      BY DEF AfterRemoved, files, index, AtIndex, WithFiles
<1> HIDE DEF kept, r
<1>7. CASE files = <<>>
  <2>1. r = Blank(kept) /\ kept.files = <<>>
        BY <1>5, <1>6, <1>7
  <2>2. Sound(r) /\ r.files = files /\ r.selected = NoFile
        BY <1>5, <1>7, <2>1, BlankFacts, Zenon
  <2> QED BY <1>2, <2>2 DEF r
<1>8. CASE files # <<>> /\ b.selected # f /\ Contains(files, b.selected)
  <2>1. /\ PositionOf(files, b.selected) \in 0..(Len(files) - 1)
        /\ files[PositionOf(files, b.selected) + 1] = b.selected
        BY <1>2, <1>8, PositionFacts
  <2>2. r = AtIndex(kept, PositionOf(files, b.selected))
        BY <1>6, <1>8
  <2>3. /\ r \in Browses /\ r.files = files /\ r.index = PositionOf(files, b.selected)
        /\ r.selected = b.selected
    <3>1. PositionOf(files, b.selected) \in Nat
          BY <1>3, <2>1
    <3> QED BY <1>5, <2>2, <3>1, Repositioned, Zenon
  <2>4. b.selected \in ToSet(files) /\ b.selected # NoFile
        BY <1>2, <1>3, <1>8, Listing, FilesFacts
  <2>5. Selected(r)
        BY <1>3, <2>1, <2>3, <2>4 DEF Selected
  <2>6. Sound(r) /\ ToSet(r.files) = ToSet(b.files) \ {f}
        BY <1>2, <2>3, <2>5 DEF Sound
  <2>7. r.selected \in ToSet(b.files) \ {f}
        BY <1>2, <2>3, <2>4
  <2> QED BY <2>6, <2>7 DEF r
<1>9. CASE files # <<>> /\ ~(b.selected # f /\ Contains(files, b.selected))
  <2>1. r = Load(kept, index, view)
        BY <1>6, <1>9
  <2>2. kept \in Browses /\ Distinct(kept.files) /\ index < Len(kept.files)
        BY <1>2, <1>4, <1>5, <1>9
  <2>3. Sound(r) /\ r.files = kept.files /\ r.selected \in ToSet(kept.files)
        BY <1>4, <2>1, <2>2, LoadFacts
  <2> QED BY <1>2, <1>5, <2>3 DEF r
<1> QED BY <1>7, <1>8, <1>9

(* Playlist::insert_path: one entry more, the index still names its entry.   *)
LEMMA InsertPathFacts ==
    ASSUME NEW b \in Browses, Distinct(b.files), NEW at \in Nat, NEW f \in Files,
           ~Contains(b.files, f)
    PROVE  /\ InsertPath(b, at, f) \in Browses
           /\ Distinct(InsertPath(b, at, f).files)
           /\ ToSet(InsertPath(b, at, f).files) = ToSet(b.files) \cup {f}
           /\ Len(InsertPath(b, at, f).files) = Len(b.files) + 1
           /\ Contains(InsertPath(b, at, f).files, f)
           /\ InsertPath(b, at, f).files[Least(at, Len(b.files)) + 1] = f
           /\ InsertPath(b, at, f).selected = b.selected
           /\ InsertPath(b, at, f).view = b.view
           /\ b.index < Len(b.files) =>
                /\ InsertPath(b, at, f).index < Len(b.files) + 1
                /\ InsertPath(b, at, f).files[InsertPath(b, at, f).index + 1]
                     = b.files[b.index + 1]
<1> DEFINE s == b.files
           i == Least(at, Len(s))
           k == IF i <= b.index /\ s # <<>> THEN b.index + 1 ELSE b.index
           t == InsertAt(s, i + 1, f)
           r == InsertPath(b, at, f)
<1>1. s \in Seq(Files) /\ b.index \in Nat
      BY DEF Browses
<1>2. /\ Len(s) \in Nat /\ DOMAIN s = 1..Len(s) /\ (s = <<>> <=> Len(s) = 0)
      /\ \A g : Contains(s, g) <=> g \in ToSet(s)
      BY <1>1, Listing
<1>3. i \in 0..Len(s) /\ i + 1 \in 1..(Len(s) + 1)
      BY <1>2 DEF Least
<1>4. r = WithFiles(b, t, k)
      BY DEF InsertPath, WithFiles
<1>5. k \in Nat
      BY <1>1
<1> HIDE DEF i
<1>6. /\ t \in Seq(Files)
      /\ Len(t) = Len(s) + 1
      /\ \A j \in 1..(Len(s) + 1) :
           t[j] = IF j < i + 1 THEN s[j] ELSE IF j = i + 1 THEN f ELSE s[j - 1]
  <2>1. HasInserted(InsertAt(s, i + 1, f), s, i + 1, f)
    <3> HIDE DEF s, k, t, r
    <3> QED BY <1>1, <1>3, InsertAtFacts
  <2>2. HasInserted(t, s, i + 1, f)
        BY <2>1
  <2> HIDE DEF s, k, t, r
  <2> QED BY <2>2 DEF HasInserted
<1> HIDE DEF t, k, r
<1>7. r \in Browses /\ r.files = t /\ r.index = k /\ r.selected = b.selected /\ r.view = b.view
  <2> DEFINE w == WithFiles(b, t, k)
  <2>1. w \in Browses /\ w.files = t /\ w.index = k /\ w.selected = b.selected /\ w.view = b.view
        BY <1>5, <1>6, Relisted
  <2> HIDE DEF w
  <2>2. r = w
        BY <1>4 DEF w
  <2> QED BY <2>1, <2>2
<1>8. DOMAIN t = 1..(Len(s) + 1)
      BY <1>6, Listing
<1>9. \A j \in 1..Len(s) : s[j] # f
      BY <1>2 DEF Contains
<1>10. Distinct(t)
  <2> SUFFICES ASSUME NEW m \in 1..(Len(s) + 1), NEW n \in 1..(Len(s) + 1), t[m] = t[n]
               PROVE  m = n
      BY <1>8 DEF Distinct
  <2>1. \A x, y \in 1..Len(s) : s[x] = s[y] => x = y
        BY <1>2 DEF Distinct
  <2> DEFINE m2 == IF m < i + 1 THEN m ELSE m - 1
             n2 == IF n < i + 1 THEN n ELSE n - 1
  <2>2. CASE m = i + 1
    <3>1. t[m] = f
          BY <1>3, <1>6, <2>2
    <3>2. CASE n # i + 1
      <4>1. n2 \in 1..Len(s) /\ t[n] = s[n2]
            BY <1>2, <1>3, <1>6, <3>2
      <4> QED BY <1>9, <3>1, <4>1
    <3> QED BY <2>2, <3>2
  <2>3. CASE n = i + 1 /\ m # i + 1
    <3>1. t[n] = f
          BY <1>3, <1>6, <2>3
    <3>2. m2 \in 1..Len(s) /\ t[m] = s[m2]
          BY <1>2, <1>3, <1>6, <2>3
    <3> QED BY <1>9, <3>1, <3>2
  <2>4. CASE n # i + 1 /\ m # i + 1
    <3>1. m2 \in 1..Len(s) /\ t[m] = s[m2]
          BY <1>2, <1>3, <1>6, <2>4
    <3>2. n2 \in 1..Len(s) /\ t[n] = s[n2]
          BY <1>2, <1>3, <1>6, <2>4
    <3>3. m2 = n2
          BY <2>1, <3>1, <3>2
    <3> QED BY <1>3, <2>4, <3>3
  <2> QED BY <2>2, <2>3, <2>4
<1>11. t[i + 1] = f
      BY <1>3, <1>6
<1>12. ToSet(t) = ToSet(s) \cup {f}
  <2>1. ASSUME NEW j \in 1..(Len(s) + 1)
        PROVE  t[j] \in ToSet(s) \cup {f}
    <3>1. CASE j < i + 1
          BY <1>2, <1>3, <1>6, <3>1 DEF ToSet
    <3>2. CASE j > i + 1
      <4>1. j - 1 \in 1..Len(s) /\ t[j] = s[j - 1]
            BY <1>2, <1>3, <1>6, <3>2
      <4> QED BY <1>2, <4>1 DEF ToSet
    <3> QED BY <1>3, <1>11, <3>1, <3>2
  <2>2. ASSUME NEW j \in 1..Len(s)
        PROVE  s[j] \in ToSet(t)
    <3>1. CASE j < i + 1
      <4>1. j \in 1..(Len(s) + 1) /\ t[j] = s[j]
            BY <1>2, <1>3, <1>6, <3>1
      <4> QED BY <1>8, <4>1 DEF ToSet
    <3>2. CASE j >= i + 1
      <4>1. /\ j + 1 \in 1..(Len(s) + 1) /\ ~(j + 1 < i + 1) /\ j + 1 # i + 1
            /\ (j + 1) - 1 = j
            BY <1>2, <1>3, <3>2
      <4>2. t[j + 1] = s[j]
            BY <1>6, <4>1
      <4> QED BY <1>8, <4>1, <4>2 DEF ToSet
    <3> QED BY <1>3, <3>1, <3>2
  <2>3. f \in ToSet(t)
        BY <1>3, <1>8, <1>11 DEF ToSet
  <2> QED BY <1>2, <1>8, <2>1, <2>2, <2>3 DEF ToSet
<1>13. Contains(t, f)
      BY <1>6, <1>12, Listing
<1>14. ASSUME b.index < Len(s)
       PROVE  k < Len(s) + 1 /\ t[k + 1] = s[b.index + 1]
  <2>1. s # <<>>
        BY <1>1, <1>2, <1>14
  <2>2. CASE i <= b.index
    <3>1. k = b.index + 1
          BY <2>1, <2>2 DEF k
    <3>2. /\ k + 1 \in 1..(Len(s) + 1) /\ ~(k + 1 < i + 1) /\ k + 1 # i + 1
          /\ (k + 1) - 1 = b.index + 1 /\ k < Len(s) + 1
          BY <1>1, <1>2, <1>3, <1>14, <2>2, <3>1
    <3> QED BY <1>6, <3>2
  <2>3. CASE i > b.index
    <3>1. k = b.index
          BY <1>1, <1>3, <2>3 DEF k
    <3>2. k + 1 \in 1..(Len(s) + 1) /\ k + 1 < i + 1 /\ k < Len(s) + 1
          BY <1>1, <1>2, <1>3, <1>14, <2>3, <3>1
    <3> QED BY <1>6, <3>1, <3>2
  <2> QED BY <1>1, <1>3, <2>2, <2>3
<1> QED BY <1>6, <1>7, <1>10, <1>11, <1>12, <1>13, <1>14 DEF i, r

(* The least element of a nonempty set of naturals, from well-foundedness.   *)
LEMMA Smallest ==
    ASSUME NEW T \in SUBSET Nat, T # {}
    PROVE  \E n \in T : \A m \in T : n <= m
<1> DEFINE R == {ss \in Nat \X Nat : ss[1] < ss[2]}
<1>1. IsWellFoundedOn(R, Nat)
      BY NatLessThanWellFounded DEF OpToRel
<1>2. PICK n \in T : \A m \in T : ~(<<m, n>> \in R)
      BY <1>1, WFMin
<1>3. ASSUME NEW m \in T
      PROVE  n <= m
  <2>1. n \in Nat /\ m \in Nat /\ ~(<<m, n>> \in R)
        BY <1>2
  <2>2. m < n => <<m, n>> \in R
        BY <2>1
  <2> QED BY <2>1, <2>2
<1> QED BY <1>3

(* Induction as a fact about a set of naturals: no operator parameter.       *)
LEMMA SetInduction ==
    ASSUME NEW T, 0 \in T, \A n \in Nat : n \in T => n + 1 \in T
    PROVE  Nat \subseteq T
<1> DEFINE B == {n \in Nat : n \notin T}
<1>1. CASE B = {}
      BY <1>1
<1>2. CASE B # {}
  <2>1. PICK n \in B : \A m \in B : n <= m
        BY <1>2, Smallest
  <2>2. n # 0
        BY <2>1
  <2>3. n - 1 \in Nat /\ n - 1 \notin B
        BY <2>1, <2>2
  <2> QED BY <2>1, <2>3
<1> QED BY <1>1, <1>2

(* revert_submitted_removal lists the file again and disturbs nothing else.  *)
LEMMA RevertFacts ==
    ASSUME NEW b, Sound(b), NEW c, c.file \in Files, c.index \in Nat, NEW view \in Arrivals,
           b.selected = c.file => Contains(b.files, c.file)
    PROVE  /\ Sound(Revert(b, c, view))
           /\ ToSet(Revert(b, c, view).files) = ToSet(b.files) \cup {c.file}
           /\ \/ Revert(b, c, view).selected = b.selected
              \/ b.selected = NoFile /\ Revert(b, c, view).selected = c.file
<1> DEFINE f == c.file
           r == Revert(b, c, view)
           inserted == InsertPath(b, c.index, f)
<1>1. b \in Browses /\ Distinct(b.files) /\ Selected(b) /\ b.files \in Seq(Files)
      BY Shape DEF Sound
<1>2. CASE Contains(b.files, f)
  <2>1. r = b
        BY <1>2 DEF Revert
  <2>2. f \in ToSet(b.files)
        BY <1>1, <1>2, Listing
  <2> HIDE DEF r
  <2> QED BY <2>1, <2>2 DEF r
<1>3. CASE ~Contains(b.files, f)
  <2>1. /\ inserted \in Browses
        /\ Distinct(inserted.files)
        /\ ToSet(inserted.files) = ToSet(b.files) \cup {f}
        /\ Len(inserted.files) = Len(b.files) + 1
        /\ Contains(inserted.files, f)
        /\ inserted.selected = b.selected
        /\ b.index < Len(b.files) =>
             /\ inserted.index < Len(b.files) + 1
             /\ inserted.files[inserted.index + 1] = b.files[b.index + 1]
        BY <1>1, <1>3, InsertPathFacts
  <2>2. r = IF b.selected # NoFile THEN inserted
            ELSE Load(inserted, PositionOf(inserted.files, f), view)
        BY <1>3 DEF Revert
  <2> HIDE DEF r, inserted
  <2>3. inserted.files \in Seq(Files)
        BY <2>1, Shape
  <2>4. CASE b.selected # NoFile
    <3>1. r = inserted
          BY <2>2, <2>4
    <3>2. ASSUME Contains(r.files, r.selected)
          PROVE  r.index < Len(r.files) /\ r.files[r.index + 1] = r.selected
      <4>1. b.selected \in ToSet(b.files)
            BY <1>3, <2>1, <2>3, <3>1, <3>2, Listing
      <4>2. b.index < Len(b.files) /\ b.files[b.index + 1] = b.selected
            BY <1>1, <4>1, Listing DEF Selected
      <4> QED BY <2>1, <3>1, <4>2
    <3>3. Selected(r)
          BY <2>1, <2>4, <3>1, <3>2 DEF Selected
    <3> QED BY <2>1, <3>1, <3>3 DEF Sound, r
  <2>5. CASE b.selected = NoFile
    <3> DEFINE p == PositionOf(inserted.files, f)
    <3>1. p \in 0..(Len(inserted.files) - 1) /\ inserted.files[p + 1] = f
          BY <2>1, <2>3, PositionFacts
    <3>2. r = Load(inserted, p, view)
          BY <2>2, <2>5
    <3> HIDE DEF p
    <3>3. p \in Nat /\ p < Len(inserted.files)
          BY <2>3, <3>1, Listing
    <3>4. Sound(r) /\ r.files = inserted.files /\ r.selected = inserted.files[p + 1]
          BY <2>1, <3>2, <3>3, LoadFacts
    <3> QED BY <2>1, <2>5, <3>1, <3>4 DEF r
  <2> QED BY <2>4, <2>5
<1> QED BY <1>2, <1>3

(* One revert after the other, oldest first.                                 *)
Reverts(r, b, pending, view) ==
    /\ r[0] = b
    /\ \A n \in 1..Len(pending) : r[n] = Revert(r[n - 1], pending[n], view)

(* The recursive function of RevertAll unfolds as it is written.             *)
LEMMA RevertAllIsIterated ==
    ASSUME NEW b, NEW pending \in Seq(Removal), NEW view
    PROVE  \E r : RevertAll(b, pending, view) = r[Len(pending)] /\ Reverts(r, b, pending, view)
<1> DEFINE Iterates(g, m) == g = [n \in 0..m |-> IF n = 0 THEN b ELSE Revert(g[n - 1], pending[n], view)]
           L == Len(pending)
<1> DEFINE T == {m \in Nat : \E g : Iterates(g, m)}
<1>1. L \in Nat
      OBVIOUS
<1>2. 0 \in T
  <2> DEFINE g == [n \in 0..0 |-> b]
  <2>1. Iterates(g, 0)
        OBVIOUS
  <2> QED BY <2>1
<1>3. ASSUME NEW m \in Nat, m \in T
      PROVE  m + 1 \in T
  <2>1. PICK g : Iterates(g, m)
        BY <1>3
  <2> DEFINE h == [n \in 0..(m + 1) |-> IF n = m + 1 THEN Revert(g[m], pending[m + 1], view) ELSE g[n]]
  <2>2. ASSUME NEW n \in 0..(m + 1)
        PROVE  h[n] = IF n = 0 THEN b ELSE Revert(h[n - 1], pending[n], view)
    <3>1. CASE n = 0
          BY <2>1, <3>1
    <3>2. CASE n # 0 /\ n # m + 1
      <4>1. n \in 0..m /\ n - 1 \in 0..m /\ n - 1 # m + 1
            BY <3>2
      <4> QED BY <2>1, <3>2, <4>1
    <3>3. CASE n = m + 1
      <4>1. h[n - 1] = g[m] /\ n - 1 = m /\ n # 0
            BY <3>3
      <4> QED BY <3>3, <4>1
    <3> QED BY <3>1, <3>2, <3>3
  <2>3. h = [n \in 0..(m + 1) |-> h[n]]
        OBVIOUS
  <2> HIDE DEF h
  <2>4. Iterates(h, m + 1)
        BY <2>2, <2>3
  <2> HIDE DEF Iterates
  <2>5. \E k : Iterates(k, m + 1)
        BY <2>4
  <2> QED BY <2>5
<1>4. L \in T
      BY <1>1, <1>2, <1>3, SetInduction
<1>5. PICK g : Iterates(g, L)
      BY <1>4
<1> DEFINE r == CHOOSE reverted : Iterates(reverted, L)
<1>6. Iterates(r, L)
      BY <1>5
<1>7. RevertAll(b, pending, view) = r[L]
      BY DEF RevertAll
<1> HIDE DEF r
<1>8. \A n \in 0..L : r[n] = IF n = 0 THEN b ELSE Revert(r[n - 1], pending[n], view)
      BY <1>6
<1>9. r[0] = b /\ \A n \in 1..L : r[n] = Revert(r[n - 1], pending[n], view)
      BY <1>1, <1>8
<1>10. Reverts(r, b, pending, view)
      BY <1>9 DEF Reverts
<1> HIDE DEF L
<1>11. RevertAll(b, pending, view) = r[Len(pending)]
      BY <1>7 DEF L
<1> QED BY <1>10, <1>11

(* By induction on the FIFO: all that waited is listed again.                *)
LEMMA RevertAllFacts ==
    ASSUME NEW b, Sound(b), NEW pending \in Seq(Removal), NEW view \in Arrivals,
           \A i \in 1..Len(pending) : pending[i].file # b.selected
    PROVE  /\ Sound(RevertAll(b, pending, view))
           /\ ToSet(RevertAll(b, pending, view).files)
                = ToSet(b.files) \cup {pending[i].file : i \in 1..Len(pending)}
           /\ \/ RevertAll(b, pending, view).selected = b.selected
              \/ \E i \in 1..Len(pending) :
                    RevertAll(b, pending, view).selected = pending[i].file
<1>1. PICK r : RevertAll(b, pending, view) = r[Len(pending)] /\ Reverts(r, b, pending, view)
      BY RevertAllIsIterated
<1> DEFINE L == Len(pending)
           Told(x, n) ==
             /\ Sound(x)
             /\ ToSet(x.files) = ToSet(b.files) \cup {pending[i].file : i \in 1..n}
             /\ \/ x.selected = b.selected
                \/ \E i \in 1..n : x.selected = pending[i].file
<1>2. L \in Nat /\ \A i \in 1..L : pending[i].file \in Files /\ pending[i].index \in Nat
  <2>1. \A i \in 1..Len(pending) : pending[i] \in Removal
        BY ElementOfSeq
  <2>2. \A c \in Removal : c.file \in Files /\ c.index \in Nat
        BY DEF Removal
  <2> QED BY <2>1, <2>2
<1> DEFINE T == {n \in Nat : n <= L => Told(r[n], n)}
<1>3. 0 \in T
      BY <1>1 DEF Reverts
<1>4. ASSUME NEW n \in Nat, n \in T
      PROVE  n + 1 \in T
  <2> SUFFICES ASSUME n + 1 <= L
               PROVE  Told(r[n + 1], n + 1)
    <3> HIDE DEF Told, L
    <3> QED OBVIOUS
  <2> DEFINE c == pending[n + 1]
             x == r[n]
  <2>1. Told(x, n) /\ n + 1 \in 1..L /\ 1..(n + 1) = (1..n) \cup {n + 1} /\ 1..n \subseteq 1..L
        BY <1>2, <1>4
  <2>2. r[n + 1] = Revert(x, c, view) /\ c.file \in Files /\ c.index \in Nat
    <3>1. (n + 1) - 1 = n
          OBVIOUS
    <3> QED BY <1>1, <1>2, <2>1, <3>1 DEF Reverts
  <2>3. ASSUME x.selected = c.file
        PROVE  Contains(x.files, c.file)
    <3>1. x.selected # b.selected
          BY <2>1, <2>3
    <3>2. c.file \in ToSet(x.files)
          BY <2>1, <2>3, <3>1
    <3> QED BY <2>1, <3>2, Listing, Shape DEF Sound
  <2> HIDE DEF x, c
  <2>4. /\ Sound(r[n + 1])
        /\ ToSet(r[n + 1].files) = ToSet(x.files) \cup {c.file}
        /\ \/ r[n + 1].selected = x.selected
           \/ x.selected = NoFile /\ r[n + 1].selected = c.file
    <3>1. Sound(x) /\ (x.selected = c.file => Contains(x.files, c.file))
          BY <2>1, <2>3
    <3> DEFINE y == Revert(x, c, view)
    <3>2. /\ Sound(y)
          /\ ToSet(y.files) = ToSet(x.files) \cup {c.file}
          /\ \/ y.selected = x.selected
             \/ x.selected = NoFile /\ y.selected = c.file
          BY <2>2, <3>1, RevertFacts
    <3> HIDE DEF y
    <3>3. r[n + 1] = y
          BY <2>2 DEF y
    <3> QED BY <3>2, <3>3
  <2>5. {pending[i].file : i \in 1..(n + 1)} = {pending[i].file : i \in 1..n} \cup {c.file}
        BY <2>1 DEF c
  <2>6. ToSet(r[n + 1].files) = ToSet(b.files) \cup {pending[i].file : i \in 1..(n + 1)}
        BY <2>1, <2>4, <2>5
  <2>7. r[n + 1].selected = b.selected \/ \E i \in 1..(n + 1) : r[n + 1].selected = pending[i].file
        BY <2>1, <2>4 DEF c
  <2> QED BY <2>4, <2>6, <2>7
<1>5. L \in T
  <2> HIDE DEF T
  <2> QED BY <1>2, <1>3, <1>4, SetInduction
<1> QED BY <1>1, <1>2, <1>5

(* Playlist::reconcile: the index stays inside and names the target.         *)
LEMMA ReconcileFacts ==
    ASSUME NEW b \in Browses, NEW entries \in Seq(Files), entries # <<>>, NEW target
    PROVE  /\ Reconcile(b, entries, target) \in Browses
           /\ Reconcile(b, entries, target).files = entries
           /\ Reconcile(b, entries, target).index < Len(entries)
           /\ Reconcile(b, entries, target).selected = b.selected
           /\ Reconcile(b, entries, target).view = b.view
           /\ Reconcile(b, entries, target).missing = b.missing
           /\ Contains(entries, target) =>
                entries[Reconcile(b, entries, target).index + 1] = target
<1> DEFINE previous == IF b.index < Len(b.files) THEN b.files[b.index + 1] ELSE NoFile
           index    == IF Contains(entries, target) THEN PositionOf(entries, target)
                       ELSE IF Contains(entries, previous) THEN PositionOf(entries, previous)
                       ELSE Least(b.index, Len(entries) - 1)
           r        == Reconcile(b, entries, target)
<1>1. r = WithFiles(b, entries, index)
      BY DEF Reconcile, WithFiles
<1> HIDE DEF previous
<1>2. Len(entries) \in Nat /\ Len(entries) # 0 /\ b.index \in Nat
      BY Listing, Shape
<1>3. \A g : Contains(entries, g) => /\ PositionOf(entries, g) \in 0..(Len(entries) - 1)
                                     /\ entries[PositionOf(entries, g) + 1] = g
      BY PositionFacts
<1>4. index \in Nat /\ index < Len(entries)
  <2>1. CASE Contains(entries, target)
    <3>1. index = PositionOf(entries, target)
          BY <2>1
    <3> QED BY <1>2, <1>3, <2>1, <3>1
  <2>2. CASE ~Contains(entries, target) /\ Contains(entries, previous)
    <3>1. index = PositionOf(entries, previous)
          BY <2>2
    <3> QED BY <1>2, <1>3, <2>2, <3>1
  <2>3. CASE ~Contains(entries, target) /\ ~Contains(entries, previous)
    <3>1. index = Least(b.index, Len(entries) - 1)
          BY <2>3
    <3> QED BY <1>2, <3>1 DEF Least
  <2> QED BY <2>1, <2>2, <2>3
<1>5. Contains(entries, target) => entries[index + 1] = target
  <2> SUFFICES ASSUME Contains(entries, target) PROVE entries[index + 1] = target
      OBVIOUS
  <2>1. index = PositionOf(entries, target)
        OBVIOUS
  <2> HIDE DEF index, r
  <2> QED BY <1>3, <2>1
<1> HIDE DEF index, r
<1>6. /\ r \in Browses /\ r.files = entries /\ r.index = index
      /\ r.selected = b.selected /\ r.view = b.view /\ r.missing = b.missing
  <2> DEFINE w == WithFiles(b, entries, index)
  <2>1. /\ w \in Browses /\ w.files = entries /\ w.index = index
        /\ w.selected = b.selected /\ w.view = b.view /\ w.missing = b.missing
        BY <1>4, Relisted
  <2> HIDE DEF w
  <2>2. r = w
        BY <1>1 DEF w
  <2> QED BY <2>1, <2>2
<1> QED BY <1>4, <1>5, <1>6 DEF r

(* An increasing enumeration of a finite set of files exists ...             *)
LEMMA Increasing ==
    ASSUME NEW S \in SUBSET Nat, IsFiniteSet(S)
    PROVE  \E s \in [1..Cardinality(S) -> S] : \A i, j \in DOMAIN s : i < j => s[i] < s[j]
<1> DEFINE Ordered(s) == \A i, j \in DOMAIN s : i < j => s[i] < s[j]
           T == {n \in Nat : \A U \in SUBSET Nat :
                               IsFiniteSet(U) /\ Cardinality(U) = n =>
                                 \E s \in [1..n -> U] : Ordered(s)}
<1>1. 0 \in T
  <2> SUFFICES ASSUME NEW U \in SUBSET Nat
               PROVE  \E s \in [1..0 -> U] : Ordered(s)
      OBVIOUS
  <2>1. 1..0 = {}
        OBVIOUS
  <2>2. [i \in 1..0 |-> i] \in [1..0 -> U]
        BY <2>1
  <2>3. Ordered([i \in 1..0 |-> i])
        BY <2>1
  <2> QED BY <2>2, <2>3
<1>2. ASSUME NEW n \in Nat, n \in T
      PROVE  n + 1 \in T
  <2> SUFFICES ASSUME NEW U \in SUBSET Nat, IsFiniteSet(U), Cardinality(U) = n + 1
               PROVE  \E s \in [1..(n + 1) -> U] : Ordered(s)
      OBVIOUS
  <2>1. U # {}
        BY FS_EmptySet
  <2>2. PICK m \in U : \A x \in U : m <= x
        BY <2>1, Smallest
  <2>3. IsFiniteSet(U \ {m}) /\ Cardinality(U \ {m}) = n
    <3>1. IsFiniteSet(U \ {m}) /\ Cardinality(U \ {m}) = Cardinality(U) - 1
          BY FS_RemoveElement, <2>2
    <3> QED BY <3>1
  <2>4. PICK t \in [1..n -> U \ {m}] : Ordered(t)
        BY <1>2, <2>3
  <2> DEFINE s == [i \in 1..(n + 1) |-> IF i = 1 THEN m ELSE t[i - 1]]
  <2>5. \A i \in 1..(n + 1) : i # 1 => i - 1 \in 1..n /\ t[i - 1] \in U /\ m < t[i - 1]
    <3> SUFFICES ASSUME NEW i \in 1..(n + 1), i # 1
                 PROVE  i - 1 \in 1..n /\ t[i - 1] \in U /\ m < t[i - 1]
        OBVIOUS
    <3>1. i - 1 \in 1..n
          OBVIOUS
    <3>2. t[i - 1] \in U \ {m}
          BY <3>1, <2>4
    <3>3. m <= t[i - 1] /\ m # t[i - 1] /\ t[i - 1] \in Nat /\ m \in Nat
          BY <2>2, <3>2
    <3>4. m < t[i - 1]
      <4> DEFINE y == t[i - 1]
      <4> HIDE DEF y
      <4>1. m <= y /\ m # y /\ y \in Nat /\ m \in Nat
            BY <3>3 DEF y
      <4>2. m < y
            BY <4>1
      <4> QED BY <4>2 DEF y
    <3> QED BY <3>1, <3>2, <3>4
  <2>6. s \in [1..(n + 1) -> U]
        BY <2>2, <2>5
  <2>7. ASSUME NEW i \in 1..(n + 1), NEW j \in 1..(n + 1), i < j
        PROVE  s[i] < s[j]
    <3>1. j # 1 /\ s[j] = t[j - 1]
          BY <2>7
    <3>2. CASE i = 1
          BY <2>5, <3>1, <3>2
    <3>3. CASE i # 1
      <4>1. s[i] = t[i - 1] /\ i - 1 \in 1..n /\ j - 1 \in 1..n /\ i - 1 < j - 1
            BY <2>7, <3>3
      <4> QED BY <2>4, <3>1, <4>1
    <3> QED BY <3>2, <3>3
  <2>8. Ordered(s)
        BY <2>7
  <2> QED BY <2>6, <2>8
<1>3. Nat \subseteq T
  <2> HIDE DEF T
  <2> QED BY <1>1, <1>2, SetInduction
<1>4. Cardinality(S) \in Nat
      BY FS_CardinalityType
<1> QED BY <1>3, <1>4

(* ... so a listing in folder order lists exactly its files, once each.      *)
LEMMA FolderOrderFacts ==
    ASSUME NEW S \in SUBSET Files
    PROVE  /\ InFolderOrder(S) \in Seq(Files)
           /\ Distinct(InFolderOrder(S))
           /\ ToSet(InFolderOrder(S)) \subseteq S
<1>1. IsFiniteSet(S) /\ S \in SUBSET Nat /\ Cardinality(S) \in Nat
  <2>1. IsFiniteSet(Files)
        BY CurationAssumption, FS_Interval DEF Files
  <2>2. IsFiniteSet(S)
        BY <2>1, FS_Subset
  <2>3. S \in SUBSET Nat
        BY FilesFacts
  <2> QED BY <2>2, <2>3, FS_CardinalityType
<1> DEFINE s == InFolderOrder(S)
           n == Cardinality(S)
<1>2. s \in [1..n -> S] /\ \A i, j \in DOMAIN s : i < j => s[i] < s[j]
      BY <1>1, Increasing DEF InFolderOrder
<1> HIDE DEF s, n
<1>3. DOMAIN s = 1..n /\ n \in Nat /\ \A i \in 1..n : s[i] \in S /\ s[i] \in Nat
      BY <1>1, <1>2 DEF n
<1>4. s \in Seq(Files)
      BY <1>2, <1>3, SeqDef
<1>5. Distinct(s)
      BY <1>2, <1>3 DEF Distinct
<1>6. ToSet(s) \subseteq S
      BY <1>3 DEF ToSet
<1> QED BY <1>4, <1>5, <1>6 DEF s

(* The ledger with its theorems.                                             *)
LP == INSTANCE RemovalLedgerProofs WITH
    listed  <- Listed,
    waiting <- Queued,
    active  <- Operating,
    offered <- undo.file,
    sure    <- OfferIsSure,
    unknown <- recovery

(* LP names the ledger's definitions a second time; they are the same.       *)
LEMMA SameLedger ==
    /\ LP!LedgerInv <=> Ledger!LedgerInv
    /\ LP!LedgerNext <=> Ledger!LedgerNext
    /\ LP!ledgerVars = Ledger!ledgerVars
<1> USE DEF LP!Removals, Ledger!Removals, LP!Kinds, Ledger!Kinds, LP!Outcomes, Ledger!Outcomes,
            LP!None, Ledger!None, LP!Operation, Ledger!Operation, LP!Pending, Ledger!Pending,
            LP!Waiting, Ledger!Waiting, LP!Listable, Ledger!Listable,
            LP!Destination, Ledger!Destination
<1>1. LP!LedgerTypeOK <=> Ledger!LedgerTypeOK
      BY DEF LP!LedgerTypeOK, Ledger!LedgerTypeOK
<1>2. LP!NoRequestTwice <=> Ledger!NoRequestTwice
      BY DEF LP!NoRequestTwice, Ledger!NoRequestTwice
<1>3. LP!NothingPendingIsListed <=> Ledger!NothingPendingIsListed
      BY DEF LP!NothingPendingIsListed, Ledger!NothingPendingIsListed
<1>4. LP!NobodyWaitsForNothing <=> Ledger!NobodyWaitsForNothing
      BY DEF LP!NobodyWaitsForNothing, Ledger!NobodyWaitsForNothing
<1>5. LP!UnknownStopsRemovals <=> Ledger!UnknownStopsRemovals
      BY DEF LP!UnknownStopsRemovals, Ledger!UnknownStopsRemovals
<1>6. LP!OfferIsRecoverable <=> Ledger!OfferIsRecoverable
      BY DEF LP!OfferIsRecoverable, Ledger!OfferIsRecoverable
<1>7. LP!MovedIsMoved <=> Ledger!MovedIsMoved
      BY DEF LP!MovedIsMoved, Ledger!MovedIsMoved
<1>8. LP!RestoreServesTheOffer <=> Ledger!RestoreServesTheOffer
      BY DEF LP!RestoreServesTheOffer, Ledger!RestoreServesTheOffer
<1>9. LP!LedgerInv <=> Ledger!LedgerInv
      BY <1>1, <1>2, <1>3, <1>4, <1>5, <1>6, <1>7, <1>8 DEF LP!LedgerInv, Ledger!LedgerInv
<1>10. \A kind, f : LP!Accept(kind, f) <=> Ledger!Accept(kind, f)
      BY DEF LP!Accept, Ledger!Accept
<1>11. LP!StartRestore <=> Ledger!StartRestore
      BY DEF LP!StartRestore, Ledger!StartRestore
<1>12. LP!PlatformActs <=> Ledger!PlatformActs
      BY DEF LP!PlatformActs, Ledger!PlatformActs
<1>13. LP!SettleMoved <=> Ledger!SettleMoved
      BY DEF LP!SettleMoved, Ledger!SettleMoved, LP!Abandon, Ledger!Abandon, LP!Recover, Ledger!Recover
<1>14. LP!SettleUnmoved <=> Ledger!SettleUnmoved
      BY DEF LP!SettleUnmoved, Ledger!SettleUnmoved, LP!Abandon, Ledger!Abandon, LP!Recover, Ledger!Recover
<1>15. LP!SettleRestore <=> Ledger!SettleRestore
      BY DEF LP!SettleRestore, Ledger!SettleRestore, LP!Abandon, Ledger!Abandon, LP!Recover, Ledger!Recover
<1>16. LP!SettleLost <=> Ledger!SettleLost
      BY DEF LP!SettleLost, Ledger!SettleLost, LP!Abandon, Ledger!Abandon
<1>17. LP!Relist <=> Ledger!Relist
      BY DEF LP!Relist, Ledger!Relist
<1>18. LP!LedgerNext <=> Ledger!LedgerNext
      BY <1>10, <1>11, <1>12, <1>13, <1>14, <1>15, <1>16, <1>17 DEF LP!LedgerNext, Ledger!LedgerNext, LP!Settle, Ledger!Settle
<1>19. LP!ledgerVars = Ledger!ledgerVars
      BY DEF LP!ledgerVars, Ledger!ledgerVars
<1> QED BY <1>9, <1>18, <1>19

(* The ledger's own induction step, seen through the mapping.                *)
LEMMA LedgerStepPreserves ==
    Ledger!LedgerInv /\ [Ledger!LedgerNext]_(Ledger!ledgerVars) => Ledger!LedgerInv'
<1>1. NoFile \notin Files /\ MaxPending \in Nat
      BY FilesFacts
<1>2. LP!LedgerInv /\ [LP!LedgerNext]_(LP!ledgerVars) => LP!LedgerInv'
      BY <1>1, LP!StepPreserves
<1>3. LP!LedgerInv' <=> Ledger!LedgerInv'
      BY SameLedger, PTL
<1>4. LP!ledgerVars' = Ledger!ledgerVars'
      BY SameLedger DEF LP!ledgerVars, Ledger!ledgerVars
<1> HIDE DEF LP!LedgerInv, LP!LedgerNext, Ledger!LedgerInv, Ledger!LedgerNext
<1> QED BY <1>2, <1>3, <1>4, SameLedger

(* What runs, as the ledger sees it.                                         *)
LEMMA WorkerFacts ==
    CurationTypeOK =>
      /\ Operating.kind = worker.kind
      /\ worker.kind \in Kinds \cup {"none"}
      /\ Idle <=> worker = NoWorker
      /\ ~Idle => /\ Operating = [kind |-> worker.kind, file |-> worker.file,
                                  outcome |-> Outcome(worker.state)]
                  /\ worker.file \in Files
                  /\ worker.index \in Nat
                  /\ worker.here \in BOOLEAN
                  /\ worker.state \in WorkerStates
      /\ Idle => Operating = [kind |-> "none", file |-> NoFile, outcome |-> "running"]
BY DEF CurationTypeOK, Operating, Idle, NoWorker, Kinds

(* What waits, as the ledger sees it.                                        *)
LEMMA QueueFacts ==
    CurationTypeOK =>
      /\ queue \in Seq(Removal)
      /\ Len(queue) \in Nat
      /\ DOMAIN queue = 1..Len(queue)
      /\ \A i \in 1..Len(queue) :
            queue[i] \in Removal /\ queue[i].file \in Files /\ queue[i].index \in Nat
      /\ Queued \in Seq(Files)
      /\ Len(Queued) = Len(queue)
      /\ DOMAIN Queued = 1..Len(queue)
      /\ \A i \in 1..Len(queue) : Queued[i] = queue[i].file
      /\ queue = <<>> <=> Queued = <<>>
<1> SUFFICES ASSUME CurationTypeOK
             PROVE  /\ queue \in Seq(Removal)
                    /\ Len(queue) \in Nat
                    /\ DOMAIN queue = 1..Len(queue)
                    /\ \A i \in 1..Len(queue) :
                          queue[i] \in Removal /\ queue[i].file \in Files /\ queue[i].index \in Nat
                    /\ Queued \in Seq(Files)
                    /\ Len(Queued) = Len(queue)
                    /\ DOMAIN Queued = 1..Len(queue)
                    /\ \A i \in 1..Len(queue) : Queued[i] = queue[i].file
                    /\ queue = <<>> <=> Queued = <<>>
    OBVIOUS
<1>1. queue \in Seq(Removal)
      BY DEF CurationTypeOK
<1>2. Len(queue) \in Nat /\ DOMAIN queue = 1..Len(queue)
      BY <1>1, LenProperties
<1>3. \A i \in 1..Len(queue) : queue[i] \in Removal
      BY <1>1, ElementOfSeq
<1>4. \A c \in Removal : c.file \in Files /\ c.index \in Nat
      BY DEF Removal
<1>5. Queued = [i \in 1..Len(queue) |-> queue[i].file]
      BY <1>2 DEF Queued
<1>6. Queued \in [1..Len(queue) -> Files]
      BY <1>3, <1>4, <1>5
<1>7. Queued \in Seq(Files)
      BY <1>2, <1>6, SeqDef
<1>8. Len(Queued) = Len(queue)
      BY <1>2, <1>6, <1>7, LenProperties
<1>9. queue = <<>> <=> Queued = <<>>
      BY <1>1, <1>7, <1>8, EmptySeq
<1> QED BY <1>1, <1>2, <1>3, <1>4, <1>5, <1>7, <1>8, <1>9

(* InFlight is what the ledger calls pending.                                *)
LEMMA PendingFacts ==
    CurationTypeOK =>
      /\ \A f : Ledger!Pending(f) <=> f \in InFlight
      /\ InFlight \subseteq Files
      /\ \A i \in DOMAIN queue : queue[i].file \in InFlight
      /\ worker.kind \in {"Trash", "PermanentDelete"} => worker.file \in InFlight
      /\ Ledger!Waiting = {queue[i].file : i \in 1..Len(queue)}
<1> SUFFICES ASSUME CurationTypeOK
             PROVE  /\ \A f : Ledger!Pending(f) <=> f \in InFlight
                    /\ InFlight \subseteq Files
                    /\ \A i \in DOMAIN queue : queue[i].file \in InFlight
                    /\ worker.kind \in {"Trash", "PermanentDelete"} => worker.file \in InFlight
                    /\ Ledger!Waiting = {queue[i].file : i \in 1..Len(queue)}
    OBVIOUS
<1>1. worker.kind \in {"Trash", "PermanentDelete"} =>
        /\ Operating.kind = worker.kind /\ Operating.file = worker.file /\ worker.file \in Files
      BY WorkerFacts DEF Idle
<1>2. Operating.kind = worker.kind
      BY WorkerFacts
<1>3. \A f : Ledger!Pending(f) <=> f \in InFlight
      BY <1>1, <1>2, QueueFacts DEF Ledger!Pending, Ledger!Removals, InFlight
<1>4. InFlight \subseteq Files
      BY <1>1, QueueFacts DEF InFlight
<1>5. /\ \A i \in DOMAIN queue : queue[i].file \in InFlight
      /\ worker.kind \in {"Trash", "PermanentDelete"} => worker.file \in InFlight
      BY DEF InFlight
<1>6. Ledger!Waiting = {queue[i].file : i \in 1..Len(queue)}
      BY QueueFacts DEF Ledger!Waiting
<1> QED BY <1>3, <1>4, <1>5, <1>6

(* What the invariant says of the catalog and the selection.                 *)
LEMMA BrowseFacts ==
    CurationInv =>
      /\ CurationTypeOK
      /\ Sound(browse)
      /\ browse \in Browses
      /\ browse.files \in Seq(Files)
      /\ browse.index \in Nat
      /\ browse.selected \in Files \cup {NoFile}
      /\ Listed \subseteq Files
      /\ \A f : Contains(browse.files, f) <=> f \in Listed
      /\ \A f \in Listed : f \notin InFlight
      /\ browse.selected \notin InFlight
<1> SUFFICES ASSUME CurationInv
             PROVE  /\ CurationTypeOK
                    /\ Sound(browse)
                    /\ browse \in Browses
                    /\ browse.files \in Seq(Files)
                    /\ browse.index \in Nat
                    /\ browse.selected \in Files \cup {NoFile}
                    /\ Listed \subseteq Files
                    /\ \A f : Contains(browse.files, f) <=> f \in Listed
                    /\ \A f \in Listed : f \notin InFlight
                    /\ browse.selected \notin InFlight
    OBVIOUS
<1>1. CurationTypeOK /\ browse \in Browses /\ Sound(browse)
      BY DEF CurationInv, CurationTypeOK, Sound
<1>2. browse.files \in Seq(Files) /\ browse.index \in Nat /\ browse.selected \in Files \cup {NoFile}
      BY <1>1, Shape
<1>3. Listed \subseteq Files /\ \A f : Contains(browse.files, f) <=> f \in Listed
      BY <1>2, Listing DEF Listed
<1>4. \A f \in Listed : f \notin InFlight
      BY <1>1, PendingFacts DEF CurationInv, Ledger!LedgerInv, Ledger!NothingPendingIsListed
<1>5. browse.selected \notin InFlight
      BY DEF CurationInv
<1> QED BY <1>1, <1>2, <1>3, <1>4, <1>5

(* What the ledger's invariant says of the FIFO, the worker and the offer.   *)
LEMMA PromiseFacts ==
    CurationInv =>
      /\ Len(queue) <= MaxPending
      /\ \A i, j \in DOMAIN queue : queue[i].file = queue[j].file => i = j
      /\ worker.kind \in {"Trash", "PermanentDelete"} =>
           \A i \in DOMAIN queue : queue[i].file # worker.file
      /\ queue # <<>> => worker.kind = "Trash"
      /\ recovery # {} => queue = <<>> /\ worker.kind \notin {"Trash", "PermanentDelete"}
      /\ OfferIsSure /\ worker.kind # "Restore" =>
           undo.file \in Files /\ place[undo.file] = "trash"
<1> SUFFICES ASSUME CurationInv
             PROVE  /\ Len(queue) <= MaxPending
                    /\ \A i, j \in DOMAIN queue : queue[i].file = queue[j].file => i = j
                    /\ worker.kind \in {"Trash", "PermanentDelete"} =>
                         \A i \in DOMAIN queue : queue[i].file # worker.file
                    /\ queue # <<>> => worker.kind = "Trash"
                    /\ recovery # {} =>
                         queue = <<>> /\ worker.kind \notin {"Trash", "PermanentDelete"}
                    /\ OfferIsSure /\ worker.kind # "Restore" =>
                         undo.file \in Files /\ place[undo.file] = "trash"
    OBVIOUS
<1>1. CurationTypeOK /\ Ledger!LedgerInv
      BY DEF CurationInv
<1>2. Len(queue) <= MaxPending
      BY <1>1, QueueFacts DEF Ledger!LedgerInv, Ledger!LedgerTypeOK
<1>3. \A i, j \in DOMAIN queue : queue[i].file = queue[j].file => i = j
      BY <1>1, QueueFacts DEF Ledger!LedgerInv, Ledger!NoRequestTwice
<1>4. Operating.kind = worker.kind /\ (~Idle => Operating.file = worker.file)
      BY <1>1, WorkerFacts
<1>5. worker.kind \in {"Trash", "PermanentDelete"} =>
        \A i \in DOMAIN queue : queue[i].file # worker.file
      BY <1>1, <1>4, QueueFacts
         DEF Ledger!LedgerInv, Ledger!NoRequestTwice, Ledger!Removals, Idle
<1>6. queue # <<>> => worker.kind = "Trash"
      BY <1>1, <1>4, QueueFacts DEF Ledger!LedgerInv, Ledger!NobodyWaitsForNothing
<1>7. recovery # {} => queue = <<>> /\ worker.kind \notin {"Trash", "PermanentDelete"}
      BY <1>1, <1>4, QueueFacts DEF Ledger!LedgerInv, Ledger!UnknownStopsRemovals, Ledger!Removals
<1>8. OfferIsSure /\ worker.kind # "Restore" => undo.file # NoFile /\ place[undo.file] = "trash"
      BY <1>1, <1>4 DEF Ledger!LedgerInv, Ledger!OfferIsRecoverable
<1>9. undo.file \in Files \cup {NoFile}
      BY <1>1 DEF Ledger!LedgerInv, Ledger!LedgerTypeOK
<1> QED BY <1>2, <1>3, <1>5, <1>6, <1>7, <1>8, <1>9

(* CurationInv without the ledger's part, which the ledger's own theorems    *)
(* give, and the ledger's step.                                              *)
Rest ==
    /\ CurationTypeOK
    /\ Sound(browse)
    /\ browse.selected \notin InFlight
    /\ OfferStaysAside
    /\ RestoreIsOfTheOffer

(* What every action is shown to do.                                         *)
Steps == Rest' /\ [Ledger!LedgerNext]_(Ledger!ledgerVars)

(* The invariant is the two parts together ...                               *)
LEMMA RestAndLedger == CurationInv <=> Rest /\ Ledger!LedgerInv
BY DEF CurationInv, Rest, Sound, CurationTypeOK

(* ... and a step that keeps the rest and is a ledger step keeps it all.     *)
LEMMA StepsKeepInv == CurationInv /\ Steps => CurationInv'
<1>1. CurationInv' <=> Rest' /\ Ledger!LedgerInv'
      BY RestAndLedger, PTL
<1> QED BY <1>1, RestAndLedger, LedgerStepPreserves DEF Steps

(* The types of the catalog and of the Undo record.                          *)
LEMMA TypeFacts ==
    CurationTypeOK =>
      /\ Listed \subseteq Files
      /\ \A f : Contains(browse.files, f) <=> f \in Listed
      /\ undo.file \in Files \cup {NoFile}
      /\ undo # NoUndo <=> undo.file # NoFile
      /\ undo # NoUndo => /\ undo \in [file : Files, index : Nat, here : BOOLEAN, sure : BOOLEAN]
                          /\ undo.file \in Files /\ undo.index \in Nat
                          /\ undo.here \in BOOLEAN /\ undo.sure \in BOOLEAN
<1> SUFFICES ASSUME CurationTypeOK
             PROVE  /\ Listed \subseteq Files
                    /\ \A f : Contains(browse.files, f) <=> f \in Listed
                    /\ undo.file \in Files \cup {NoFile}
                    /\ undo # NoUndo <=> undo.file # NoFile
                    /\ undo # NoUndo =>
                         /\ undo \in [file : Files, index : Nat, here : BOOLEAN, sure : BOOLEAN]
                         /\ undo.file \in Files /\ undo.index \in Nat
                         /\ undo.here \in BOOLEAN /\ undo.sure \in BOOLEAN
    OBVIOUS
<1>1. browse.files \in Seq(Files)
      BY Shape DEF CurationTypeOK
<1>2. Listed \subseteq Files /\ \A f : Contains(browse.files, f) <=> f \in Listed
      BY <1>1, Listing DEF Listed
<1>3. undo = NoUndo \/ undo \in [file : Files, index : Nat, here : BOOLEAN, sure : BOOLEAN]
      BY DEF CurationTypeOK
<1>4. NoUndo.file = NoFile /\ NoFile \notin Files
      BY FilesFacts DEF NoUndo
<1> QED BY <1>2, <1>3, <1>4

(* NoFile is never listed nor in flight.                                     *)
LEMMA FilesAreNotNoFile ==
    CurationTypeOK => NoFile \notin InFlight /\ NoFile \notin Listed
BY PendingFacts, TypeFacts, FilesFacts

(* A catalog that changed within the limits is one the ledger may list.      *)
LEMMA RelistStep ==
    ASSUME CurationInv, CurationTypeOK',
           Queued' = Queued, Operating' = Operating, undo'.file = undo.file,
           OfferIsSure' = OfferIsSure, place' = place, recovery' = recovery,
           \A f \in Listed' : f \notin InFlight /\ (OfferIsSure /\ f = undo.file => f \in Listed)
    PROVE  Ledger!LedgerNext
<1>1. Listed' \subseteq Files
  <2>1. browse'.files \in Seq(Files)
        BY Shape DEF CurationTypeOK
  <2> QED BY <2>1, Listing DEF Listed
<1>2. \A f : Ledger!Pending(f) <=> f \in InFlight
      BY PendingFacts DEF CurationInv
<1>3. \A f \in Listed' : Ledger!Listable(f)
      BY <1>2 DEF Ledger!Listable
<1>4. Ledger!Relist
      BY <1>1, <1>3 DEF Ledger!Relist
<1> QED BY <1>4 DEF Ledger!LedgerNext

(* Steps of browsing, loading and rescanning: only the catalog, the          *)
(* selection and the scan change.                                            *)
LEMMA BrowsingKeeps ==
    ASSUME CurationInv, UNCHANGED <<place, worker, queue, undo, recovery>>,
           Sound(browse'), dirty' \in BOOLEAN,
           scan' = NoScan \/ scan' \in [purpose : {"refresh", "folder", "missing"},
                                         path : Files \cup {NoFile}, listing : SUBSET Files,
                                         state : {"running", "listed", "failed"}],
           \A f \in ToSet(browse'.files) :
              /\ f \notin InFlight
              /\ f = undo.file /\ (undo.here \/ undo.sure) => f \in Listed,
           browse'.selected \in ToSet(browse'.files) \cup {browse.selected, NoFile},
           worker.kind = "Restore" /\ worker.here /\ ExclusiveScan' =>
              browse'.selected \notin ToSet(browse'.files) \cup {NoFile}
    PROVE  Steps
<1>1. Listed' = ToSet(browse'.files)
      BY DEF Listed
<1>2. InFlight' = InFlight /\ Queued' = Queued /\ Operating' = Operating /\ OfferIsSure' = OfferIsSure
      BY DEF InFlight, Queued, Operating, Idle, OfferIsSure
<1>3. CurationTypeOK /\ CurationTypeOK'
      BY DEF CurationInv, CurationTypeOK, Sound
<1>4. Ledger!LedgerNext
  <2>1. \A f \in Listed' : f \notin InFlight /\ (OfferIsSure /\ f = undo.file => f \in Listed)
        BY <1>1 DEF OfferIsSure
  <2> QED BY <1>2, <1>3, <2>1, RelistStep
<1>5. browse'.selected \notin InFlight
      BY <1>3, BrowseFacts, FilesAreNotNoFile
<1>6. OfferStaysAside'
  <2> SUFFICES ASSUME undo # NoUndo, undo.here \/ undo.sure
               PROVE  undo.file \notin Listed' \cup InFlight \cup {browse'.selected}
      BY <1>2 DEF OfferStaysAside
  <2>1. undo.file \notin Listed /\ undo.file \notin InFlight /\ undo.file # browse.selected
        BY DEF CurationInv, OfferStaysAside
  <2>2. undo.file # NoFile
        BY <1>3, TypeFacts
  <2> QED BY <1>1, <2>1, <2>2
<1>7. RestoreIsOfTheOffer'
      BY <1>1 DEF CurationInv, RestoreIsOfTheOffer
<1> QED BY <1>2, <1>3, <1>4, <1>5, <1>6, <1>7 DEF Rest, Steps

(* Whatever is listed may stay listed.                                       *)
LEMMA ListedMayStay ==
    CurationInv => \A f \in Listed : f \notin InFlight /\ (f = undo.file => f \in Listed)
BY BrowseFacts

(* Moving to another entry.                                                  *)
LEMMA NavigateKeeps == ASSUME CurationInv, NEW view \in Arrivals, Navigate(view) PROVE Steps
<1>1. PICK i \in DOMAIN browse.files : browse' = Load(browse, i - 1, view)
      BY DEF Navigate
<1>2. i - 1 \in Nat /\ i - 1 < Len(browse.files) /\ browse \in Browses /\ Distinct(browse.files)
      BY BrowseFacts, Listing DEF Sound
<1>3. /\ Sound(browse')
      /\ browse'.files = browse.files
      /\ browse'.selected \in ToSet(browse.files)
      BY <1>1, <1>2, LoadFacts
<1>4. /\ UNCHANGED <<place, worker, queue, undo, recovery, scan, dirty, scansLeft>>
      /\ worker.kind # "Restore"
      BY DEF Navigate
<1>5. CurationTypeOK
      BY DEF CurationInv
<1>6. \A f \in ToSet(browse'.files) : f \notin InFlight /\ (f = undo.file => f \in Listed)
      BY <1>3, ListedMayStay DEF Listed
<1> QED BY <1>3, <1>4, <1>5, <1>6, BrowsingKeeps DEF CurationTypeOK

(* The decode ends.                                                          *)
LEMMA FinishLoadKeeps == ASSUME CurationInv, FinishLoad PROVE Steps
<1>1. /\ browse.view = "loading"
      /\ \/ browse' = [browse EXCEPT !.view = "shown", !.missing = FALSE]
         \/ browse' = [browse EXCEPT !.view = "failed", !.missing = FALSE]
      /\ UNCHANGED <<place, worker, queue, undo, recovery, scan, dirty, scansLeft>>
      BY DEF FinishLoad
<1>2. browse \in Browses /\ Sound(browse) /\ CurationTypeOK
      BY BrowseFacts
<1>3. /\ browse' \in Browses
      /\ browse'.files = browse.files
      /\ browse'.index = browse.index
      /\ browse'.selected = browse.selected
      BY <1>1, <1>2 DEF Browses, Arrivals
<1>4. browse.selected # NoFile
      BY <1>1, <1>2 DEF Sound, Selected
<1>5. Sound(browse')
      BY <1>2, <1>3, <1>4 DEF Sound, Selected
<1>6. \A f \in ToSet(browse'.files) : f \notin InFlight /\ (f = undo.file => f \in Listed)
      BY <1>3, ListedMayStay DEF Listed
<1>7. worker.kind = "Restore" /\ worker.here /\ ExclusiveScan' =>
        browse'.selected \notin ToSet(browse'.files) \cup {NoFile}
      BY <1>1, <1>3 DEF CurationInv, RestoreIsOfTheOffer, ExclusiveScan, Listed
<1> QED BY <1>1, <1>2, <1>3, <1>5, <1>6, <1>7, BrowsingKeeps DEF CurationTypeOK

(* The decode is tried again.                                                *)
LEMMA RetryLoadKeeps == ASSUME CurationInv, RetryLoad PROVE Steps
<1>1. /\ browse.view = "failed"
      /\ browse' = [browse EXCEPT !.view = "loading"]
      /\ worker.kind = "none"
      /\ UNCHANGED <<place, worker, queue, undo, recovery, scan, dirty, scansLeft>>
      BY DEF RetryLoad, Idle
<1>2. browse \in Browses /\ Sound(browse) /\ CurationTypeOK
      BY BrowseFacts
<1>3. /\ browse' \in Browses
      /\ browse'.files = browse.files
      /\ browse'.index = browse.index
      /\ browse'.selected = browse.selected
      BY <1>1, <1>2 DEF Browses, Arrivals
<1>4. browse.selected # NoFile
      BY <1>1, <1>2 DEF Sound, Selected
<1>5. Sound(browse')
      BY <1>2, <1>3, <1>4 DEF Sound, Selected
<1>6. \A f \in ToSet(browse'.files) : f \notin InFlight /\ (f = undo.file => f \in Listed)
      BY <1>3, ListedMayStay DEF Listed
<1> QED BY <1>1, <1>2, <1>3, <1>5, <1>6, BrowsingKeeps DEF CurationTypeOK

(* Scans that start: a record of the scan's type, or none.                   *)
LEMMA ScanFacts ==
    ASSUME NEW purpose \in {"refresh", "folder", "missing"}, NEW path \in Files \cup {NoFile},
           StartScan(purpose, path)
    PROVE  /\ scan' = NoScan \/ scan' \in [purpose : {"refresh", "folder", "missing"},
                                            path : Files \cup {NoFile}, listing : SUBSET Files,
                                            state : {"running", "listed", "failed"}]
           /\ ExclusiveScan' => purpose \in {"folder", "missing"}
BY DEF StartScan, Scan, NoScan, ExclusiveScan

(* Steps of an idle engine that only touch the scan.                         *)
LEMMA ScanningKeeps ==
    ASSUME CurationInv, UNCHANGED <<place, browse, worker, queue, undo, recovery>>,
           dirty' \in BOOLEAN,
           scan' = NoScan \/ scan' \in [purpose : {"refresh", "folder", "missing"},
                                         path : Files \cup {NoFile}, listing : SUBSET Files,
                                         state : {"running", "listed", "failed"}],
           Idle \/ (ExclusiveScan' => ExclusiveScan)
    PROVE  Steps
<1>1. browse' = browse /\ Sound(browse)
      BY BrowseFacts
<1>2. \A f \in ToSet(browse'.files) : f \notin InFlight /\ (f = undo.file => f \in Listed)
      BY <1>1, ListedMayStay DEF Listed
<1>3. worker.kind = "Restore" /\ worker.here /\ ExclusiveScan' =>
        browse'.selected \notin ToSet(browse'.files) \cup {NoFile}
      BY <1>1 DEF CurationInv, RestoreIsOfTheOffer, Listed, Idle
<1>4. Sound(browse') /\ browse'.selected \in ToSet(browse'.files) \cup {browse.selected, NoFile}
      BY <1>1
<1> QED BY <1>2, <1>3, <1>4, BrowsingKeeps

(* Open Folder starts a scan.                                                *)
LEMMA OpenFolderKeeps == ASSUME CurationInv, OpenFolder PROVE Steps
<1>1. dirty \in BOOLEAN
      BY DEF CurationInv, CurationTypeOK
<1> QED BY <1>1, ScanFacts, ScanningKeeps DEF OpenFolder

(* A refresh starts a scan, or waits for the one that runs.                  *)
LEMMA RefreshKeeps == ASSUME CurationInv, RefreshMembership PROVE Steps
<1>1. /\ dirty \in BOOLEAN
      /\ scan = NoScan \/ scan \in [purpose : {"refresh", "folder", "missing"},
                                     path : Files \cup {NoFile}, listing : SUBSET Files,
                                     state : {"running", "listed", "failed"}]
      BY DEF CurationInv, CurationTypeOK
<1>2. browse.selected \in Files \cup {NoFile}
      BY BrowseFacts
<1>3. CASE scan = NoScan
      BY <1>1, <1>2, <1>3, ScanFacts, ScanningKeeps DEF RefreshMembership
<1>4. CASE scan # NoScan
      BY <1>1, <1>4, ScanningKeeps DEF RefreshMembership
<1> QED BY <1>3, <1>4

(* The scan thread lists the folder.                                         *)
LEMMA ListFolderKeeps == ASSUME CurationInv, ListFolder PROVE Steps
<1>1. /\ dirty \in BOOLEAN /\ scan # NoScan
      /\ scan \in [purpose : {"refresh", "folder", "missing"},
                   path : Files \cup {NoFile}, listing : SUBSET Files,
                   state : {"running", "listed", "failed"}]
      BY DEF CurationInv, CurationTypeOK, ListFolder
<1>2. /\ scan' \in [purpose : {"refresh", "folder", "missing"},
                    path : Files \cup {NoFile}, listing : SUBSET Files,
                    state : {"running", "listed", "failed"}]
      /\ scan'.purpose = scan.purpose
      BY <1>1 DEF ListFolder
<1> QED BY <1>1, <1>2, ScanningKeeps DEF ListFolder, ExclusiveScan

(* The selected file turned out not to be there.                             *)
LEMMA MissingLoadKeeps == ASSUME CurationInv, NEW view \in Arrivals, MissingLoad(view) PROVE Steps
<1> DEFINE f     == browse.selected
           files == Without(browse.files, f)
           index == Least(PositionOf(browse.files, f), Len(files) - 1)
           gone  == [browse EXCEPT !.view = "failed", !.missing = TRUE]
<1>1. /\ browse.view = "loading"
      /\ UNCHANGED <<place, worker, queue, undo, recovery, dirty, scansLeft>>
      /\ IF Contains(browse.files, f) /\ files # <<>>
         THEN /\ browse' = Load([browse EXCEPT !.files = files], index, view)
              /\ UNCHANGED scan
         ELSE /\ browse' = IF Contains(browse.files, f)
                           THEN [gone EXCEPT !.files = <<>>, !.index = 0] ELSE gone
              /\ StartScan("missing", f)
      BY DEF MissingLoad
<1>2. browse \in Browses /\ Sound(browse) /\ CurationTypeOK /\ browse.files \in Seq(Files)
      BY BrowseFacts
<1>3. f \in Files /\ f # NoFile
      BY <1>1, <1>2, BrowseFacts DEF Sound, Selected
<1>4. files \in Seq(Files) /\ Distinct(files) /\ ToSet(files) = Listed \ {f}
      BY <1>2, WithoutFacts DEF Sound, Listed
<1> HIDE DEF files
<1>5. dirty' \in BOOLEAN
      BY <1>1, <1>2 DEF CurationTypeOK
<1>6. CASE Contains(browse.files, f) /\ files # <<>>
  <2> DEFINE b == [browse EXCEPT !.files = files]
  <2>1. b \in Browses /\ b.files = files
        BY <1>2, <1>4 DEF Browses
  <2>2. index \in Nat /\ index < Len(files)
    <3>1. PositionOf(browse.files, f) \in Nat
      <4>1. PositionOf(browse.files, f) \in 0..(Len(browse.files) - 1)
            BY <1>2, <1>6, PositionFacts
      <4> QED BY <4>1
    <3>2. Len(files) \in Nat /\ Len(files) # 0
          BY <1>4, <1>6, Listing
    <3> QED BY <3>1, <3>2 DEF Least
  <2>3. browse' = Load(b, index, view) /\ UNCHANGED scan
        BY <1>1, <1>6
  <2> HIDE DEF b, index, f
  <2>4. Sound(browse') /\ browse'.files = files /\ browse'.selected \in ToSet(files)
        BY <1>4, <2>1, <2>2, <2>3, LoadFacts
  <2>5. \A g \in ToSet(browse'.files) : g \notin InFlight /\ (g = undo.file => g \in Listed)
        BY <1>4, <2>4, ListedMayStay
  <2>6. ~(worker.kind = "Restore" /\ worker.here /\ ExclusiveScan')
    <3>1. ExclusiveScan' = ExclusiveScan
          BY <2>3 DEF ExclusiveScan
    <3>2. f \in Listed
          BY <1>2, <1>6, Listing DEF Listed
    <3> QED BY <3>1, <3>2 DEF f, CurationInv, RestoreIsOfTheOffer
  <2> QED BY <1>1, <1>2, <1>5, <2>3, <2>4, <2>5, <2>6, BrowsingKeeps DEF CurationTypeOK
<1>7. CASE ~(Contains(browse.files, f) /\ files # <<>>)
  <2>1. /\ browse' = IF Contains(browse.files, f)
                     THEN [gone EXCEPT !.files = <<>>, !.index = 0] ELSE gone
        /\ StartScan("missing", f)
        BY <1>1, <1>7
  <2>2. /\ browse' \in Browses /\ browse'.selected = f
        /\ browse'.files = IF Contains(browse.files, f) THEN <<>> ELSE browse.files
    <3>1. gone \in Browses /\ gone.selected = f /\ gone.files = browse.files
          BY <1>2 DEF Browses
    <3> HIDE DEF gone
    <3>2. CASE ~Contains(browse.files, f)
          BY <2>1, <3>1, <3>2
    <3>3. CASE Contains(browse.files, f)
      <4> DEFINE none == <<>>
      <4>1. browse' = WithFiles(gone, none, 0)
            BY <2>1, <3>3 DEF WithFiles
      <4>2. none \in Seq(Files) /\ 0 \in Nat
            OBVIOUS
      <4> HIDE DEF none
      <4>3. /\ browse' \in Browses
            /\ browse'.selected = gone.selected
            /\ browse'.files = none
            BY <3>1, <4>1, <4>2, Relisted
      <4> QED BY <3>1, <3>3, <4>3 DEF none
    <3> QED BY <3>2, <3>3
  <2>3. f \notin ToSet(browse'.files) /\ ToSet(browse'.files) \subseteq Listed /\ Distinct(browse'.files)
    <3>1. CASE Contains(browse.files, f)
      <4>1. browse'.files = <<>> /\ ToSet(<<>>) = {} /\ Distinct(<<>>)
            BY <2>2, <3>1 DEF ToSet, Distinct
      <4> QED BY <4>1
    <3>2. CASE ~Contains(browse.files, f)
          BY <1>2, <2>2, <3>2, Listing DEF Listed, Sound
    <3> QED BY <3>1, <3>2
  <2>4. ~Contains(browse'.files, f)
        BY <2>2, <2>3, Shape, Listing
  <2>5. Sound(browse')
        BY <1>3, <2>2, <2>3, <2>4 DEF Sound, Selected
  <2>6. \A g \in ToSet(browse'.files) : g \notin InFlight /\ (g = undo.file => g \in Listed)
        BY <2>3, ListedMayStay
  <2>7. scan' = NoScan \/ scan' \in [purpose : {"refresh", "folder", "missing"},
                                      path : Files \cup {NoFile}, listing : SUBSET Files,
                                      state : {"running", "listed", "failed"}]
        BY <1>3, <2>1, ScanFacts
  <2> QED BY <1>1, <1>3, <1>5, <2>2, <2>3, <2>5, <2>6, <2>7, BrowsingKeeps
<1> QED BY <1>6, <1>7

(* A new playlist: the records of the old one remain, no longer "here".      *)
LEMMA RetireFacts ==
    ASSUME CurationTypeOK, RetireScopes
    PROVE  /\ InFlight' = InFlight /\ Queued' = Queued /\ Operating' = Operating
           /\ OfferIsSure' = OfferIsSure /\ undo'.file = undo.file
           /\ undo' = NoUndo <=> undo = NoUndo
           /\ undo # NoUndo => undo'.here = FALSE /\ undo'.sure = undo.sure
           /\ worker'.kind = worker.kind
           /\ ~Idle => worker'.here = FALSE /\ worker'.file = worker.file
           /\ worker' = NoWorker \/ worker' \in [kind : Kinds, file : Files, index : Nat,
                                                 here : BOOLEAN, state : WorkerStates]
           /\ queue' \in Seq(Removal)
           /\ undo' = NoUndo \/ undo' \in [file : Files, index : Nat, here : BOOLEAN, sure : BOOLEAN]
<1>1. /\ undo' = IF undo = NoUndo THEN undo ELSE [undo EXCEPT !.here = FALSE]
      /\ worker' = IF Idle THEN worker ELSE [worker EXCEPT !.here = FALSE]
      /\ queue' = [i \in DOMAIN queue |-> [queue[i] EXCEPT !.here = FALSE]]
      BY DEF RetireScopes
<1>2. /\ OfferIsSure' = OfferIsSure /\ undo'.file = undo.file
      /\ undo' = NoUndo <=> undo = NoUndo
      /\ undo # NoUndo => undo'.here = FALSE /\ undo'.sure = undo.sure
      /\ undo' = NoUndo \/ undo' \in [file : Files, index : Nat, here : BOOLEAN, sure : BOOLEAN]
  <2>1. CASE undo = NoUndo
        BY <1>1, <2>1 DEF OfferIsSure
  <2>2. CASE undo # NoUndo
    <3>1. undo \in [file : Files, index : Nat, here : BOOLEAN, sure : BOOLEAN] /\ undo.file \in Files
          BY <2>2, TypeFacts
    <3>2. /\ undo' \in [file : Files, index : Nat, here : BOOLEAN, sure : BOOLEAN]
          /\ undo'.file = undo.file /\ undo'.here = FALSE /\ undo'.sure = undo.sure
          BY <1>1, <2>2, <3>1
    <3>3. undo' # NoUndo
          BY <3>1, <3>2, FilesFacts DEF NoUndo
    <3> QED BY <2>2, <3>2, <3>3 DEF OfferIsSure
  <2> QED BY <2>1, <2>2
<1>3. /\ worker'.kind = worker.kind
      /\ ~Idle => worker'.here = FALSE /\ worker'.file = worker.file /\ worker'.state = worker.state
      /\ worker' = NoWorker \/ worker' \in [kind : Kinds, file : Files, index : Nat,
                                            here : BOOLEAN, state : WorkerStates]
  <2>1. worker = NoWorker \/ worker \in [kind : Kinds, file : Files, index : Nat,
                                         here : BOOLEAN, state : WorkerStates]
        BY DEF CurationTypeOK
  <2>2. CASE Idle
        BY <1>1, <2>1, <2>2
  <2>3. CASE ~Idle
    <3>1. worker \in [kind : Kinds, file : Files, index : Nat, here : BOOLEAN, state : WorkerStates]
          BY <2>1, <2>3, WorkerFacts
    <3>2. worker' = [worker EXCEPT !.here = FALSE]
          BY <1>1, <2>3
    <3> QED BY <3>1, <3>2
  <2> QED BY <2>2, <2>3
<1>4. Operating' = Operating
      BY <1>3 DEF Operating, Idle
<1>5. /\ DOMAIN queue' = DOMAIN queue /\ DOMAIN queue = 1..Len(queue)
      /\ \A i \in DOMAIN queue : queue'[i].file = queue[i].file /\ queue'[i] \in Removal
      BY <1>1, QueueFacts DEF Removal
<1>6. queue' \in Seq(Removal)
  <2>1. queue' \in [1..Len(queue) -> Removal]
        BY <1>1, <1>5
  <2> QED BY <2>1, QueueFacts, SeqDef
<1>7. Queued' = Queued
      BY <1>5 DEF Queued
<1>8. InFlight' = InFlight
  <2>1. {queue'[i].file : i \in DOMAIN queue'} = {queue[i].file : i \in DOMAIN queue}
        BY <1>5
  <2>2. worker.kind \in {"Trash", "PermanentDelete"} => worker'.file = worker.file
        BY <1>3 DEF Idle
  <2> QED BY <1>3, <2>1, <2>2 DEF InFlight
<1> QED BY <1>2, <1>3, <1>4, <1>6, <1>7, <1>8

(* A playlist is installed: every captured scope is retired.                 *)
LEMMA InstallKeeps ==
    ASSUME CurationInv, RetireScopes, UNCHANGED <<place, recovery>>,
           Sound(browse'), dirty' \in BOOLEAN,
           scan' = NoScan \/ scan' \in [purpose : {"refresh", "folder", "missing"},
                                         path : Files \cup {NoFile}, listing : SUBSET Files,
                                         state : {"running", "listed", "failed"}],
           \A f \in ToSet(browse'.files) :
              f \notin InFlight /\ (OfferIsSure /\ f = undo.file => f \in Listed),
           browse'.selected \in ToSet(browse'.files)
    PROVE  Steps
<1>1. CurationTypeOK /\ Listed' = ToSet(browse'.files)
      BY DEF CurationInv, Listed
<1>2. /\ InFlight' = InFlight /\ Queued' = Queued /\ Operating' = Operating
      /\ OfferIsSure' = OfferIsSure /\ undo'.file = undo.file
      /\ undo' = NoUndo <=> undo = NoUndo
      /\ undo # NoUndo => undo'.here = FALSE /\ undo'.sure = undo.sure
      /\ worker'.kind = worker.kind
      /\ ~Idle => worker'.here = FALSE /\ worker'.file = worker.file
      BY <1>1, RetireFacts
<1>3. CurationTypeOK'
      BY <1>1, RetireFacts DEF CurationTypeOK, Sound
<1>4. Ledger!LedgerNext
      BY <1>1, <1>2, <1>3, RelistStep
<1>5. browse'.selected \notin InFlight'
      BY <1>1, <1>2
<1>6. OfferStaysAside'
  <2> SUFFICES ASSUME undo # NoUndo, undo.sure
               PROVE  undo.file \notin Listed' \cup InFlight' \cup {browse'.selected}
      BY <1>2 DEF OfferStaysAside
  <2>1. undo.file \notin Listed /\ undo.file \notin InFlight
        BY DEF CurationInv, OfferStaysAside
  <2>2. undo.file \notin Listed'
        BY <1>1, <2>1 DEF OfferIsSure
  <2> QED BY <1>1, <1>2, <2>1, <2>2
<1>7. RestoreIsOfTheOffer'
  <2> SUFFICES ASSUME worker.kind = "Restore"
               PROVE  /\ undo' # NoUndo /\ worker'.file = undo'.file
                      /\ worker'.here = undo'.here /\ worker'.here = FALSE
      BY <1>2 DEF RestoreIsOfTheOffer
  <2> QED BY <1>2 DEF CurationInv, RestoreIsOfTheOffer, Idle
<1> QED BY <1>3, <1>4, <1>5, <1>6, <1>7 DEF Rest, Steps

(* Another image is opened.                                                  *)
LEMMA OpenPathKeeps == ASSUME CurationInv, OpenPath PROVE Steps
<1> DEFINE retried(f) == browse.missing /\ f = browse.selected
<1>1. PICK f \in Files :
        /\ OnDisk(f) \/ retried(f)
        /\ browse' = [files |-> <<f>>, index |-> 0, selected |-> f,
                      view |-> "loading", missing |-> retried(f)]
        /\ StartScan(IF retried(f) THEN "missing" ELSE "refresh", f)
      BY DEF OpenPath
<1>2. worker.kind = "none" /\ RetireScopes /\ UNCHANGED <<place, recovery, dirty>>
      BY DEF OpenPath, Idle
<1>3. browse.missing \in BOOLEAN /\ dirty \in BOOLEAN /\ CurationTypeOK
      BY Shape DEF CurationInv, CurationTypeOK
<1>4. scan' = NoScan \/ scan' \in [purpose : {"refresh", "folder", "missing"},
                                    path : Files \cup {NoFile}, listing : SUBSET Files,
                                    state : {"running", "listed", "failed"}]
      BY <1>1, ScanFacts
<1>5. ToSet(<<f>>) = {f}
      BY DEF ToSet
<1>6. Sound(browse')
  <2>1. browse' \in Browses
        BY <1>1, <1>3 DEF Browses, Arrivals
  <2>2. Distinct(<<f>>)
        BY DEF Distinct
  <2>3. f # NoFile
        BY FilesFacts
  <2>4. /\ browse'.files = <<f>> /\ browse'.index = 0 /\ browse'.selected = f
        BY <1>1
  <2>5. Selected(browse')
        BY <2>3, <2>4 DEF Selected
  <2> QED BY <2>1, <2>2, <2>4, <2>5 DEF Sound
<1>7. f \notin InFlight
  <2>1. queue = <<>>
        BY <1>2, PromiseFacts
  <2> QED BY <1>2, <2>1 DEF InFlight
<1>8. ~(OfferIsSure /\ f = undo.file)
  <2> SUFFICES ASSUME OfferIsSure, f = undo.file
               PROVE  FALSE
      OBVIOUS
  <2>1. place[f] = "trash"
        BY <1>2, PromiseFacts
  <2>2. f # browse.selected
        BY DEF CurationInv, OfferStaysAside, OfferIsSure
  <2> QED BY <1>1, <2>1, <2>2 DEF OnDisk
<1>9. browse'.files = <<f>> /\ browse'.selected = f
      BY <1>1
<1> HIDE DEF retried
<1> QED BY <1>2, <1>3, <1>4, <1>5, <1>6, <1>7, <1>8, <1>9, InstallKeeps

(* A rescan of the open playlist.                                            *)
LEMMA AdoptFacts ==
    ASSUME Sound(browse), NEW entries \in Seq(Files), entries # <<>>, Distinct(entries),
           NEW view \in Arrivals
    PROVE  /\ Sound(Adopt(entries, view))
           /\ Adopt(entries, view).files = entries
           /\ Adopt(entries, view).selected \in ToSet(entries) \cup {browse.selected}
<1> DEFINE b == Reconcile(browse, entries, ScanTarget)
           r == Adopt(entries, view)
<1>1. browse \in Browses /\ Selected(browse)
      BY DEF Sound
<1>2. /\ b \in Browses
      /\ b.files = entries
      /\ b.index < Len(entries)
      /\ b.selected = browse.selected
      /\ b.view = browse.view
      /\ b.missing = browse.missing
      /\ Contains(entries, ScanTarget) => entries[b.index + 1] = ScanTarget
      BY <1>1, ReconcileFacts
<1>3. r = IF browse.selected = NoFile THEN Load(b, b.index, view)
          ELSE IF browse.missing /\ Contains(entries, ScanTarget)
          THEN [b EXCEPT !.view = view, !.missing = FALSE]
          ELSE b
      BY DEF Adopt
<1>4. browse.selected # NoFile => ScanTarget = browse.selected
      BY DEF ScanTarget
<1> HIDE DEF b, r
<1>5. CASE browse.selected = NoFile
  <2>1. r = Load(b, b.index, view) /\ b.index \in Nat /\ Distinct(b.files)
        BY <1>2, <1>3, <1>5, Shape
  <2>2. Sound(r) /\ r.files = b.files /\ r.selected \in ToSet(b.files)
        BY <1>2, <2>1, LoadFacts
  <2> QED BY <1>2, <2>2 DEF r
<1>6. CASE browse.selected # NoFile
  <2>1. /\ r \in Browses /\ r.files = entries /\ r.index = b.index
        /\ r.selected = browse.selected
    <3>1. CASE browse.missing /\ Contains(entries, ScanTarget)
      <4>1. r = [b EXCEPT !.view = view, !.missing = FALSE]
            BY <1>3, <1>6, <3>1
      <4> QED BY <1>2, <4>1 DEF Browses
    <3>2. CASE ~(browse.missing /\ Contains(entries, ScanTarget))
      <4>1. r = b
            BY <1>3, <1>6, <3>2
      <4> QED BY <1>2, <4>1
    <3> QED BY <3>1, <3>2
  <2>2. Selected(r)
        BY <1>2, <1>4, <1>6, <2>1 DEF Selected
  <2> QED BY <1>6, <2>1, <2>2 DEF Sound, r
<1> QED BY <1>5, <1>6

(* The event loop takes the listing of a finished scan.                      *)
LEMMA PollFolderScanKeeps ==
    ASSUME CurationInv, NEW view \in Arrivals, PollFolderScan(view) PROVE Steps
<1> DEFINE found     == {f \in scan.listing : Admissible(f)}
           entries   == InFolderOrder(found)
           recovers  == scan.purpose = "missing" \/ browse.missing
           installs  == /\ entries # <<>>
                        /\ \/ scan.purpose = "folder"
                           \/ recovers /\ ~Contains(entries, ScanTarget)
           stale     == scan.purpose = "missing" /\ browse.selected # scan.path
<1>1. /\ scan # NoScan
      /\ IF scan.state = "failed" \/ entries = <<>> \/ stale
         THEN UNCHANGED <<browse, worker, queue, undo>>
         ELSE IF installs
         THEN /\ browse' = [files |-> entries, index |-> 0, selected |-> entries[1],
                            view |-> "loading", missing |-> FALSE]
              /\ RetireScopes
         ELSE /\ browse' = Adopt(entries, view)
              /\ UNCHANGED <<worker, queue, undo>>
      /\ IF dirty /\ browse'.selected # NoFile
         THEN StartScan("refresh", browse'.selected) ELSE scan' = NoScan
      /\ dirty' = FALSE
      /\ UNCHANGED <<place, recovery, scansLeft>>
      BY DEF PollFolderScan, FinishScan
<1> HIDE DEF recovers, stale
<1>2. CurationTypeOK /\ Sound(browse)
      BY BrowseFacts
<1>3. found \subseteq Files /\ \A f \in found : f \notin InFlight /\ (f = undo.file => f \in Listed)
      BY <1>1, <1>2, TypeFacts DEF CurationTypeOK, Admissible
<1>4. entries \in Seq(Files) /\ Distinct(entries) /\ ToSet(entries) \subseteq found
      BY <1>3, FolderOrderFacts
<1> HIDE DEF found, entries
<1>5. ASSUME browse'.selected \in Files \cup {NoFile}
      PROVE  /\ scan' = NoScan \/ scan' \in [purpose : {"refresh", "folder", "missing"},
                                              path : Files \cup {NoFile}, listing : SUBSET Files,
                                              state : {"running", "listed", "failed"}]
             /\ ~ExclusiveScan'
  <2>1. CASE scan' = NoScan
        BY <2>1 DEF NoScan, ExclusiveScan
  <2>2. CASE StartScan("refresh", browse'.selected)
        BY <1>5, <2>2, ScanFacts
  <2> QED BY <1>1, <2>1, <2>2
<1>6. CASE UNCHANGED <<browse, worker, queue, undo>>
  <2>1. Sound(browse') /\ browse'.selected \in Files \cup {NoFile}
        BY <1>2, <1>6, BrowseFacts
  <2>2. \A f \in ToSet(browse'.files) : f \notin InFlight /\ (f = undo.file => f \in Listed)
        BY <1>6, ListedMayStay DEF Listed
  <2>3. browse'.selected = browse.selected
        BY <1>6
  <2> QED BY <1>1, <1>5, <1>6, <2>1, <2>2, <2>3, BrowsingKeeps
<1>7. CASE /\ entries # <<>>
           /\ browse' = [files |-> entries, index |-> 0, selected |-> entries[1],
                         view |-> "loading", missing |-> FALSE]
           /\ RetireScopes
  <2>1. 1 \in 1..Len(entries) /\ entries[1] \in Files /\ entries[1] \in ToSet(entries) /\ entries[1] # NoFile
        BY <1>4, <1>7, Listing, FilesFacts DEF ToSet
  <2>2. /\ browse'.files = entries /\ browse'.index = 0 /\ browse'.selected = entries[1]
        /\ browse' \in Browses
        BY <1>4, <1>7, <2>1 DEF Browses, Arrivals
  <2>3. Sound(browse')
        BY <1>4, <2>1, <2>2 DEF Sound, Selected
  <2>4. \A f \in ToSet(browse'.files) :
           f \notin InFlight /\ (OfferIsSure /\ f = undo.file => f \in Listed)
        BY <1>3, <1>4, <2>2
  <2> QED BY <1>1, <1>5, <1>7, <2>1, <2>2, <2>3, <2>4, InstallKeeps
<1>8. CASE entries # <<>> /\ browse' = Adopt(entries, view) /\ UNCHANGED <<worker, queue, undo>>
  <2>1. /\ Sound(browse') /\ browse'.files = entries
        /\ browse'.selected \in ToSet(entries) \cup {browse.selected}
        BY <1>2, <1>4, <1>8, AdoptFacts
  <2>2. \A f \in ToSet(browse'.files) : f \notin InFlight /\ (f = undo.file => f \in Listed)
        BY <1>3, <1>4, <2>1
  <2>3. browse'.selected \in Files \cup {NoFile}
        BY <2>1, Shape DEF Sound
  <2> QED BY <1>1, <1>5, <1>8, <2>1, <2>2, <2>3, BrowsingKeeps
<1> QED BY <1>1, <1>6, <1>7, <1>8

(* The context captured for a removal names the file and its position.       *)
LEMMA ContextFacts ==
    ASSUME CurationInv, NEW f \in Files
    PROVE  /\ ContextFor(browse, f) \in Removal
           /\ ContextFor(browse, f).file = f
           /\ ContextFor(browse, f).index \in Nat
<1>1. browse.files \in Seq(Files) /\ browse.index \in Nat
      BY BrowseFacts
<1>2. ASSUME Contains(browse.files, f)
      PROVE  PositionOf(browse.files, f) \in Nat
  <2>1. PositionOf(browse.files, f) \in 0..(Len(browse.files) - 1)
        BY <1>1, <1>2, PositionFacts
  <2> QED BY <2>1
<1> QED BY <1>1, <1>2 DEF ContextFor, Removal

(* What the selection gives away when it is removed.                         *)
LEMMA SelectionLeaves ==
    ASSUME CurationInv, Presented, NEW view \in Arrivals
    PROVE  LET f == browse.selected
               c == ContextFor(browse, f)
               r == AfterRemoved(browse, c.file, c.index, view)
           IN  /\ f \in Files /\ f \notin InFlight
               /\ undo # NoUndo /\ (undo.here \/ undo.sure) => undo.file # f
               /\ c \in Removal /\ c.file = f /\ c.index \in Nat
               /\ Sound(r)
               /\ ToSet(r.files) = Listed \ {f}
               /\ r.selected \in (Listed \ {f}) \cup {NoFile}
<1> DEFINE f == browse.selected
           c == ContextFor(browse, f)
           r == AfterRemoved(browse, c.file, c.index, view)
<1>1. browse \in Browses /\ Sound(browse) /\ f \notin InFlight
      BY BrowseFacts
<1>2. f \in Files
      BY <1>1, BrowseFacts DEF Presented, Sound, Selected
<1>3. undo # NoUndo /\ (undo.here \/ undo.sure) => undo.file # f
      BY DEF CurationInv, OfferStaysAside
<1>4. c \in Removal /\ c.file = f /\ c.index \in Nat
      BY <1>2, ContextFacts
<1> HIDE DEF c, f
<1>5. /\ Sound(r)
      /\ ToSet(r.files) = Listed \ {f}
      /\ r.selected \in (Listed \ {f}) \cup {NoFile}
  <2>1. c.file \in Files
        BY <1>2, <1>4
  <2>2. /\ Sound(r)
        /\ ToSet(r.files) = ToSet(browse.files) \ {c.file}
        /\ r.selected \in ToSet(browse.files) \ {c.file} \/ r.selected = NoFile
        BY <1>1, <1>4, <2>1, AfterRemovedFacts
  <2> HIDE DEF r
  <2> QED BY <1>4, <2>2 DEF Listed
<1> QED BY <1>1, <1>2, <1>3, <1>4, <1>5 DEF c, f

(* An accepted removal: f leaves the catalog and is pending from then on.    *)
LEMMA AcceptKeeps ==
    ASSUME CurationInv, NEW f \in Files, f \notin InFlight,
           undo # NoUndo /\ (undo.here \/ undo.sure) => undo.file # f,
           UNCHANGED <<place, undo, recovery, scan, dirty>>,
           Sound(browse'), ToSet(browse'.files) = Listed \ {f},
           browse'.selected \in (Listed \ {f}) \cup {NoFile},
           CurationTypeOK', InFlight' = InFlight \cup {f}, worker'.kind # "Restore",
           Ledger!LedgerNext
    PROVE  Steps
<1>1. Listed' = Listed \ {f}
      BY DEF Listed
<1>2. CurationTypeOK /\ browse'.selected \notin InFlight'
      BY BrowseFacts, FilesAreNotNoFile, FilesFacts
<1>3. OfferStaysAside'
  <2> SUFFICES ASSUME undo # NoUndo, undo.here \/ undo.sure
               PROVE  undo.file \notin Listed' \cup InFlight' \cup {browse'.selected}
      BY DEF OfferStaysAside
  <2>1. undo.file \notin Listed /\ undo.file \notin InFlight
        BY DEF CurationInv, OfferStaysAside
  <2>2. undo.file # NoFile
        BY <1>2, TypeFacts
  <2> QED BY <1>1, <2>1, <2>2
<1>4. RestoreIsOfTheOffer'
      BY DEF RestoreIsOfTheOffer
<1> QED BY <1>2, <1>3, <1>4 DEF Rest, Steps

(* A removal that starts at once.                                            *)
LEMMA StartRemovalKeeps ==
    ASSUME CurationInv, Presented, Idle, recovery = {}, NEW view \in Arrivals,
           NEW kind \in {"Trash", "PermanentDelete"},
           worker' = Worker(kind, ContextFor(browse, browse.selected)),
           browse' = AfterRemoved(browse, ContextFor(browse, browse.selected).file,
                                  ContextFor(browse, browse.selected).index, view),
           UNCHANGED <<place, queue, undo, recovery, scan, dirty, scansLeft>>
    PROVE  Steps
<1> DEFINE f == browse.selected
           c == ContextFor(browse, f)
<1>1. /\ f \in Files /\ f \notin InFlight
      /\ undo # NoUndo /\ (undo.here \/ undo.sure) => undo.file # f
      /\ c \in Removal /\ c.file = f /\ c.index \in Nat
      /\ Sound(browse')
      /\ ToSet(browse'.files) = Listed \ {f}
      /\ browse'.selected \in (Listed \ {f}) \cup {NoFile}
      BY SelectionLeaves
<1>2. CurationTypeOK /\ queue = <<>>
      BY BrowseFacts, PromiseFacts DEF Idle
<1>3. worker' = Worker(kind, c)
      OBVIOUS
<1> HIDE DEF c, f
<1>4. /\ worker' \in [kind : Kinds, file : Files, index : Nat, here : BOOLEAN, state : WorkerStates]
      /\ worker'.kind = kind /\ worker'.file = f /\ worker'.state = "running"
      BY <1>1, <1>3 DEF Worker, Removal, Kinds, WorkerStates
<1>5. CurationTypeOK'
      BY <1>1, <1>2, <1>4 DEF CurationTypeOK, Sound
<1>6. InFlight = {} /\ InFlight' = {f}
      BY <1>2, <1>4 DEF InFlight, Idle
<1>7. Queued' = Queued /\ OfferIsSure' = OfferIsSure /\ Listed' = Listed \ {f}
      BY <1>1 DEF Queued, OfferIsSure, Listed
<1>8. Operating = Ledger!None /\ Operating' = Ledger!Operation(kind, f)
      BY <1>2, <1>4, WorkerFacts DEF Ledger!None, Ledger!Operation, Operating, Idle, Outcome
<1>9. ~Ledger!Pending(f) /\ (OfferIsSure => f # undo.file)
      BY <1>1, <1>2, PendingFacts DEF OfferIsSure
<1>10. Ledger!Accept(kind, f)
      BY <1>7, <1>8, <1>9 DEF Ledger!Accept
<1>11. Ledger!LedgerNext
      BY <1>1, <1>10 DEF Ledger!LedgerNext, Ledger!Removals
<1> QED BY <1>1, <1>4, <1>5, <1>6, <1>11, AcceptKeeps

(* Shift+Delete.                                                             *)
LEMMA PermanentDeleteKeeps ==
    ASSUME CurationInv, NEW view \in Arrivals, PermanentDeleteCurrent(view) PROVE Steps
BY StartRemovalKeeps DEF PermanentDeleteCurrent

(* A removal that waits behind a running move to Trash.                      *)
LEMMA QueueRemovalKeeps ==
    ASSUME CurationInv, Presented, worker.kind = "Trash", recovery = {}, HasRoom,
           NEW view \in Arrivals,
           queue' = Append(queue, ContextFor(browse, browse.selected)),
           browse' = AfterRemoved(browse, ContextFor(browse, browse.selected).file,
                                  ContextFor(browse, browse.selected).index, view),
           UNCHANGED <<place, worker, undo, recovery, scan, dirty, scansLeft>>
    PROVE  Steps
<1> DEFINE f == browse.selected
           c == ContextFor(browse, f)
<1>1. /\ f \in Files /\ f \notin InFlight
      /\ undo # NoUndo /\ (undo.here \/ undo.sure) => undo.file # f
      /\ c \in Removal /\ c.file = f /\ c.index \in Nat
      /\ Sound(browse')
      /\ ToSet(browse'.files) = Listed \ {f}
      /\ browse'.selected \in (Listed \ {f}) \cup {NoFile}
      BY SelectionLeaves
<1>2. CurationTypeOK
      BY BrowseFacts
<1>3. queue' = Append(queue, c)
      OBVIOUS
<1> HIDE DEF c, f
<1> DEFINE n == Len(queue)
<1>4. /\ queue \in Seq(Removal) /\ n \in Nat /\ DOMAIN queue = 1..n
      /\ \A i \in 1..n : Queued[i] = queue[i].file
      /\ Queued \in Seq(Files) /\ Len(Queued) = n /\ Len(queue) = n
      BY <1>2, QueueFacts
<1> HIDE DEF n
<1>5. /\ queue' \in Seq(Removal)
      /\ Len(queue') = n + 1
      /\ \A i \in 1..n : queue'[i] = queue[i]
      /\ queue'[n + 1] = c
      BY <1>1, <1>3, <1>4, AppendProperties
<1>6. DOMAIN queue' = 1..(n + 1) /\ 1..(n + 1) = (1..n) \cup {n + 1} /\ (n + 1) \notin 1..n
      BY <1>4, <1>5, LenProperties
<1>7. CurationTypeOK'
      BY <1>1, <1>2, <1>5 DEF CurationTypeOK, Sound
<1>8. InFlight' = InFlight \cup {f}
  <2>1. {queue'[i].file : i \in DOMAIN queue'} = {queue[i].file : i \in DOMAIN queue} \cup {f}
        BY <1>1, <1>4, <1>5, <1>6
  <2> QED BY <2>1 DEF InFlight
<1>9. Queued' = Append(Queued, f)
  <2>1. /\ Append(Queued, f) \in Seq(Files) /\ Len(Append(Queued, f)) = n + 1
        /\ \A i \in 1..n : Append(Queued, f)[i] = queue[i].file
        /\ Append(Queued, f)[n + 1] = f
    <3> DEFINE q == Queued
    <3>1. q \in Seq(Files) /\ Len(q) = n /\ \A i \in 1..n : q[i] = queue[i].file
          BY <1>4
    <3> HIDE DEF q
    <3>2. /\ Append(q, f) \in Seq(Files) /\ Len(Append(q, f)) = n + 1
          /\ \A i \in 1..n : Append(q, f)[i] = q[i]
          /\ Append(q, f)[n + 1] = f
          BY <1>1, <3>1, AppendProperties
    <3> QED BY <3>1, <3>2 DEF q
  <2>2. Queued' \in Seq(Files) /\ Len(Queued') = n + 1
    <3>1. Queued' = [i \in 1..(n + 1) |-> queue'[i].file]
          BY <1>6 DEF Queued
    <3>2. \A i \in 1..(n + 1) : queue'[i].file \in Files
          BY <1>1, <1>4, <1>5, <1>6, <1>2, QueueFacts
    <3>3. Queued' \in [1..(n + 1) -> Files] /\ n + 1 \in Nat
          BY <1>4, <3>1, <3>2
    <3>4. Queued' \in Seq(Files)
          BY <3>3, SeqDef
    <3> QED BY <3>3, <3>4, LenProperties
  <2>3. \A i \in 1..(n + 1) : Queued'[i] = queue'[i].file
        BY <1>6 DEF Queued
  <2>4. \A i \in 1..(n + 1) : Queued'[i] = Append(Queued, f)[i]
        BY <1>1, <1>4, <1>5, <1>6, <2>1, <2>3
  <2> QED BY <2>1, <2>2, <2>4, SeqEqual
<1>10. Operating' = Operating /\ OfferIsSure' = OfferIsSure /\ Listed' = Listed \ {f}
      BY <1>1 DEF Operating, Idle, OfferIsSure, Listed
<1>11. ~Ledger!Pending(f) /\ (OfferIsSure => f # undo.file) /\ Operating.kind = "Trash"
      BY <1>1, <1>2, PendingFacts, WorkerFacts DEF OfferIsSure
<1>12. Ledger!Accept("Trash", f)
  <2>1. Len(Queued) < MaxPending
        BY <1>4 DEF HasRoom
  <2> QED BY <1>9, <1>10, <1>11, <2>1 DEF Ledger!Accept
<1>13. Ledger!LedgerNext
      BY <1>1, <1>12 DEF Ledger!LedgerNext, Ledger!Removals
<1> QED BY <1>1, <1>7, <1>8, <1>13, AcceptKeeps

(* The thread could not be started: the removal is taken back at once.       *)
LEMMA TakenBackKeeps ==
    ASSUME CurationInv, Presented, Idle, NEW view \in Arrivals,
           browse' = Revert(AfterRemoved(browse, ContextFor(browse, browse.selected).file,
                                         ContextFor(browse, browse.selected).index, view),
                            ContextFor(browse, browse.selected), view),
           UNCHANGED <<place, worker, queue, undo, recovery, scan, dirty, scansLeft>>
    PROVE  Steps
<1> DEFINE f == browse.selected
           c == ContextFor(browse, f)
           r == AfterRemoved(browse, c.file, c.index, view)
<1>1. /\ f \in Files /\ f \notin InFlight
      /\ undo # NoUndo /\ (undo.here \/ undo.sure) => undo.file # f
      /\ c.file = f /\ c.index \in Nat
      /\ Sound(r)
      /\ ToSet(r.files) = Listed \ {f}
      /\ r.selected \in (Listed \ {f}) \cup {NoFile}
      BY SelectionLeaves
<1>2. browse' = Revert(r, c, view)
      OBVIOUS
<1>3. CurationTypeOK
      BY BrowseFacts
<1> HIDE DEF c, r
<1>4. r.selected # c.file
      BY <1>1, FilesFacts
<1>5. /\ Sound(browse')
      /\ ToSet(browse'.files) = ToSet(r.files) \cup {f}
      /\ browse'.selected = r.selected \/ browse'.selected = f
      BY <1>1, <1>2, <1>4, RevertFacts
<1>6. \A g \in ToSet(browse'.files) :
         /\ g \notin InFlight
         /\ g = undo.file /\ (undo.here \/ undo.sure) => g \in Listed
  <2> SUFFICES ASSUME NEW g \in ToSet(browse'.files)
               PROVE  /\ g \notin InFlight
                      /\ g = undo.file /\ (undo.here \/ undo.sure) => g \in Listed
      OBVIOUS
  <2>1. CASE g = f
        BY <1>1, <1>3, <2>1, TypeFacts, FilesFacts
  <2>2. CASE g \in Listed
        BY <2>2, ListedMayStay
  <2> QED BY <1>1, <1>5, <2>1, <2>2
<1>7. browse'.selected \in ToSet(browse'.files) \cup {browse.selected, NoFile}
      BY <1>1, <1>5
<1> QED BY <1>3, <1>5, <1>6, <1>7, BrowsingKeeps DEF Idle, CurationTypeOK

(* Delete: starts, waits, or is taken back.                                  *)
LEMMA TrashCurrentKeeps ==
    ASSUME CurationInv, NEW view \in Arrivals, TrashCurrent(view) PROVE Steps
<1> DEFINE c == ContextFor(browse, browse.selected)
           committed == AfterRemoved(browse, c.file, c.index, view)
<1>1. /\ Presented /\ recovery = {}
      /\ UNCHANGED <<place, undo, recovery, scan, dirty, scansLeft>>
      BY DEF TrashCurrent
<1>2. CASE Idle /\ worker' = Worker("Trash", c) /\ browse' = committed /\ UNCHANGED queue
      BY <1>1, <1>2, StartRemovalKeeps
<1>3. CASE Idle /\ browse' = Revert(committed, c, view) /\ UNCHANGED <<worker, queue>>
      BY <1>1, <1>3, TakenBackKeeps
<1>4. CASE /\ worker.kind = "Trash" /\ HasRoom /\ queue' = Append(queue, c)
           /\ browse' = committed /\ UNCHANGED worker
      BY <1>1, <1>4, QueueRemovalKeeps
<1> QED BY <1>2, <1>3, <1>4 DEF TrashCurrent

(* U starts a restore of the file offered.                                   *)
LEMMA UndoTrashKeeps == ASSUME CurationInv, UndoTrash PROVE Steps
<1>1. /\ Idle /\ undo # NoUndo /\ ~ExclusiveScan
      /\ worker' = Worker("Restore", undo)
      /\ UNCHANGED <<place, browse, queue, undo, recovery, scan, dirty, scansLeft>>
      BY DEF UndoTrash
<1>2. CurationTypeOK
      BY DEF CurationInv
<1>3. undo.file \in Files /\ undo.index \in Nat /\ undo.here \in BOOLEAN
      BY <1>1, <1>2, TypeFacts
<1>4. /\ worker' \in [kind : Kinds, file : Files, index : Nat, here : BOOLEAN, state : WorkerStates]
      /\ worker'.kind = "Restore" /\ worker'.file = undo.file /\ worker'.here = undo.here
      /\ worker'.state = "running"
      BY <1>1, <1>3 DEF Worker, Kinds, WorkerStates
<1>5. CurationTypeOK'
      BY <1>1, <1>2, <1>4 DEF CurationTypeOK
<1>6. InFlight' = InFlight
      BY <1>1, <1>4 DEF InFlight, Idle
<1>7. Listed' = Listed /\ Queued' = Queued /\ OfferIsSure' = OfferIsSure
      BY <1>1 DEF Listed, Queued, OfferIsSure
<1>8. Operating = Ledger!None /\ Operating' = Ledger!Operation("Restore", undo.file)
      BY <1>1, <1>2, <1>4, WorkerFacts DEF Ledger!None, Ledger!Operation, Operating, Idle, Outcome
<1>9. Ledger!StartRestore
      BY <1>1, <1>3, <1>7, <1>8, FilesFacts DEF Ledger!StartRestore
<1>10. RestoreIsOfTheOffer'
      BY <1>1, <1>4 DEF RestoreIsOfTheOffer, ExclusiveScan
<1>11. OfferStaysAside' /\ Sound(browse)' /\ browse'.selected \notin InFlight'
      BY <1>1, <1>6, <1>7, BrowseFacts DEF CurationInv, OfferStaysAside
<1> QED BY <1>5, <1>9, <1>10, <1>11 DEF Rest, Steps, Ledger!LedgerNext

(* The thread publishes an outcome and moves at most its own file.           *)
LEMMA PublishKeeps ==
    ASSUME CurationInv, ~Idle, worker.state = "running",
           NEW state \in WorkerStates \ {"running"}, Publish(state),
           UNCHANGED <<browse, queue, undo, recovery, scan, dirty, scansLeft>>,
           \/ /\ Outcome(state) # "unmoved"
              /\ place[worker.file] = IF worker.kind = "Restore" THEN "trash" ELSE "folder"
              /\ place' = [place EXCEPT ![worker.file] = Ledger!Destination(worker.kind)]
           \/ /\ Outcome(state) # "moved"
              /\ UNCHANGED place
    PROVE  Steps
<1>1. CurationTypeOK
      BY DEF CurationInv
<1>2. /\ worker \in [kind : Kinds, file : Files, index : Nat, here : BOOLEAN, state : WorkerStates]
      /\ worker' = [worker EXCEPT !.state = state]
      BY <1>1, WorkerFacts DEF CurationTypeOK, Publish
<1>3. /\ worker' \in [kind : Kinds, file : Files, index : Nat, here : BOOLEAN, state : WorkerStates]
      /\ worker'.kind = worker.kind /\ worker'.file = worker.file
      /\ worker'.here = worker.here /\ worker'.state = state
      BY <1>2
<1>4. CurationTypeOK'
      BY <1>1, <1>3 DEF CurationTypeOK
<1>5. InFlight' = InFlight /\ Listed' = Listed /\ Queued' = Queued /\ OfferIsSure' = OfferIsSure
      BY <1>3 DEF InFlight, Listed, Queued, OfferIsSure
<1>6. /\ Operating = [kind |-> worker.kind, file |-> worker.file, outcome |-> "running"]
      /\ Operating' = [kind |-> worker.kind, file |-> worker.file, outcome |-> Outcome(state)]
      BY <1>3 DEF Operating, Idle, Outcome
<1>7. Outcome(state) \in {"moved", "unmoved", "lost"}
      BY DEF Outcome, WorkerStates
<1>8. Operating # Ledger!None
      BY <1>6 DEF Ledger!None, Idle
<1>9. Operating' = [Operating EXCEPT !.outcome = Outcome(state)]
      BY <1>6
<1>10. Ledger!PlatformActs
      BY <1>5, <1>6, <1>7, <1>8, <1>9 DEF Ledger!PlatformActs
<1>11. OfferStaysAside' /\ RestoreIsOfTheOffer' /\ Sound(browse)' /\ browse'.selected \notin InFlight'
      BY <1>3, <1>5, BrowseFacts
         DEF CurationInv, OfferStaysAside, RestoreIsOfTheOffer, ExclusiveScan
<1> QED BY <1>4, <1>10, <1>11 DEF Rest, Steps, Ledger!LedgerNext

(* One platform call, in each of its outcomes.                               *)
LEMMA PlatformKeeps == ASSUME CurationInv, PlatformCall PROVE Steps
<1>1. /\ ~Idle /\ worker.state = "running"
      /\ UNCHANGED <<browse, queue, undo, recovery, scan, dirty, scansLeft>>
      BY DEF PlatformCall
<1>2. CASE PlatformTrash
  <2>1. PICK state \in {"moved", "unreceipted"} : Publish(state)
        BY <1>2 DEF PlatformTrash
  <2>2. Outcome(state) = "moved" /\ state \in WorkerStates \ {"running"}
        BY DEF Outcome, WorkerStates
  <2>3. /\ place[worker.file] = IF worker.kind = "Restore" THEN "trash" ELSE "folder"
        /\ place' = [place EXCEPT ![worker.file] = Ledger!Destination(worker.kind)]
        BY <1>2 DEF PlatformTrash, OnDisk, MoveFile, Ledger!Destination
  <2> QED BY <1>1, <2>1, <2>2, <2>3, PublishKeeps
<1>3. CASE PlatformDelete
  <2>1. Outcome("deleted") = "moved" /\ "deleted" \in WorkerStates \ {"running"}
        BY DEF Outcome, WorkerStates
  <2>2. /\ place[worker.file] = IF worker.kind = "Restore" THEN "trash" ELSE "folder"
        /\ place' = [place EXCEPT ![worker.file] = Ledger!Destination(worker.kind)]
        /\ Publish("deleted")
        BY <1>3 DEF PlatformDelete, OnDisk, MoveFile, Ledger!Destination
  <2> QED BY <1>1, <2>1, <2>2, PublishKeeps
<1>4. CASE PlatformRestore
  <2>1. Outcome("restored") = "moved" /\ "restored" \in WorkerStates \ {"running"}
        BY DEF Outcome, WorkerStates
  <2>2. /\ place[worker.file] = IF worker.kind = "Restore" THEN "trash" ELSE "folder"
        /\ place' = [place EXCEPT ![worker.file] = Ledger!Destination(worker.kind)]
        /\ Publish("restored")
        BY <1>4 DEF PlatformRestore, MoveFile, Ledger!Destination
  <2> QED BY <1>1, <2>1, <2>2, PublishKeeps
<1>5. CASE PlatformRefuse
  <2>1. UNCHANGED place /\ \E state \in {"refused", "retryable", "dropped"} : Publish(state)
        BY <1>5 DEF PlatformRefuse
  <2>2. PICK state \in {"refused", "retryable", "dropped"} : Publish(state)
        BY <2>1
  <2>3. Outcome(state) # "moved" /\ state \in WorkerStates \ {"running"}
        BY DEF Outcome, WorkerStates
  <2> QED BY <1>1, <2>1, <2>2, <2>3, PublishKeeps
<1>6. CASE PlatformPanic
  <2>1. Outcome("lost") = "lost" /\ "lost" \in WorkerStates \ {"running"} /\ Publish("lost")
        BY <1>6 DEF Outcome, WorkerStates, PlatformPanic
  <2>2. CASE UNCHANGED place
        BY <1>1, <2>1, <2>2, PublishKeeps
  <2>3. CASE /\ worker.kind \in {"Trash", "PermanentDelete"}
             /\ OnDisk(worker.file)
             /\ MoveFile(worker.file, IF worker.kind = "Trash" THEN "trash" ELSE "gone")
    <3>1. /\ place[worker.file] = IF worker.kind = "Restore" THEN "trash" ELSE "folder"
          /\ place' = [place EXCEPT ![worker.file] = Ledger!Destination(worker.kind)]
          BY <2>3 DEF OnDisk, MoveFile, Ledger!Destination
    <3> QED BY <1>1, <2>1, <3>1, PublishKeeps
  <2>4. CASE /\ worker.kind = "Restore"
             /\ place[worker.file] = "trash"
             /\ MoveFile(worker.file, "folder")
    <3>1. /\ place[worker.file] = IF worker.kind = "Restore" THEN "trash" ELSE "folder"
          /\ place' = [place EXCEPT ![worker.file] = Ledger!Destination(worker.kind)]
          BY <2>4 DEF MoveFile, Ledger!Destination
    <3> QED BY <1>1, <2>1, <3>1, PublishKeeps
  <2> QED BY <1>6, <2>2, <2>3, <2>4 DEF PlatformPanic
<1> QED BY <1>2, <1>3, <1>4, <1>5, <1>6 DEF PlatformCall

-----------------------------------------------------------------------------
(* Settling.                                                                 *)

(* Rebasing moves the index of the Undo record and nothing else.             *)
LEMMA RebasedFacts ==
    ASSUME CurationTypeOK, ~Idle
    PROVE  /\ Rebased(undo, worker) = NoUndo <=> undo = NoUndo
           /\ Rebased(undo, worker).file = undo.file
           /\ undo # NoUndo => /\ Rebased(undo, worker).here = undo.here
                               /\ Rebased(undo, worker).sure = undo.sure
           /\ \/ Rebased(undo, worker) = NoUndo
              \/ Rebased(undo, worker) \in [file : Files, index : Nat, here : BOOLEAN, sure : BOOLEAN]
<1>1. worker.index \in Nat
      BY WorkerFacts
<1>2. CASE undo # NoUndo /\ undo.here /\ worker.here /\ worker.index < undo.index
  <2>1. /\ undo \in [file : Files, index : Nat, here : BOOLEAN, sure : BOOLEAN]
        /\ undo.file \in Files /\ undo.index \in Nat
        BY <1>2, TypeFacts
  <2>2. undo.index - 1 \in Nat
        BY <1>1, <1>2, <2>1
  <2>3. Rebased(undo, worker) = [undo EXCEPT !.index = undo.index - 1]
        BY <1>2 DEF Rebased
  <2>4. /\ Rebased(undo, worker) \in [file : Files, index : Nat, here : BOOLEAN, sure : BOOLEAN]
        /\ Rebased(undo, worker).file = undo.file /\ Rebased(undo, worker).here = undo.here
        /\ Rebased(undo, worker).sure = undo.sure
        BY <2>1, <2>2, <2>3
  <2>5. Rebased(undo, worker) # NoUndo
        BY <2>1, <2>4, FilesFacts DEF NoUndo
  <2> QED BY <1>2, <2>4, <2>5
<1>3. CASE ~(undo # NoUndo /\ undo.here /\ worker.here /\ worker.index < undo.index)
  <2>1. Rebased(undo, worker) = undo
        BY <1>3 DEF Rebased
  <2> QED BY <2>1 DEF CurationTypeOK
<1> QED BY <1>2, <1>3

(* With nothing running and nothing waiting, nothing is in flight.           *)
LEMMA FreeFacts ==
    ASSUME worker' = NoWorker, queue' = <<>>
    PROVE  InFlight' = {} /\ Queued' = <<>> /\ Operating' = Ledger!None
<1>1. worker'.kind = "none"
      BY DEF NoWorker
<1> QED BY <1>1 DEF InFlight, Queued, Operating, Ledger!None, Idle

(* Everything that waited, and the file that was being removed, is put back. *)
LEMMA PutBack ==
    ASSUME CurationInv, NEW view \in Arrivals,
           worker.kind \in {"Trash", "PermanentDelete"},
           browse' = RevertAll(Revert(browse, worker, view), queue, view)
    PROVE  /\ Sound(browse')
           /\ Listed' = Listed \cup {worker.file} \cup Ledger!Waiting
           /\ browse'.selected \in InFlight \cup {browse.selected}
<1> DEFINE b == Revert(browse, worker, view)
<1>1. CurationTypeOK /\ Sound(browse) /\ browse.selected \notin InFlight /\ worker.file \in Files /\ worker.index \in Nat
      BY BrowseFacts, WorkerFacts DEF Idle
<1>2. worker.file \in InFlight
      BY <1>1, PendingFacts
<1>3. /\ Sound(b)
      /\ ToSet(b.files) = ToSet(browse.files) \cup {worker.file}
      /\ b.selected = browse.selected \/ b.selected = worker.file
  <2>1. browse.selected = worker.file => Contains(browse.files, worker.file)
        BY <1>1, <1>2
  <2>2. /\ Sound(b)
        /\ ToSet(b.files) = ToSet(browse.files) \cup {worker.file}
        /\ b.selected = browse.selected \/ b.selected = worker.file
        BY <1>1, <2>1, RevertFacts
  <2> QED BY <2>2
<1>4. browse' = RevertAll(b, queue, view)
      OBVIOUS
<1> HIDE DEF b
<1>5. /\ queue \in Seq(Removal)
      /\ \A i \in 1..Len(queue) : queue[i].file \in InFlight /\ queue[i].file # worker.file
      BY <1>1, QueueFacts, PendingFacts, PromiseFacts
<1>6. \A i \in 1..Len(queue) : queue[i].file # b.selected
      BY <1>1, <1>3, <1>5
<1>7. /\ Sound(browse')
      /\ ToSet(browse'.files) = ToSet(b.files) \cup {queue[i].file : i \in 1..Len(queue)}
      /\ \/ browse'.selected = b.selected
         \/ \E i \in 1..Len(queue) : browse'.selected = queue[i].file
  <2> DEFINE s == queue
  <2>1. Sound(b) /\ s \in Seq(Removal) /\ \A i \in 1..Len(s) : s[i].file # b.selected
        BY <1>3, <1>5, <1>6
  <2>2. browse' = RevertAll(b, s, view)
        BY <1>4
  <2> HIDE DEF s
  <2>3. /\ Sound(RevertAll(b, s, view))
        /\ ToSet(RevertAll(b, s, view).files) = ToSet(b.files) \cup {s[i].file : i \in 1..Len(s)}
        /\ \/ RevertAll(b, s, view).selected = b.selected
           \/ \E i \in 1..Len(s) : RevertAll(b, s, view).selected = s[i].file
        BY <2>1, RevertAllFacts, Zenon
  <2> QED BY <2>2, <2>3 DEF s
<1>8. Listed' = Listed \cup {worker.file} \cup Ledger!Waiting
      BY <1>1, <1>3, <1>7, PendingFacts DEF Listed
<1>9. browse'.selected \in InFlight \cup {browse.selected}
      BY <1>2, <1>3, <1>5, <1>7
<1> QED BY <1>7, <1>8, <1>9

(* Putting pending files back leaves the offer aside.                        *)
LEMMA OfferStaysAsideOfPending ==
    ASSUME CurationInv, UNCHANGED undo, InFlight' = {},
           Listed' \subseteq Listed \cup InFlight,
           browse'.selected \in InFlight \cup {browse.selected}
    PROVE  OfferStaysAside'
BY DEF CurationInv, OfferStaysAside

(* A refused removal and all that waited behind it are listed again.         *)
LEMMA PollRemovalRefusedKeeps ==
    ASSUME CurationInv, NEW view \in Arrivals, PollRemovalRefused(view) PROVE Steps
<1>1. /\ worker.kind \in {"Trash", "PermanentDelete"}
      /\ worker.state = "refused"
      /\ recovery' = recovery \ {worker.kind}
      /\ browse' = RevertAll(Revert(browse, worker, view), queue, view)
      /\ queue' = <<>>
      /\ worker' = NoWorker
      /\ UNCHANGED <<place, undo, scan, dirty, scansLeft>>
      BY DEF PollRemovalRefused
<1>2. CurationTypeOK
      BY DEF CurationInv
<1>3. /\ Sound(browse')
      /\ Listed' = Listed \cup {worker.file} \cup Ledger!Waiting
      /\ browse'.selected \in InFlight \cup {browse.selected}
      BY <1>1, PutBack
<1>4. InFlight' = {} /\ Queued' = <<>> /\ Operating' = Ledger!None
      BY <1>1, FreeFacts
<1>5. /\ Operating = [kind |-> worker.kind, file |-> worker.file, outcome |-> "unmoved"]
      /\ worker.file \in InFlight
      BY <1>1, <1>2, WorkerFacts, PendingFacts DEF Idle, Outcome
<1>6. OfferIsSure' = OfferIsSure
      BY <1>1 DEF OfferIsSure
<1>7. Ledger!SettleUnmoved
      BY <1>1, <1>3, <1>4, <1>5, <1>6
         DEF Ledger!SettleUnmoved, Ledger!Abandon, Ledger!Recover, Ledger!Removals
<1>8. Listed' \subseteq Listed \cup InFlight
      BY <1>2, <1>3, <1>5, PendingFacts, QueueFacts
<1>9. OfferStaysAside'
      BY <1>1, <1>3, <1>4, <1>8, OfferStaysAsideOfPending
<1>10. RestoreIsOfTheOffer'
      BY <1>1 DEF RestoreIsOfTheOffer, NoWorker
<1>11. CurationTypeOK'
      BY <1>1, <1>2, <1>3 DEF CurationTypeOK, Sound
<1> QED BY <1>3, <1>4, <1>7, <1>9, <1>10, <1>11
        DEF Rest, Steps, Ledger!LedgerNext, Ledger!Settle

(* The thread died: nothing is known, everything is listed again.            *)
LEMMA PollDisconnectedKeeps ==
    ASSUME CurationInv, NEW view \in Arrivals, PollDisconnected(view) PROVE Steps
<1>1. /\ ~Idle
      /\ worker.state = "lost"
      /\ browse' = IF worker.kind = "Restore" THEN browse
                   ELSE RevertAll(Revert(browse, worker, view), queue, view)
      /\ undo' = IF worker.kind = "Restore" THEN [undo EXCEPT !.sure = FALSE] ELSE undo
      /\ queue' = <<>>
      /\ recovery' = recovery \cup {worker.kind}
      /\ worker' = NoWorker
      /\ UNCHANGED <<place, scan, dirty, scansLeft>>
      BY DEF PollDisconnected
<1>2. CurationTypeOK /\ Sound(browse)
      BY BrowseFacts
<1>3. InFlight' = {} /\ Queued' = <<>> /\ Operating' = Ledger!None
      BY <1>1, FreeFacts
<1>4. /\ Operating = [kind |-> worker.kind, file |-> worker.file, outcome |-> "lost"]
      /\ worker.kind \in Kinds
      BY <1>1, <1>2, WorkerFacts DEF Idle, Outcome
<1>5. RestoreIsOfTheOffer'
      BY <1>1 DEF RestoreIsOfTheOffer, NoWorker
<1>6. Operating # Ledger!None
      BY <1>4 DEF Ledger!None, Kinds
<1>7. CASE worker.kind = "Restore"
  <2>1. queue = <<>> /\ undo # NoUndo
        BY <1>7, PromiseFacts DEF CurationInv, RestoreIsOfTheOffer
  <2>2. Ledger!Waiting = {}
        BY <2>1 DEF Ledger!Waiting, Queued
  <2>3. /\ undo' \in [file : Files, index : Nat, here : BOOLEAN, sure : BOOLEAN]
        /\ undo'.file = undo.file /\ undo'.here = undo.here /\ undo'.sure = FALSE
        BY <1>1, <1>2, <1>7, <2>1, TypeFacts
  <2>4. browse' = browse /\ Listed' = Listed
        BY <1>1, <1>7 DEF Listed
  <2>5. ~OfferIsSure'
        BY <2>3 DEF OfferIsSure
  <2>6. Ledger!SettleLost
    <3>1. Operating' = Ledger!None /\ Queued' = <<>> /\ Listed' = Listed \cup {} \cup Ledger!Waiting
          BY <1>3, <2>2, <2>4
    <3>2. Operating.kind = "Restore" /\ Operating.outcome = "lost" /\ OfferIsSure' = FALSE
          BY <1>4, <1>7, <2>5 DEF OfferIsSure
    <3>3. recovery' = recovery \cup {Operating.kind} /\ place' = place /\ undo'.file = undo.file
          BY <1>1, <1>4, <2>3
    <3> QED BY <1>6, <3>1, <3>2, <3>3 DEF Ledger!SettleLost, Ledger!Abandon
  <2>7. OfferStaysAside'
        BY <1>3, <2>1, <2>3, <2>4 DEF CurationInv, OfferStaysAside
  <2>8. CurationTypeOK'
        BY <1>1, <1>2, <2>3, <2>4 DEF CurationTypeOK
  <2>9. Sound(browse')
        BY <1>2, <2>4
  <2> QED BY <1>3, <1>5, <2>6, <2>7, <2>8, <2>9
          DEF Rest, Steps, Ledger!LedgerNext, Ledger!Settle
<1>8. CASE worker.kind # "Restore"
  <2>1. worker.kind \in {"Trash", "PermanentDelete"}
        BY <1>4, <1>8 DEF Kinds
  <2>2. /\ Sound(browse')
        /\ Listed' = Listed \cup {worker.file} \cup Ledger!Waiting
        /\ browse'.selected \in InFlight \cup {browse.selected}
        BY <1>1, <1>8, <2>1, PutBack
  <2>3. undo' = undo /\ OfferIsSure' = OfferIsSure
        BY <1>1, <1>8 DEF OfferIsSure
  <2>4. Ledger!SettleLost
        BY <1>1, <1>3, <1>4, <1>6, <2>1, <2>2, <2>3
           DEF Ledger!SettleLost, Ledger!Abandon, Ledger!Removals
  <2>5. Listed' \subseteq Listed \cup InFlight
        BY <1>2, <2>1, <2>2, PendingFacts, QueueFacts
  <2>6. OfferStaysAside'
        BY <1>3, <2>2, <2>3, <2>5, OfferStaysAsideOfPending
  <2>7. CurationTypeOK'
    <3>1. queue' = <<>> /\ worker' = NoWorker /\ UNCHANGED <<scan, dirty>>
          BY <1>1
    <3>2. <<>> \in Seq(Removal)
          OBVIOUS
    <3> QED BY <1>2, <2>2, <2>3, <3>1, <3>2 DEF CurationTypeOK, Sound
  <2> QED BY <1>3, <1>5, <2>2, <2>4, <2>6, <2>7
          DEF Rest, Steps, Ledger!LedgerNext, Ledger!Settle
<1> QED BY <1>7, <1>8

(* The file of the operation that runs is nowhere in the catalog, so there   *)
(* is nothing to drop from it and no position to resolve again.              *)
LEMMA NothingToDrop ==
    ASSUME CurationInv, NEW c, c.file \in InFlight, NEW view
    PROVE  DropIfListed(browse, c, view) = browse /\ Resolved(browse, c) = c
<1>1. ~Contains(browse.files, c.file)
      BY BrowseFacts
<1> QED BY <1>1 DEF DropIfListed, Resolved

(* A permanent delete took effect.                                           *)
LEMMA PollDeletedKeeps ==
    ASSUME CurationInv, NEW view \in Arrivals, PollDeleted(view) PROVE Steps
<1>1. /\ worker.kind = "PermanentDelete"
      /\ worker.state = "deleted"
      /\ undo' = Rebased(undo, worker)
      /\ recovery' = recovery \ {"PermanentDelete"}
      /\ browse' = DropIfListed(browse, worker, view)
      /\ worker' = NoWorker
      /\ UNCHANGED <<place, queue, scan, dirty, scansLeft>>
      BY DEF PollDeleted
<1>2. CurationTypeOK /\ Sound(browse) /\ ~Idle
      BY <1>1, BrowseFacts DEF Idle
<1>3. queue = <<>> /\ queue' = <<>>
      BY <1>1, PromiseFacts
<1>4. InFlight' = {} /\ Queued' = <<>> /\ Operating' = Ledger!None
      BY <1>1, <1>3, FreeFacts
<1>5. browse' = browse /\ Listed' = Listed
  <2>1. worker.file \in InFlight
        BY <1>1, <1>2, PendingFacts
  <2> QED BY <1>1, <2>1, NothingToDrop DEF Listed
<1>6. Operating = [kind |-> worker.kind, file |-> worker.file, outcome |-> "moved"]
      BY <1>1, <1>2, WorkerFacts DEF Outcome
<1>7. /\ undo' = NoUndo <=> undo = NoUndo
      /\ undo'.file = undo.file
      /\ undo # NoUndo => undo'.here = undo.here /\ undo'.sure = undo.sure
      /\ undo' = NoUndo \/ undo' \in [file : Files, index : Nat, here : BOOLEAN, sure : BOOLEAN]
      BY <1>1, <1>2, RebasedFacts
<1>8. OfferIsSure' = OfferIsSure
      BY <1>7 DEF OfferIsSure
<1>9. Ledger!SettleMoved
  <2>1. Ledger!Waiting = {}
        BY <1>3 DEF Ledger!Waiting, Queued
  <2>2. Ledger!Abandon({})
        BY <1>4, <1>5, <2>1 DEF Ledger!Abandon
  <2> QED BY <1>1, <1>6, <1>7, <1>8, <2>2 DEF Ledger!SettleMoved, Ledger!Recover, Ledger!Removals
<1>10. OfferStaysAside'
      BY <1>4, <1>5, <1>7 DEF CurationInv, OfferStaysAside
<1>11. RestoreIsOfTheOffer'
      BY <1>1 DEF RestoreIsOfTheOffer, NoWorker
<1>12. CurationTypeOK'
      BY <1>1, <1>2, <1>5, <1>7 DEF CurationTypeOK
<1>13. Sound(browse')
      BY <1>2, <1>5
<1> QED BY <1>4, <1>9, <1>10, <1>11, <1>12, <1>13
        DEF Rest, Steps, Ledger!LedgerNext, Ledger!Settle

(* The record a receipt makes.                                              *)
LEMMA ReceiptShape ==
    ASSUME NEW f \in Files, NEW n \in Nat, NEW h \in BOOLEAN, NEW u,
           u = [file |-> f, index |-> n, here |-> h, sure |-> TRUE]
    PROVE  /\ u \in [file : Files, index : Nat, here : BOOLEAN, sure : BOOLEAN]
           /\ u.file = f /\ u.sure = TRUE
OBVIOUS

(* The Undo record after a move to Trash: the file that was moved, when      *)
(* there was a receipt, or the record there was.                             *)
LEMMA ReceiptFacts ==
    ASSUME CurationInv, worker.kind = "Trash", worker.state \in {"moved", "unreceipted"},
           undo' = IF worker.state = "moved"
                   THEN [file |-> worker.file, index |-> worker.index,
                         here |-> worker.here, sure |-> TRUE]
                   ELSE Rebased(undo, worker)
    PROVE  /\ undo' = NoUndo \/ undo' \in [file : Files, index : Nat, here : BOOLEAN, sure : BOOLEAN]
           /\ \/ undo'.file = worker.file /\ OfferIsSure' = TRUE
              \/ undo'.file = undo.file /\ OfferIsSure' = OfferIsSure
           /\ undo' # NoUndo /\ (undo'.here \/ undo'.sure) =>
                \/ undo'.file = worker.file
                \/ undo'.file \notin Listed \cup InFlight \cup {browse.selected}
<1>1. CurationTypeOK /\ ~Idle
      BY DEF CurationInv, Idle
<1>2. CASE worker.state = "moved"
  <2>1. undo' = [file |-> worker.file, index |-> worker.index, here |-> worker.here, sure |-> TRUE]
        BY <1>2
  <2>2. worker.file \in Files /\ worker.index \in Nat /\ worker.here \in BOOLEAN
        BY <1>1, WorkerFacts
  <2>3. undo' # NoUndo
        BY <2>1, <2>2, FilesFacts DEF NoUndo
  <2>4. /\ undo' \in [file : Files, index : Nat, here : BOOLEAN, sure : BOOLEAN]
        /\ undo'.file = worker.file /\ undo'.sure = TRUE
    <3> DEFINE u == undo'
               f == worker.file
               n == worker.index
               h == worker.here
    <3>1. u = [file |-> f, index |-> n, here |-> h, sure |-> TRUE]
          BY <2>1
    <3>2. f \in Files /\ n \in Nat /\ h \in BOOLEAN
          BY <2>2
    <3> HIDE DEF u, f, n, h
    <3>3. /\ u \in [file : Files, index : Nat, here : BOOLEAN, sure : BOOLEAN]
          /\ u.file = f /\ u.sure = TRUE
          BY <3>1, <3>2, ReceiptShape
    <3> QED BY <3>3 DEF u, f
  <2> QED BY <2>3, <2>4 DEF OfferIsSure
<1>3. CASE worker.state = "unreceipted"
  <2>1. undo' = Rebased(undo, worker)
        BY <1>3
  <2>2. /\ undo' = NoUndo <=> undo = NoUndo
        /\ undo'.file = undo.file
        /\ undo # NoUndo => undo'.here = undo.here /\ undo'.sure = undo.sure
        /\ undo' = NoUndo \/ undo' \in [file : Files, index : Nat, here : BOOLEAN, sure : BOOLEAN]
        BY <1>1, <2>1, RebasedFacts
  <2>3. OfferIsSure' = OfferIsSure
        BY <2>2 DEF OfferIsSure
  <2>4. undo' # NoUndo /\ (undo'.here \/ undo'.sure) =>
           undo'.file \notin Listed \cup InFlight \cup {browse.selected}
        BY <2>2 DEF CurationInv, OfferStaysAside
  <2> QED BY <2>2, <2>3, <2>4
<1> QED BY <1>2, <1>3

(* A move to Trash took effect, and the next request starts or none does.    *)
LEMMA PollTrashMovedKeeps ==
    ASSUME CurationInv, NEW view \in Arrivals, PollTrashMoved(view) PROVE Steps
<1>1. /\ worker.kind = "Trash"
      /\ worker.state \in {"moved", "unreceipted"}
      /\ undo' = IF worker.state = "moved"
                 THEN [file |-> worker.file, index |-> worker.index,
                       here |-> worker.here, sure |-> TRUE]
                 ELSE Rebased(undo, worker)
      /\ recovery' = recovery \ {"Trash"}
      /\ StartNextPending(DropIfListed(browse, worker, view), view)
      /\ UNCHANGED <<place, scan, dirty, scansLeft>>
      BY DEF PollTrashMoved
<1>2. CurationTypeOK /\ Sound(browse) /\ ~Idle /\ browse.selected \notin InFlight
      BY <1>1, BrowseFacts DEF Idle
<1>3. worker.file \in InFlight /\ worker.file \in Files
      BY <1>1, <1>2, PendingFacts
<1>4. StartNextPending(browse, view)
      BY <1>1, <1>3, NothingToDrop
<1>5. /\ undo' = NoUndo \/ undo' \in [file : Files, index : Nat, here : BOOLEAN, sure : BOOLEAN]
      /\ \/ undo'.file = worker.file /\ OfferIsSure' = TRUE
         \/ undo'.file = undo.file /\ OfferIsSure' = OfferIsSure
      /\ undo' # NoUndo /\ (undo'.here \/ undo'.sure) =>
           \/ undo'.file = worker.file
           \/ undo'.file \notin Listed \cup InFlight \cup {browse.selected}
      BY <1>1, ReceiptFacts
<1>6. Operating = [kind |-> "Trash", file |-> worker.file, outcome |-> "moved"]
      BY <1>1, <1>2, WorkerFacts DEF Outcome
<1>7. worker.file \notin Listed /\ worker.file # browse.selected
      BY <1>2, <1>3, BrowseFacts
<1>8. /\ queue \in Seq(Removal) /\ Queued \in Seq(Files) /\ (queue = <<>> <=> Queued = <<>>)
      /\ DOMAIN queue = 1..Len(queue) /\ DOMAIN Queued = 1..Len(queue)
      /\ \A i \in 1..Len(queue) : /\ Queued[i] = queue[i].file
                                  /\ queue[i].file \in InFlight /\ queue[i].file # worker.file
                                  /\ queue[i].file # browse.selected
      BY <1>1, <1>2, QueueFacts, PendingFacts, PromiseFacts
<1>9. UNCHANGED <<place, scan, dirty>> /\ recovery' = recovery \ {Operating.kind}
      BY <1>1, <1>6
<1>10. ASSUME Ledger!Abandon({}) \/
              /\ Queued # <<>>
              /\ Operating' = Ledger!Operation("Trash", Head(Queued))
              /\ Queued' = Tail(Queued)
              /\ UNCHANGED Listed
       PROVE  Ledger!LedgerNext
      BY <1>5, <1>6, <1>9, <1>10
         DEF Ledger!SettleMoved, Ledger!Recover, Ledger!Removals, Ledger!LedgerNext, Ledger!Settle
<1>11. ASSUME InFlight' \subseteq InFlight \ {worker.file},
              Listed' \subseteq Listed \cup (InFlight \ {worker.file}),
              browse'.selected \in (InFlight \ {worker.file}) \cup {browse.selected}
       PROVE  OfferStaysAside'
      BY <1>5, <1>7, <1>11 DEF OfferStaysAside
<1>12. CASE queue = <<>> /\ worker' = NoWorker /\ browse' = browse /\ UNCHANGED queue
  <2>1. InFlight' = {} /\ Queued' = <<>> /\ Operating' = Ledger!None /\ Listed' = Listed
        BY <1>12, FreeFacts DEF Listed
  <2>2. Ledger!Waiting = {}
        BY <1>12 DEF Ledger!Waiting, Queued
  <2>3. Ledger!LedgerNext
        BY <1>10, <2>1, <2>2 DEF Ledger!Abandon
  <2>4. OfferStaysAside'
        BY <1>11, <1>12, <2>1
  <2>5. RestoreIsOfTheOffer'
        BY <1>12 DEF RestoreIsOfTheOffer, NoWorker
  <2>6. CurationTypeOK' /\ Sound(browse')
        BY <1>2, <1>5, <1>9, <1>12 DEF CurationTypeOK
  <2> QED BY <2>1, <2>3, <2>4, <2>5, <2>6 DEF Rest, Steps
<1>13. CASE /\ queue # <<>>
            /\ worker' = Worker("Trash", Resolved(browse, Head(queue)))
            /\ queue' = Tail(queue)
            /\ browse' = browse
  <2> DEFINE c == Head(queue)
             s == queue
  <2>1. /\ Head(s) = s[1] /\ Head(s) \in Removal
        /\ Tail(s) \in Seq(Removal) /\ Len(Tail(s)) = Len(s) - 1 /\ Len(s) \in Nat
        /\ \A i \in 1..Len(Tail(s)) : Tail(s)[i] = s[i + 1]
        /\ 1 \in 1..Len(s) /\ \A i \in 1..Len(Tail(s)) : i + 1 \in 1..Len(s)
    <3>1. s \in Seq(Removal) /\ s # <<>>
          BY <1>8, <1>13
    <3> HIDE DEF s
    <3>2. /\ Head(s) \in Removal
          /\ Tail(s) \in Seq(Removal) /\ Len(Tail(s)) = Len(s) - 1
          /\ \A i \in 1..Len(Tail(s)) : Tail(s)[i] = s[i + 1]
          BY <3>1, HeadTailProperties
    <3>3. Len(s) \in Nat /\ Len(s) # 0
          BY <3>1, EmptySeq
    <3> QED BY <3>1, <3>2, <3>3
  <2>2. /\ c \in Removal /\ c = queue[1] /\ 1 \in 1..Len(queue)
        /\ queue' \in Seq(Removal)
        /\ DOMAIN queue' = 1..Len(queue')
        /\ \A i \in 1..Len(queue') : i + 1 \in 1..Len(queue) /\ queue'[i] = queue[i + 1]
        BY <1>13, <2>1, LenProperties
  <2>3. c.file \in InFlight /\ c.file \in Files /\ c.index \in Nat /\ c.here \in BOOLEAN
        BY <1>8, <2>2 DEF Removal
  <2>4. worker' = Worker("Trash", c)
        BY <1>13, <2>3, NothingToDrop
  <2> HIDE DEF c, s
  <2>5. /\ worker' \in [kind : Kinds, file : Files, index : Nat, here : BOOLEAN, state : WorkerStates]
        /\ worker'.kind = "Trash" /\ worker'.file = c.file /\ worker'.state = "running"
        BY <2>3, <2>4 DEF Worker, Kinds, WorkerStates
  <2>6. Listed' = Listed
        BY <1>13 DEF Listed
  <2>7. InFlight' \subseteq InFlight \ {worker.file}
    <3>1. \A i \in DOMAIN queue' : queue'[i].file \in InFlight \ {worker.file}
          BY <1>8, <2>2
    <3>2. worker'.file \in InFlight \ {worker.file}
          BY <1>8, <2>2, <2>5
    <3> QED BY <3>1, <3>2, <2>5 DEF InFlight
  <2>8. Operating' = Ledger!Operation("Trash", Head(Queued))
    <3>1. Operating' = [kind |-> "Trash", file |-> c.file, outcome |-> "running"]
          BY <2>5 DEF Operating, Idle, Outcome
    <3>2. Head(Queued) = c.file
      <4>1. Head(Queued) = Queued[1]
            BY <1>8, <1>13
      <4> QED BY <1>8, <2>2, <4>1
    <3> QED BY <3>1, <3>2 DEF Ledger!Operation
  <2>9. Queued' = Tail(Queued)
    <3> DEFINE q == Queued
               r == queue'
    <3>1. q \in Seq(Files) /\ q # <<>> /\ Len(q) = Len(queue) /\ Len(queue) \in Nat
          BY <1>2, <1>8, <1>13, QueueFacts
    <3>2. r \in Seq(Removal) /\ Len(r) = Len(queue) - 1
          BY <1>13, <2>1, <2>2 DEF s
    <3>3. Queued' = [i \in 1..Len(r) |-> r[i].file]
          BY <2>2 DEF Queued
    <3>4. \A i \in 1..Len(r) : i + 1 \in 1..Len(queue) /\ r[i].file = q[i + 1]
          BY <1>8, <2>2
    <3> HIDE DEF q, r
    <3>5. /\ Tail(q) \in Seq(Files) /\ Len(Tail(q)) = Len(q) - 1
          /\ \A i \in 1..Len(Tail(q)) : Tail(q)[i] = q[i + 1]
          BY <3>1, HeadTailProperties
    <3>6. Tail(q) = [i \in 1..Len(r) |-> Tail(q)[i]]
          BY <3>1, <3>2, <3>5, LenProperties
    <3>7. \A i \in 1..Len(r) : Tail(q)[i] = r[i].file
          BY <3>1, <3>2, <3>4, <3>5
    <3> QED BY <3>3, <3>6, <3>7 DEF q
  <2>10. Ledger!LedgerNext
        BY <1>8, <1>10, <1>13, <2>6, <2>8, <2>9
  <2>11. OfferStaysAside'
        BY <1>11, <1>13, <2>6, <2>7
  <2>12. RestoreIsOfTheOffer'
        BY <2>5 DEF RestoreIsOfTheOffer
  <2>13. CurationTypeOK' /\ Sound(browse')
        BY <1>2, <1>5, <1>9, <1>13, <2>2, <2>5 DEF CurationTypeOK
  <2>14. browse'.selected \notin InFlight'
        BY <1>2, <1>13, <2>7
  <2> QED BY <2>10, <2>11, <2>12, <2>13, <2>14 DEF Rest, Steps
<1>14. CASE /\ queue # <<>>
            /\ worker' = NoWorker
            /\ queue' = <<>>
            /\ browse' = RevertAll(browse, queue, view)
  <2>1. InFlight' = {} /\ Queued' = <<>> /\ Operating' = Ledger!None
        BY <1>14, FreeFacts
  <2>2. /\ Sound(browse')
        /\ ToSet(browse'.files) = ToSet(browse.files) \cup {queue[i].file : i \in 1..Len(queue)}
        /\ \/ browse'.selected = browse.selected
           \/ \E i \in 1..Len(queue) : browse'.selected = queue[i].file
    <3> DEFINE s == queue
               b == browse
    <3>1. Sound(b) /\ s \in Seq(Removal) /\ \A i \in 1..Len(s) : s[i].file # b.selected
          BY <1>2, <1>8
    <3>2. browse' = RevertAll(b, s, view)
          BY <1>14
    <3> HIDE DEF s, b
    <3>3. /\ Sound(RevertAll(b, s, view))
          /\ ToSet(RevertAll(b, s, view).files) = ToSet(b.files) \cup {s[i].file : i \in 1..Len(s)}
          /\ \/ RevertAll(b, s, view).selected = b.selected
             \/ \E i \in 1..Len(s) : RevertAll(b, s, view).selected = s[i].file
          BY <3>1, RevertAllFacts, Zenon
    <3> QED BY <3>2, <3>3 DEF s, b
  <2>3. Listed' = Listed \cup Ledger!Waiting
        BY <1>2, <2>2, PendingFacts DEF Listed
  <2>4. Ledger!LedgerNext
        BY <1>10, <2>1, <2>3 DEF Ledger!Abandon
  <2>5. OfferStaysAside'
    <3>1. {queue[i].file : i \in 1..Len(queue)} \subseteq InFlight \ {worker.file}
          BY <1>8
    <3> QED BY <1>8, <1>11, <2>1, <2>2, <3>1 DEF Listed
  <2>6. RestoreIsOfTheOffer'
        BY <1>14 DEF RestoreIsOfTheOffer, NoWorker
  <2>7. CurationTypeOK'
    <3>1. <<>> \in Seq(Removal)
          OBVIOUS
    <3> QED BY <1>2, <1>5, <1>9, <1>14, <2>2, <3>1 DEF CurationTypeOK, Sound
  <2> QED BY <2>1, <2>2, <2>4, <2>5, <2>6, <2>7 DEF Rest, Steps
<1> QED BY <1>4, <1>12, <1>13, <1>14 DEF StartNextPending

(* A restored file goes back into the open playlist, where its place is      *)
(* free: the file Undo offers to it is neither listed nor selected.          *)
LEMMA RestoredFacts ==
    ASSUME CurationInv, worker.kind = "Restore", worker.here,
           NEW i, i = Least(worker.index, Len(browse.files)),
           NEW inserted, inserted = InsertPath(browse, i, worker.file)
    PROVE  /\ Sound(Load(inserted, i, "loading"))
           /\ ToSet(Load(inserted, i, "loading").files) = Listed \cup {worker.file}
           /\ ExclusiveScan =>
                LET k == Least(browse.index, Len(browse.files))
                IN  /\ Sound(AtIndex(inserted, k))
                    /\ ToSet(AtIndex(inserted, k).files) = Listed \cup {worker.file}
<1>1. /\ CurationTypeOK /\ Sound(browse)
      /\ browse.files \in Seq(Files) /\ browse.index \in Nat
      /\ browse \in Browses /\ Distinct(browse.files)
      BY BrowseFacts DEF Sound
<1>2. worker.file \in Files /\ worker.index \in Nat
      BY <1>1, WorkerFacts DEF Idle
<1>3. /\ undo # NoUndo /\ worker.file = undo.file /\ undo.here
      /\ ExclusiveScan => browse.selected \notin Listed \cup {NoFile}
      BY DEF CurationInv, RestoreIsOfTheOffer
<1>4. worker.file \notin Listed /\ worker.file # browse.selected
      BY <1>3 DEF CurationInv, OfferStaysAside
<1>5. ~Contains(browse.files, worker.file)
      BY <1>4, BrowseFacts
<1>6. Len(browse.files) \in Nat
      BY <1>1, Listing
<1>7. i \in Nat /\ i <= Len(browse.files)
      BY <1>2, <1>6 DEF Least
<1>8. /\ inserted \in Browses
      /\ Distinct(inserted.files)
      /\ ToSet(inserted.files) = Listed \cup {worker.file}
      /\ Len(inserted.files) = Len(browse.files) + 1
      /\ inserted.selected = browse.selected
      /\ inserted.view = browse.view
  <2> DEFINE f == worker.file
             b == browse
  <2>1. b \in Browses /\ Distinct(b.files) /\ i \in Nat /\ f \in Files /\ ~Contains(b.files, f)
        BY <1>1, <1>2, <1>5, <1>7
  <2>2. inserted = InsertPath(b, i, f)
        OBVIOUS
  <2> HIDE DEF f, b
  <2>3. /\ InsertPath(b, i, f) \in Browses
        /\ Distinct(InsertPath(b, i, f).files)
        /\ ToSet(InsertPath(b, i, f).files) = ToSet(b.files) \cup {f}
        /\ Len(InsertPath(b, i, f).files) = Len(b.files) + 1
        /\ InsertPath(b, i, f).selected = b.selected
        /\ InsertPath(b, i, f).view = b.view
        BY <2>1, InsertPathFacts, Zenon
  <2>4. /\ inserted \in Browses
        /\ Distinct(inserted.files)
        /\ ToSet(inserted.files) = ToSet(b.files) \cup {f}
        /\ Len(inserted.files) = Len(b.files) + 1
        /\ inserted.selected = b.selected
        /\ inserted.view = b.view
        BY <2>2, <2>3
  <2> QED BY <2>4 DEF f, b, Listed
<1>9. /\ Sound(Load(inserted, i, "loading"))
      /\ Load(inserted, i, "loading").files = inserted.files
      BY <1>6, <1>7, <1>8, LoadFacts DEF Arrivals
<1>10. ASSUME ExclusiveScan
       PROVE  LET k == Least(browse.index, Len(browse.files))
              IN  /\ Sound(AtIndex(inserted, k))
                  /\ ToSet(AtIndex(inserted, k).files) = Listed \cup {worker.file}
  <2> DEFINE k == Least(browse.index, Len(browse.files))
             r == AtIndex(inserted, k)
  <2>1. k \in Nat
        BY <1>1, <1>6 DEF Least
  <2> HIDE DEF k
  <2>2. /\ r \in Browses /\ r.files = inserted.files
        /\ r.selected = browse.selected /\ r.view = browse.view
        BY <1>8, <2>1, Repositioned, Zenon
  <2> HIDE DEF r
  <2>3. browse.selected \notin Listed \cup {worker.file} /\ browse.selected # NoFile
        BY <1>3, <1>4, <1>10
  <2>4. ~Contains(r.files, r.selected)
    <3>1. r.files \in Seq(Files)
          BY <2>2, Shape
    <3> QED BY <1>8, <2>2, <2>3, <3>1, Listing
  <2>5. Sound(r)
        BY <1>8, <2>2, <2>3, <2>4 DEF Sound, Selected
  <2> QED BY <1>8, <2>2, <2>5 DEF k, r
<1> QED BY <1>8, <1>9, <1>10

(* A restore ended, in each of its outcomes.                                 *)
LEMMA PollRestoredKeeps == ASSUME CurationInv, PollRestored PROVE Steps
<1> DEFINE i        == Least(worker.index, Len(browse.files))
           inserted == InsertPath(browse, i, worker.file)
           k        == Least(browse.index, Len(browse.files))
<1>1. /\ worker.kind = "Restore"
      /\ worker.state \in {"restored", "retryable", "dropped"}
      /\ browse' = IF worker.state # "restored" \/ ~worker.here THEN browse
                   ELSE IF ExclusiveScan THEN AtIndex(inserted, k)
                   ELSE Load(inserted, i, "loading")
      /\ undo' = IF worker.state = "retryable" THEN undo ELSE NoUndo
      /\ recovery' = recovery \ {"Restore"}
      /\ worker' = NoWorker
      /\ UNCHANGED <<place, queue, scan, dirty, scansLeft>>
      BY DEF PollRestored, AtIndex
<1> HIDE DEF i, inserted, k
<1>2. CurationTypeOK /\ Sound(browse)
      BY BrowseFacts
<1>3. queue = <<>> /\ queue' = <<>>
      BY <1>1, PromiseFacts
<1>4. InFlight' = {} /\ Queued' = <<>> /\ Queued = <<>> /\ Operating' = Ledger!None
      BY <1>1, <1>3, FreeFacts DEF Queued
<1>5. Operating = [kind |-> "Restore", file |-> worker.file, outcome |-> Outcome(worker.state)]
      BY <1>1, <1>2, WorkerFacts DEF Idle
<1>6. RestoreIsOfTheOffer'
      BY <1>1 DEF RestoreIsOfTheOffer, NoWorker
<1>7. /\ Sound(browse')
      /\ \/ Listed' = Listed
         \/ worker.state = "restored" /\ Listed' = Listed \cup {worker.file}
  <2>1. CASE worker.state # "restored" \/ ~worker.here
        BY <1>1, <1>2, <2>1 DEF Listed
  <2>2. CASE worker.state = "restored" /\ worker.here
    <3>1. /\ Sound(Load(inserted, i, "loading"))
          /\ ToSet(Load(inserted, i, "loading").files) = Listed \cup {worker.file}
          /\ ExclusiveScan => /\ Sound(AtIndex(inserted, k))
                              /\ ToSet(AtIndex(inserted, k).files) = Listed \cup {worker.file}
          BY <1>1, <2>2, RestoredFacts DEF i, inserted, k
    <3>2. browse' = Load(inserted, i, "loading") \/ (ExclusiveScan /\ browse' = AtIndex(inserted, k))
          BY <1>1, <2>2
    <3>3. Sound(browse') /\ ToSet(browse'.files) = Listed \cup {worker.file}
          BY <3>1, <3>2
    <3> QED BY <2>2, <3>3 DEF Listed
  <2>3. worker.here \in BOOLEAN
        BY <1>1, <1>2, WorkerFacts DEF Idle
  <2> QED BY <2>1, <2>2, <2>3
<1>8. CASE worker.state = "retryable"
  <2>1. /\ undo' = undo /\ OfferIsSure' = OfferIsSure
        /\ browse' = browse /\ Listed' = Listed
        BY <1>1, <1>8 DEF OfferIsSure, Listed
  <2>2. Operating.outcome = "unmoved" /\ Operating.kind = "Restore"
        BY <1>5, <1>8 DEF Outcome
  <2>3. Ledger!SettleRestore
        BY <1>1, <1>4, <2>1, <2>2 DEF Ledger!SettleRestore, Ledger!Recover
  <2>4. OfferStaysAside'
        BY <1>4, <2>1 DEF CurationInv, OfferStaysAside
  <2>5. CurationTypeOK'
        BY <1>1, <1>2, <2>1 DEF CurationTypeOK
  <2> QED BY <1>4, <1>6, <1>7, <2>3, <2>4, <2>5 DEF Rest, Steps, Ledger!LedgerNext, Ledger!Settle
<1>9. CASE worker.state # "retryable"
  <2>1. undo' = NoUndo /\ undo'.file = NoFile /\ OfferIsSure' = FALSE
        BY <1>1, <1>9 DEF OfferIsSure, NoUndo
  <2>2. /\ Operating.kind = "Restore" /\ Operating.file = worker.file
        /\ Operating.outcome \in {"moved", "unmoved"}
        /\ worker.state = "restored" => Operating.outcome = "moved"
        BY <1>1, <1>5 DEF Outcome
  <2>3. Ledger!SettleRestore
        BY <1>1, <1>4, <1>7, <2>1, <2>2 DEF Ledger!SettleRestore, Ledger!Recover
  <2>4. OfferStaysAside'
        BY <2>1 DEF OfferStaysAside
  <2>5. CurationTypeOK'
        BY <1>1, <1>2, <1>7, <2>1 DEF CurationTypeOK, Sound
  <2> QED BY <1>4, <1>6, <1>7, <2>3, <2>4, <2>5 DEF Rest, Steps, Ledger!LedgerNext, Ledger!Settle
<1> QED BY <1>8, <1>9

-----------------------------------------------------------------------------
(* Nothing changes.                                                          *)
LEMMA StandingStill == CurationInv /\ UNCHANGED vars => Steps
<1> SUFFICES ASSUME CurationInv, UNCHANGED vars PROVE Steps
    OBVIOUS
<1>1. /\ Listed' = Listed /\ InFlight' = InFlight /\ ExclusiveScan' = ExclusiveScan
      /\ Queued' = Queued /\ Operating' = Operating /\ OfferIsSure' = OfferIsSure
      BY DEF vars, Listed, InFlight, ExclusiveScan, Queued, Operating, Idle, OfferIsSure
<1>2. UNCHANGED Ledger!ledgerVars
      BY <1>1 DEF vars, Ledger!ledgerVars
<1>3. CurationTypeOK' /\ Sound(browse')
      BY BrowseFacts DEF vars, CurationTypeOK
<1>4. OfferStaysAside' /\ RestoreIsOfTheOffer' /\ browse'.selected \notin InFlight'
      BY <1>1 DEF vars, CurationInv, OfferStaysAside, RestoreIsOfTheOffer
<1> QED BY <1>2, <1>3, <1>4 DEF Steps, Rest

(* Every action of the engine keeps the invariant and is a ledger step.      *)
LEMMA NextSteps == CurationInv /\ [Next]_vars => Steps
<1> SUFFICES ASSUME CurationInv, [Next]_vars PROVE Steps
    OBVIOUS
<1>1. ASSUME NEW view \in Arrivals, TrashCurrent(view) PROVE Steps
      BY <1>1, TrashCurrentKeeps
<1>2. ASSUME NEW view \in Arrivals, PermanentDeleteCurrent(view) PROVE Steps
      BY <1>2, PermanentDeleteKeeps
<1>3. ASSUME NEW view \in Arrivals, PollTrashMoved(view) PROVE Steps
      BY <1>3, PollTrashMovedKeeps
<1>4. ASSUME NEW view \in Arrivals, PollDeleted(view) PROVE Steps
      BY <1>4, PollDeletedKeeps
<1>5. ASSUME NEW view \in Arrivals, PollRemovalRefused(view) PROVE Steps
      BY <1>5, PollRemovalRefusedKeeps
<1>6. ASSUME PollRestored PROVE Steps
      BY <1>6, PollRestoredKeeps
<1>7. ASSUME NEW view \in Arrivals, PollDisconnected(view) PROVE Steps
      BY <1>7, PollDisconnectedKeeps
<1>8. ASSUME NEW view \in Arrivals, Navigate(view) PROVE Steps
      BY <1>8, NavigateKeeps
<1>9. ASSUME NEW view \in Arrivals, MissingLoad(view) PROVE Steps
      BY <1>9, MissingLoadKeeps
<1>10. ASSUME NEW view \in Arrivals, PollFolderScan(view) PROVE Steps
      BY <1>10, PollFolderScanKeeps
<1>11. CASE UndoTrash
      BY <1>11, UndoTrashKeeps
<1>12. CASE PlatformCall
      BY <1>12, PlatformKeeps
<1>13. CASE FinishLoad
      BY <1>13, FinishLoadKeeps
<1>14. CASE OpenPath
      BY <1>14, OpenPathKeeps
<1>15. CASE RetryLoad
      BY <1>15, RetryLoadKeeps
<1>16. CASE OpenFolder
      BY <1>16, OpenFolderKeeps
<1>17. CASE RefreshMembership
      BY <1>17, RefreshKeeps
<1>18. CASE ListFolder
      BY <1>18, ListFolderKeeps
<1>19. CASE UNCHANGED vars
      BY <1>19, StandingStill
<1> QED
  BY <1>1, <1>2, <1>3, <1>4, <1>5, <1>6, <1>7, <1>8, <1>9, <1>10, <1>11, <1>12, <1>13,
     <1>14, <1>15, <1>16, <1>17, <1>18, <1>19 DEF Next, Submit, PollCuration

(* The catalog a session starts with: the folder, or one file of it.         *)
LEMMA FirstCatalog ==
    /\ [i \in Files |-> i] \in Seq(Files)
    /\ Len([i \in Files |-> i]) = NumFiles
    /\ Distinct([i \in Files |-> i])
    /\ \A f \in Files : <<f>> \in Seq(Files) /\ Len(<<f>>) = 1 /\ <<f>>[1] = f /\ Distinct(<<f>>)
<1>1. NumFiles \in Nat
      BY CurationAssumption
<1>2. [i \in Files |-> i] \in [1..NumFiles -> Files]
      BY DEF Files
<1>3. [i \in Files |-> i] \in Seq(Files) /\ Len([i \in Files |-> i]) = NumFiles
      BY <1>1, <1>2, SeqDef, LenProperties
<1>4. Distinct([i \in Files |-> i])
      BY DEF Distinct
<1>5. \A f \in Files : <<f>> \in Seq(Files) /\ Len(<<f>>) = 1 /\ <<f>>[1] = f /\ Distinct(<<f>>)
      BY DEF Distinct
<1> QED BY <1>3, <1>4, <1>5

(* The session starts within the invariant, with an empty ledger.            *)
LEMMA Starts == Init => CurationInv /\ Ledger!LedgerInit
<1> SUFFICES ASSUME Init PROVE CurationInv /\ Ledger!LedgerInit
    OBVIOUS
<1>1. NumFiles \in Nat /\ NoFile \notin Files /\ MaxPending \in Nat
      BY CurationAssumption, FilesFacts
<1>2. /\ worker = NoWorker /\ queue = <<>> /\ undo = NoUndo /\ recovery = {} /\ dirty = FALSE
      /\ place = [f \in Files |-> "folder"]
      BY DEF Init
<1>3. InFlight = {} /\ Queued = <<>> /\ Operating = Ledger!None
      BY <1>2 DEF InFlight, Queued, Operating, Ledger!None, Idle, NoWorker
<1>4. ~OfferIsSure /\ OfferIsSure = FALSE /\ undo.file = NoFile
      BY <1>2 DEF OfferIsSure, NoUndo
<1>5. /\ Sound(browse)
      /\ scan = NoScan \/ scan \in [purpose : {"refresh", "folder", "missing"},
                                     path : Files \cup {NoFile}, listing : SUBSET Files,
                                     state : {"running", "listed", "failed"}]
  <2>1. CASE /\ browse = [files |-> [i \in Files |-> i], index |-> 0, missing |-> FALSE,
                          selected |-> IF NumFiles = 0 THEN NoFile ELSE 1,
                          view |-> IF NumFiles = 0 THEN "blank" ELSE "loading"]
             /\ scan = NoScan
    <3> DEFINE s == [i \in Files |-> i]
    <3>1. s \in Seq(Files) /\ Len(s) = NumFiles /\ Distinct(s) /\ (NumFiles # 0 => s[1] = 1 /\ 1 \in Files)
          BY <1>1, FirstCatalog DEF Files
    <3>2. browse = [files |-> s, index |-> 0, missing |-> FALSE,
                          selected |-> IF NumFiles = 0 THEN NoFile ELSE 1,
                          view |-> IF NumFiles = 0 THEN "blank" ELSE "loading"]
          BY <2>1
    <3> HIDE DEF s
    <3>3. /\ browse \in Browses /\ browse.files = s /\ browse.index = 0
          /\ browse.selected = IF NumFiles = 0 THEN NoFile ELSE 1
          /\ browse.view = IF NumFiles = 0 THEN "blank" ELSE "loading"
          BY <3>1, <3>2 DEF Browses, Arrivals
    <3>4. s = <<>> <=> NumFiles = 0
          BY <3>1, Listing
    <3>5. NumFiles # 0 => 0 < NumFiles
          BY <1>1
    <3>6. CASE NumFiles = 0
      <4>1. ~Contains(s, NoFile)
            BY <1>1, <3>1, Listing
      <4> QED BY <2>1, <3>1, <3>3, <3>4, <3>6, <4>1 DEF Sound, Selected
    <3>7. CASE NumFiles # 0
      <4>1. 1 # NoFile
            BY DEF NoFile
      <4> QED BY <2>1, <3>1, <3>3, <3>4, <3>5, <3>7, <4>1 DEF Sound, Selected
    <3> QED BY <3>6, <3>7
  <2>2. CASE \E f \in Files :
               /\ browse = [files |-> <<f>>, index |-> 0, missing |-> FALSE,
                            selected |-> f, view |-> "loading"]
               /\ scan = Scan("refresh", f)
    <3>1. PICK f \in Files :
               /\ browse = [files |-> <<f>>, index |-> 0, missing |-> FALSE,
                            selected |-> f, view |-> "loading"]
               /\ scan = Scan("refresh", f)
          BY <2>2
    <3> DEFINE s == <<f>>
    <3>2. s \in Seq(Files) /\ Len(s) = 1 /\ s[1] = f /\ Distinct(s)
          BY FirstCatalog
    <3>3. browse = [files |-> s, index |-> 0, missing |-> FALSE, selected |-> f, view |-> "loading"]
          BY <3>1
    <3> HIDE DEF s
    <3>4. /\ browse \in Browses /\ browse.files = s /\ browse.index = 0
          /\ browse.selected = f /\ f # NoFile
          BY <1>1, <3>2, <3>3 DEF Browses, Arrivals
    <3>5. Sound(browse)
      <4>1. browse.index < Len(browse.files) /\ browse.files[browse.index + 1] = browse.selected
        <5>1. 0 < 1 /\ 0 + 1 = 1
              OBVIOUS
        <5>2. browse.index < Len(browse.files)
              BY <3>2, <3>4, <5>1
        <5>3. browse.index + 1 = 1
              BY <3>4, <5>1
        <5>4. browse.files[1] = browse.selected
              BY <3>2, <3>4
        <5> QED BY <5>2, <5>3, <5>4
      <4>2. Selected(browse)
            BY <3>4, <4>1 DEF Selected
      <4> QED BY <3>2, <3>4, <4>2 DEF Sound
    <3>6. scan = Scan("refresh", f)
          BY <3>1
    <3>7. scan \in [purpose : {"refresh", "folder", "missing"},
                    path : Files \cup {NoFile}, listing : SUBSET Files,
                    state : {"running", "listed", "failed"}]
          BY <3>6 DEF Scan
    <3> QED BY <3>5, <3>7
  <2> QED BY <2>1, <2>2 DEF Init
<1>6. CurationTypeOK
  <2>1. <<>> \in Seq(Removal)
        OBVIOUS
  <2> QED BY <1>2, <1>5, <2>1 DEF CurationTypeOK, Sound
<1>7. Ledger!LedgerInit
  <2>1. Listed \subseteq Files
        BY <1>6, TypeFacts
  <2> QED BY <1>2, <1>3, <1>4, <2>1 DEF Ledger!LedgerInit
<1>8. Ledger!LedgerInv
  <2>1. LP!LedgerInit
        BY <1>7 DEF Ledger!LedgerInit, LP!LedgerInit, LP!None, Ledger!None
  <2>2. LP!LedgerInv
        BY <1>1, <2>1, LP!InitEstablishes
  <2> QED BY <2>2, SameLedger
<1>9. OfferStaysAside /\ RestoreIsOfTheOffer
      BY <1>2 DEF OfferStaysAside, RestoreIsOfTheOffer, NoWorker
<1> QED BY <1>3, <1>5, <1>6, <1>7, <1>8, <1>9, RestAndLedger DEF Rest

-----------------------------------------------------------------------------
(* Whatever the user, the worker, the scans and their failures do, in any    *)
(* order: no position names a file twice, the selection and the index        *)
(* agree, nothing pending is listed or selected, the file Undo offers is     *)
(* aside, and the ledger's invariant holds. For every folder, FIFO bound     *)
(* and faults.                                                               *)
THEOREM CurationIsInvariant == Spec => []CurationInv
<1>1. Init => CurationInv
      BY Starts
<1>2. CurationInv /\ [Next]_vars => CurationInv'
      BY NextSteps, StepsKeepInv
<1> QED BY <1>1, <1>2, PTL DEF Spec

(* A file is never listed twice, though reverts, restores and rescans        *)
(* insert into a catalog that others changed since they looked               *)
(* (Playlist::insert_path and reconcile do not look for a duplicate).        *)
THEOREM CatalogIsDistinct == Spec => []CatalogNamesEachFileOnce
<1>1. CurationInv => CatalogNamesEachFileOnce
      BY DEF CurationInv, Distinct, CatalogNamesEachFileOnce
<1> QED BY <1>1, CurationIsInvariant, PTL

(* The selected file, which the next Delete takes, is never one that is      *)
(* already being removed, and while anything is listed something is          *)
(* selected.                                                                 *)
THEOREM SelectionStaysSound == Spec => []SelectionIsSound
<1>1. CurationInv => SelectionIsSound
      BY DEF CurationInv, Selected, SelectionIsSound
<1> QED BY <1>1, CurationIsInvariant, PTL

(* The playlist's index and the session's selected path name the same        *)
(* entry, though half of the handlers set one and half the other.            *)
THEOREM PositionFollowsSelection == Spec => []PositionNamesSelection
<1>1. CurationInv => PositionNamesSelection
      BY DEF CurationInv, Selected, PositionNamesSelection
<1> QED BY <1>1, CurationIsInvariant, PTL

(* Refinement: every behaviour of the engine is one of the removal ledger,   *)
(* so whatever is proved of the ledger holds of the engine.                  *)
THEOREM CurationImplementsLedger == Spec => ImplementsLedger
<1>1. Init => Ledger!LedgerInit
      BY Starts
<1>2. CurationInv /\ [Next]_vars => [Ledger!LedgerNext]_(Ledger!ledgerVars)
      BY NextSteps DEF Steps
<1> QED BY <1>1, <1>2, CurationIsInvariant, PTL DEF Spec, ImplementsLedger, Ledger!LedgerSpec

(* In the engine no accepted removal is lost: the file is in the Trash, or   *)
(* deleted, or it is listed again, whatever became of the worker, of the     *)
(* requests before it in the FIFO and of the catalog meanwhile.              *)
THEOREM NoAcceptedRemovalIsLost == Spec => Ledger!PendingIsAnswered
<1>1. CurationInv /\ [Next]_vars =>
        [\A f \in Files : Ledger!Pending(f) /\ ~Ledger!Pending(f)' /\ place[f] = "folder"
            => f \in Listed']_(Ledger!ledgerVars)
  <2> SUFFICES ASSUME CurationInv, [Next]_vars
               PROVE  [\A f \in Files : Ledger!Pending(f) /\ ~Ledger!Pending(f)' /\ place[f] = "folder"
                          => f \in Listed']_(Ledger!ledgerVars)
      OBVIOUS
  <2>1. NoFile \notin Files /\ MaxPending \in Nat
        BY FilesFacts
  <2>2. LP!LedgerInv /\ [LP!LedgerNext]_(LP!ledgerVars)
    <3>1. CurationInv => Ledger!LedgerInv
          BY DEF CurationInv
    <3>2. LP!ledgerVars' = Ledger!ledgerVars'
          BY DEF LP!ledgerVars, Ledger!ledgerVars
    <3>3. Steps
          BY NextSteps
    <3> HIDE DEF LP!LedgerInv, LP!LedgerNext, Ledger!LedgerInv, Ledger!LedgerNext
    <3> QED BY <3>1, <3>2, <3>3, SameLedger DEF Steps
  <2>3. \A f \in Files : LP!Pending(f) /\ ~LP!Pending(f)' /\ place[f] = "folder" => f \in Listed'
        BY <2>1, <2>2, LP!StepAnswers
  <2>4. \A f : (LP!Pending(f) <=> Ledger!Pending(f)) /\ (LP!Pending(f)' <=> Ledger!Pending(f)')
        BY DEF LP!Pending, Ledger!Pending, LP!Removals, Ledger!Removals
  <2> QED BY <2>3, <2>4
<1> QED BY <1>1, CurationIsInvariant, PTL DEF Spec, Ledger!PendingIsAnswered

(* What Undo offers while it is sure is in the Trash, unlisted, and nobody   *)
(* else is working on it.                                                    *)
THEOREM UndoOffersWhatItHas == Spec => []Ledger!OfferIsRecoverable
<1>1. CurationInv => Ledger!OfferIsRecoverable
      BY DEF CurationInv, Ledger!LedgerInv
<1> QED BY <1>1, CurationIsInvariant, PTL

(* A refresh asked for while the folder is being scanned is answered by a    *)
(* scan started afterwards, as long as threads can be started.               *)
THEOREM RefreshGetsItsOwnListing ==
    ASSUME "spawn" \notin Faults
    PROVE  Spec => RefreshIsNotAnsweredByAnOlderListing
<1>1. ASSUME [Next]_vars
      PROVE  [dirty /\ ~dirty' => \/ scan'.purpose = "refresh" /\ scan'.state = "running"
                                  \/ browse'.selected = NoFile]_vars
  <2>1. CASE \E view \in Arrivals : PollFolderScan(view)
    <3>1. PICK view \in Arrivals : PollFolderScan(view)
          BY <2>1
    <3>2. dirty /\ browse'.selected # NoFile => scan' = Scan("refresh", browse'.selected)
          BY <1>1, <3>1 DEF PollFolderScan, StartScan
    <3> QED BY <3>2 DEF Scan
  <2>2. CASE ~\E view \in Arrivals : PollFolderScan(view)
    <3>1. dirty' = dirty \/ dirty' = TRUE
          BY <1>1, <2>2
             DEF vars, Next, Submit, TrashCurrent, PermanentDeleteCurrent, PollCuration,
                 PollTrashMoved, PollDeleted, PollRemovalRefused, PollRestored,
                 PollDisconnected, Navigate, MissingLoad, UndoTrash, PlatformCall,
                 FinishLoad, OpenPath, RetryLoad, OpenFolder, RefreshMembership, ListFolder
    <3> QED BY <3>1
  <2> QED BY <2>1, <2>2
<1> QED BY <1>1, PTL DEF Spec, RefreshIsNotAnsweredByAnOlderListing

-----------------------------------------------------------------------------
(* Canonical order, and where a file that is not listed belongs in it.       *)
Ordered(s) == \A i, j \in DOMAIN s : i < j => s[i] < s[j]

Placed(s, f, i) ==
    /\ i \in 0..Len(s)
    /\ \A k \in 1..i : s[k] < f
    /\ \A k \in (i + 1)..Len(s) : f < s[k]

(* The index another entry has once the entry at i is gone.                  *)
Shifted(i, k) == IF i < k THEN k - 1 ELSE k

(* Two files that are not listed, with the positions they would have: k is   *)
(* u's position when f is in its place, at i.                                *)
Beside(s, f, i, u, k) ==
    /\ Placed(s, u, Shifted(i, k))
    /\ i < k <=> f < u

(* A removed file belongs where it was, and the place of another is still    *)
(* known.                                                                    *)
LEMMA OrderWithout ==
    ASSUME NEW s \in Seq(Files), Ordered(s), NEW f \in Files, Contains(s, f)
    PROVE  /\ Ordered(Without(s, f))
           /\ Placed(Without(s, f), f, PositionOf(s, f))
           /\ \A u \in Files, k \in Nat :
                Placed(s, u, k) => Beside(Without(s, f), f, PositionOf(s, f), u, k)
<1> DEFINE p == PositionOf(s, f)
           r == RemoveAt(s, p + 1)
           n == Len(s)
<1>1. /\ n \in Nat /\ DOMAIN s = 1..n /\ f \in Nat /\ Files \subseteq Nat
      /\ \A j \in 1..n : s[j] \in Nat
      /\ p \in 0..(n - 1) /\ s[p + 1] = f
      BY PositionFacts, Listing, FilesFacts
<1>2. p \in Nat /\ p < n /\ p + 1 \in 1..n
      BY <1>1
<1>3. Without(s, f) = r
      BY DEF Without
<1> HIDE DEF p
<1>4. /\ r \in Seq(Files)
      /\ Len(r) = n - 1
      /\ \A j \in 1..(n - 1) : r[j] = IF j < p + 1 THEN s[j] ELSE s[j + 1]
      BY <1>2, RemoveAtFacts
<1> HIDE DEF r, n
<1>5. DOMAIN r = 1..(n - 1)
      BY <1>4, Listing
<1>6. \A i, j \in 1..n : i < j => s[i] < s[j]
      BY <1>1 DEF Ordered
<1>7. Ordered(r)
  <2> SUFFICES ASSUME NEW i \in 1..(n - 1), NEW j \in 1..(n - 1), i < j
               PROVE  r[i] < r[j]
      BY <1>5 DEF Ordered
  <2> DEFINE a == IF i < p + 1 THEN i ELSE i + 1
             b == IF j < p + 1 THEN j ELSE j + 1
  <2>1. a \in 1..n /\ b \in 1..n /\ a < b
        BY <1>1, <1>2
  <2>2. r[i] = s[a] /\ r[j] = s[b]
        BY <1>4
  <2> HIDE DEF a, b
  <2> QED BY <1>6, <2>1, <2>2
<1>8. Placed(r, f, p)
  <2>1. p \in 0..Len(r)
        BY <1>1, <1>2, <1>4
  <2>2. ASSUME NEW j \in 1..p PROVE r[j] < f
    <3>1. j \in 1..(n - 1) /\ j \in 1..n /\ j < p + 1
          BY <1>1, <1>2
    <3>2. r[j] = s[j]
          BY <1>4, <3>1
    <3> QED BY <1>1, <1>2, <1>6, <3>1, <3>2
  <2>3. ASSUME NEW j \in (p + 1)..Len(r) PROVE f < r[j]
    <3>1. j \in 1..(n - 1) /\ j + 1 \in 1..n /\ ~(j < p + 1) /\ p + 1 < j + 1
          BY <1>1, <1>2, <1>4
    <3>2. r[j] = s[j + 1]
          BY <1>4, <3>1
    <3> QED BY <1>1, <1>2, <1>6, <3>1, <3>2
  <2> QED BY <2>1, <2>2, <2>3 DEF Placed
<1>9. ASSUME NEW u \in Files, NEW k \in Nat, Placed(s, u, k)
      PROVE  Beside(r, f, p, u, k)
  <2>1. /\ k \in 0..n /\ u \in Nat
        /\ \A j \in 1..k : s[j] < u
        /\ \A j \in (k + 1)..n : u < s[j]
        BY <1>1, <1>9 DEF Placed, n
  <2>2. p < k => f < u
        BY <1>1, <1>2, <2>1
  <2>3. ~(p < k) => u < f
    <3> SUFFICES ASSUME ~(p < k) PROVE u < f
        OBVIOUS
    <3>1. p + 1 \in (k + 1)..n
          BY <1>1, <1>2, <2>1
    <3> QED BY <1>1, <2>1, <3>1
  <2> DEFINE m == Shifted(p, k)
  <2>4. /\ m \in 0..(n - 1)
        /\ p < k => m = k - 1
        /\ ~(p < k) => m = k
        BY <1>1, <1>2, <2>1 DEF Shifted
  <2> HIDE DEF m
  <2>5. ASSUME NEW j \in 1..m PROVE r[j] < u
    <3> DEFINE a == IF j < p + 1 THEN j ELSE j + 1
    <3>1. j \in 1..(n - 1) /\ a \in 1..k
          BY <1>1, <1>2, <2>1, <2>4
    <3>2. r[j] = s[a]
          BY <1>4, <3>1
    <3> HIDE DEF a
    <3> QED BY <2>1, <3>1, <3>2
  <2>6. ASSUME NEW j \in (m + 1)..(n - 1) PROVE u < r[j]
    <3> DEFINE a == IF j < p + 1 THEN j ELSE j + 1
    <3>1. j \in 1..(n - 1) /\ a \in (k + 1)..n
          BY <1>1, <1>2, <2>1, <2>4
    <3>2. r[j] = s[a]
          BY <1>4, <3>1
    <3> HIDE DEF a
    <3> QED BY <2>1, <3>1, <3>2
  <2>7. Placed(r, u, m)
        BY <1>4, <2>4, <2>5, <2>6 DEF Placed
  <2> QED BY <1>1, <2>1, <2>2, <2>3, <2>7 DEF Beside, m
<1> QED BY <1>3, <1>7, <1>8, <1>9 DEF p

(* A file put back where it belongs leaves the order, and the other's place. *)
LEMMA OrderInserted ==
    ASSUME NEW s \in Seq(Files), Ordered(s), NEW f \in Files, NEW i \in Nat, Placed(s, f, i)
    PROVE  /\ Ordered(InsertAt(s, i + 1, f))
           /\ \A u \in Files, k \in Nat :
                u # f /\ Beside(s, f, i, u, k) => Placed(InsertAt(s, i + 1, f), u, k)
<1> DEFINE t == InsertAt(s, i + 1, f)
           n == Len(s)
<1>1. /\ n \in Nat /\ DOMAIN s = 1..n /\ f \in Nat /\ Files \subseteq Nat
      /\ \A j \in 1..n : s[j] \in Nat
      BY Listing, FilesFacts
<1>2. /\ i \in 0..n
      /\ \A j \in 1..i : s[j] < f
      /\ \A j \in (i + 1)..n : f < s[j]
      BY DEF Placed
<1>3. i + 1 \in 1..(n + 1)
      BY <1>1, <1>2
<1>4. /\ t \in Seq(Files)
      /\ Len(t) = n + 1
      /\ \A j \in 1..(n + 1) :
           t[j] = IF j < i + 1 THEN s[j] ELSE IF j = i + 1 THEN f ELSE s[j - 1]
  <2> DEFINE m == i + 1
  <2>1. m \in 1..(Len(s) + 1) /\ t = InsertAt(s, m, f)
        BY <1>3
  <2> HIDE DEF m, t
  <2>2. HasInserted(t, s, m, f)
        BY <2>1, InsertAtFacts
  <2> QED BY <2>2 DEF HasInserted, m
<1> HIDE DEF t, n
<1>5. DOMAIN t = 1..(n + 1)
      BY <1>4, Listing
<1>6. \A a, b \in 1..n : a < b => s[a] < s[b]
      BY <1>1 DEF Ordered
<1>7. Ordered(t)
  <2> SUFFICES ASSUME NEW a \in 1..(n + 1), NEW b \in 1..(n + 1), a < b
               PROVE  t[a] < t[b]
      BY <1>5 DEF Ordered
  <2>1. CASE b < i + 1
    <3>1. a \in 1..n /\ b \in 1..n /\ a < i + 1
          BY <1>1, <1>2, <2>1
    <3>2. t[a] = s[a] /\ t[b] = s[b]
          BY <1>4, <2>1, <3>1
    <3> QED BY <1>6, <3>1, <3>2
  <2>2. CASE b = i + 1
    <3>1. a \in 1..i /\ a < i + 1
          BY <1>1, <1>2, <2>2
    <3>2. t[a] = s[a] /\ t[b] = f
          BY <1>3, <1>4, <2>2, <3>1
    <3> QED BY <1>2, <3>1, <3>2
  <2>3. CASE b > i + 1
    <3>1. b - 1 \in (i + 1)..n /\ b - 1 \in 1..n /\ ~(b < i + 1) /\ b # i + 1
          BY <1>1, <1>2, <2>3
    <3>2. t[b] = s[b - 1] /\ f < s[b - 1]
          BY <1>2, <1>4, <3>1
    <3>3. CASE a < i + 1
      <4>1. a \in 1..i /\ a \in 1..n /\ a < b - 1
            BY <1>1, <1>2, <2>3, <3>3
      <4>2. t[a] = s[a]
            BY <1>4, <3>3
      <4> QED BY <1>6, <3>1, <3>2, <4>1, <4>2
    <3>4. CASE a = i + 1
      <4>1. t[a] = f
            BY <1>4, <3>4
      <4> QED BY <3>2, <4>1
    <3>5. CASE a > i + 1
      <4>1. a - 1 \in 1..n /\ a - 1 < b - 1 /\ ~(a < i + 1) /\ a # i + 1
            BY <1>1, <1>2, <3>5
      <4>2. t[a] = s[a - 1]
            BY <1>4, <4>1
      <4> QED BY <1>6, <3>1, <3>2, <4>1, <4>2
    <3> QED BY <1>2, <3>3, <3>4, <3>5
  <2> QED BY <1>2, <2>1, <2>2, <2>3
<1>8. ASSUME NEW u \in Files, NEW k \in Nat, u # f, Beside(s, f, i, u, k)
      PROVE  Placed(t, u, k)
  <2> DEFINE m == Shifted(i, k)
  <2>1. /\ m \in 0..n /\ u \in Nat
        /\ \A j \in 1..m : s[j] < u
        /\ \A j \in (m + 1)..n : u < s[j]
        /\ i < k <=> f < u
        BY <1>1, <1>8 DEF Beside, Placed, n
  <2>2. i < k => m = k - 1
        BY DEF Shifted
  <2>3. ~(i < k) => m = k /\ u < f
        BY <1>1, <1>8, <2>1 DEF Shifted
  <2> HIDE DEF m
  <2>4. k \in 0..(n + 1)
        BY <1>1, <2>1, <2>2, <2>3
  <2>5. ASSUME NEW j \in 1..k PROVE t[j] < u
    <3>0. j \in 1..(n + 1)
          BY <1>1, <2>4
    <3>1. CASE j < i + 1
      <4>1. t[j] = s[j] /\ j \in 1..m
            BY <1>2, <1>4, <2>1, <2>2, <2>3, <3>0, <3>1
      <4> QED BY <2>1, <4>1
    <3>2. CASE j = i + 1
      <4>1. t[j] = f /\ i < k
            BY <1>2, <1>4, <3>0, <3>2
      <4> QED BY <2>1, <4>1
    <3>3. CASE j > i + 1
      <4>1. ~(j < i + 1) /\ j # i + 1 /\ i < k /\ j - 1 \in 1..(k - 1)
            BY <1>2, <3>3
      <4>2. t[j] = s[j - 1]
            BY <1>4, <3>0, <4>1
      <4> QED BY <2>1, <2>2, <4>1, <4>2
    <3> QED BY <1>2, <3>1, <3>2, <3>3
  <2>6. ASSUME NEW j \in (k + 1)..(n + 1) PROVE u < t[j]
    <3>0. j \in 1..(n + 1) /\ j \in Nat /\ k < j
          BY <1>1
    <3>1. CASE j < i + 1
      <4>1. ~(i < k) /\ j \in (m + 1)..n
            BY <1>1, <1>2, <2>3, <3>0, <3>1
      <4>2. t[j] = s[j]
            BY <1>4, <3>0, <3>1
      <4> QED BY <2>1, <4>1, <4>2
    <3>2. CASE j = i + 1
      <4>1. ~(i < k)
            BY <1>2, <3>0, <3>2
      <4>2. t[j] = f
            BY <1>4, <3>0, <3>2
      <4> QED BY <2>3, <4>1, <4>2
    <3>3. CASE j > i + 1
      <4>1. ~(j < i + 1) /\ j # i + 1 /\ j - 1 \in (m + 1)..n
            BY <1>1, <1>2, <2>1, <2>2, <2>3, <3>0, <3>3
      <4>2. t[j] = s[j - 1]
            BY <1>4, <3>0, <4>1
      <4> QED BY <2>1, <4>1, <4>2
    <3> QED BY <1>2, <3>0, <3>1, <3>2, <3>3
  <2> QED BY <1>4, <2>4, <2>5, <2>6 DEF Placed
<1> QED BY <1>7, <1>8 DEF t

-----------------------------------------------------------------------------
(* The catalog after a removal and after a file was put back.                *)
LEMMA RemovedCatalog ==
    ASSUME NEW b \in Browses, ~b.missing, NEW f, NEW old, NEW view,
           Without(b.files, f) \in Seq(Files)
    PROVE  /\ AfterRemoved(b, f, old, view).files = Without(b.files, f)
           /\ ~AfterRemoved(b, f, old, view).missing
<1> DEFINE files == Without(b.files, f)
           index == IF files = <<>> THEN 0 ELSE Least(old, Len(files) - 1)
           kept  == [b EXCEPT !.files = files, !.index = index]
           r     == AfterRemoved(b, f, old, view)
<1>1. r = IF files = <<>> THEN Blank(kept)
          ELSE IF b.selected # f /\ Contains(files, b.selected)
          THEN [kept EXCEPT !.index = PositionOf(files, b.selected)]
          ELSE Load(kept, index, view)
      BY DEF AfterRemoved
<1> HIDE DEF files, index, r
<1>2. kept.files = files /\ ~kept.missing
      BY DEF Browses
<1>3. kept \in [files : {files}, index : {index}, selected : Files \cup {NoFile},
                missing : {FALSE}, view : Arrivals \cup {"failed", "blank"}]
      BY DEF Browses
<1> HIDE DEF kept
<1>4. Blank(kept).files = files /\ ~Blank(kept).missing
      BY <1>3 DEF Blank
<1>5. Load(kept, index, view).files = files /\ ~Load(kept, index, view).missing
      BY <1>3 DEF Load
<1>6. \A k : [kept EXCEPT !.index = k].files = files /\ ~[kept EXCEPT !.index = k].missing
      BY <1>3
<1>7. r.files = files /\ ~r.missing
      BY <1>1, <1>4, <1>5, <1>6
<1> QED BY <1>7 DEF r, files

(* A file inserted where it belongs is inserted at just that index.          *)
LEMMA InsertedCatalog ==
    ASSUME NEW b \in Browses, ~b.missing, NEW f, NEW i \in Nat, Placed(b.files, f, i)
    PROVE  /\ InsertPath(b, i, f).files = InsertAt(b.files, i + 1, f)
           /\ ~InsertPath(b, i, f).missing
<1>1. Len(b.files) \in Nat
      BY Shape, Listing
<1>2. Least(i, Len(b.files)) = i
      BY <1>1 DEF Placed, Least
<1> QED BY <1>2 DEF InsertPath, Browses

(* A load changes neither the catalog nor what is missing.                   *)
LEMMA LoadedCatalog ==
    ASSUME NEW b \in Browses, NEW index, NEW view
    PROVE  Load(b, index, view).files = b.files /\ ~Load(b, index, view).missing
BY DEF Load, Browses

(* So does a removal that is taken back.                                     *)
LEMMA RevertedCatalog ==
    ASSUME NEW b, Sound(b), ~b.missing, NEW c, c.file \in Files, c.index \in Nat, NEW view,
           ~Contains(b.files, c.file), Placed(b.files, c.file, c.index)
    PROVE  /\ Revert(b, c, view).files = InsertAt(b.files, c.index + 1, c.file)
           /\ ~Revert(b, c, view).missing
<1> DEFINE t == InsertPath(b, c.index, c.file)
<1>1. b \in Browses /\ Distinct(b.files)
      BY DEF Sound
<1>2. t \in Browses
      BY <1>1, InsertPathFacts
<1>3. t.files = InsertAt(b.files, c.index + 1, c.file) /\ ~t.missing
      BY <1>1, InsertedCatalog
<1>4. Revert(b, c, view) = IF b.selected # NoFile THEN t
                           ELSE Load(t, PositionOf(t.files, c.file), view)
      BY DEF Revert
<1> HIDE DEF t
<1>5. \A k : Load(t, k, view).files = t.files /\ ~Load(t, k, view).missing
      BY <1>2, LoadedCatalog
<1> QED BY <1>3, <1>4, <1>5

-----------------------------------------------------------------------------
(* The inductive invariant of the order.  The catalog has only files of the  *)
(* folder, the selection among them; a removal, a restore and the offer each *)
(* know where their file belongs, now that it is not listed.                 *)
Removing == worker.kind \in {"Trash", "PermanentDelete"}

CatalogIsTrue ==
    /\ Ordered(browse.files)
    /\ ~browse.missing
    /\ browse.selected \in Listed \cup {NoFile}
    /\ \A f \in Listed : OnDisk(f)

RemovalKnowsItsPlace ==
    Removing => /\ worker.here
                /\ Placed(browse.files, worker.file, worker.index)
                /\ worker.state \in {"running", "refused"} => OnDisk(worker.file)

RestoreKnowsItsPlace ==
    worker.kind = "Restore" => /\ worker.index = undo.index
                               /\ worker.state = "restored" => OnDisk(worker.file)

OfferKnowsItsPlace ==
    undo # NoUndo /\ undo.here =>
        IF Removing
        THEN Beside(browse.files, worker.file, worker.index, undo.file, undo.index)
        ELSE Placed(browse.files, undo.file, undo.index)

OrderInv ==
    CatalogIsTrue /\ RemovalKnowsItsPlace /\ RestoreKnowsItsPlace /\ OfferKnowsItsPlace

(* Nothing waits, no scan is under way and no thread has been lost.          *)
Undisturbed == queue = <<>> /\ scan = NoScan /\ (Idle \/ worker.state # "lost")

(* The invariant's first part is the promise.                                *)
LEMMA OrderIsCanonical == Ordered(browse.files) <=> CanonicalOrder
BY DEF Ordered, CanonicalOrder

(* Steps that leave the catalog, the worker and the offer alone.             *)
LEMMA SameOrder ==
    ASSUME OrderInv, UNCHANGED <<place, worker, undo>>, browse'.files = browse.files,
           ~browse'.missing, browse'.selected \in Listed \cup {NoFile}
    PROVE  OrderInv'
<1>1. Listed' = Listed /\ Removing' = Removing
      BY DEF Listed, Removing
<1>2. CatalogIsTrue'
      BY <1>1 DEF OrderInv, CatalogIsTrue, OnDisk
<1>3. RemovalKnowsItsPlace'
      BY <1>1 DEF OrderInv, RemovalKnowsItsPlace, OnDisk
<1>4. RestoreKnowsItsPlace'
      BY DEF OrderInv, RestoreKnowsItsPlace, OnDisk
<1>5. OfferKnowsItsPlace'
      BY <1>1 DEF OrderInv, OfferKnowsItsPlace
<1> QED BY <1>2, <1>3, <1>4, <1>5 DEF OrderInv

(* Moving about, whatever is being removed meanwhile.                        *)
LEMMA NavigateKeepsOrder ==
    ASSUME CurationInv, OrderInv, NEW view \in Arrivals, Navigate(view) PROVE OrderInv'
<1>1. /\ UNCHANGED <<place, worker, undo>>
      /\ \E i \in DOMAIN browse.files : browse' = Load(browse, i - 1, view)
      BY DEF Navigate
<1>2. PICK i \in DOMAIN browse.files : browse' = Load(browse, i - 1, view)
      BY <1>1
<1>3. /\ browse \in Browses /\ Distinct(browse.files) /\ browse.files \in Seq(Files)
      BY BrowseFacts DEF Sound
<1>4. i - 1 \in Nat /\ i - 1 < Len(browse.files)
      BY <1>2, <1>3, Listing
<1>5. browse'.selected \in Listed
      BY <1>2, <1>3, <1>4, LoadFacts DEF Listed
<1>6. browse'.files = browse.files /\ ~browse'.missing
      BY <1>2, <1>3, LoadedCatalog
<1> QED BY <1>1, <1>5, <1>6, SameOrder

(* A load ends or is tried again.                                            *)
LEMMA LoadingKeepsOrder ==
    ASSUME CurationInv, OrderInv, FinishLoad \/ RetryLoad PROVE OrderInv'
<1>1. browse \in Browses
      BY BrowseFacts
<1>2. /\ UNCHANGED <<place, worker, undo>>
      /\ browse'.files = browse.files /\ browse'.selected = browse.selected
      /\ ~browse'.missing
      BY <1>1 DEF FinishLoad, RetryLoad, Browses
<1> QED BY <1>2, SameOrder DEF OrderInv, CatalogIsTrue

(* Steps that are about something else altogether.                           *)
LEMMA StandingKeepsOrder ==
    ASSUME OrderInv, UNCHANGED <<place, browse, worker, undo>> PROVE OrderInv'
BY SameOrder DEF OrderInv, CatalogIsTrue

(* What is selected and presented is in the catalog.                         *)
LEMMA SelectedEntry ==
    ASSUME CurationInv, OrderInv, Presented
    PROVE  LET f == browse.selected
               p == PositionOf(browse.files, f)
           IN  /\ f \in Files /\ f \in Listed /\ OnDisk(f) /\ Contains(browse.files, f)
               /\ p \in Nat
               /\ ContextFor(browse, f) = [file |-> f, here |-> TRUE, index |-> p]
<1> DEFINE f == browse.selected
           p == PositionOf(browse.files, f)
<1>1. /\ Sound(browse) /\ browse.files \in Seq(Files) /\ Listed \subseteq Files
      /\ \A g : Contains(browse.files, g) <=> g \in Listed
      BY BrowseFacts
<1>2. f # NoFile
      BY <1>1 DEF Presented, Sound, Selected
<1>3. f \in Listed /\ OnDisk(f)
      BY <1>2 DEF OrderInv, CatalogIsTrue
<1>4. Contains(browse.files, f)
      BY <1>1, <1>3
<1>5. p \in 0..(Len(browse.files) - 1)
      BY <1>1, <1>4, PositionFacts
<1>6. ContextFor(browse, f) = [file |-> f, here |-> TRUE, index |-> p]
      BY <1>4 DEF ContextFor
<1> QED BY <1>1, <1>3, <1>4, <1>5, <1>6

(* A removal starts: its place is where its file was, and the offer's moves. *)
LEMMA RemovalKeepsOrder ==
    ASSUME CurationInv, OrderInv, Presented, Idle, NEW view \in Arrivals,
           NEW kind \in {"Trash", "PermanentDelete"},
           worker' = Worker(kind, ContextFor(browse, browse.selected)),
           LET c == ContextFor(browse, browse.selected)
           IN  browse' = AfterRemoved(browse, c.file, c.index, view),
           UNCHANGED <<place, undo>>
    PROVE  OrderInv'
<1> DEFINE f == browse.selected
           p == PositionOf(browse.files, f)
           c == ContextFor(browse, f)
           s == browse.files
<1>1. /\ f \in Files /\ f \in Listed /\ OnDisk(f) /\ Contains(s, f)
      /\ p \in Nat
      /\ c = [file |-> f, here |-> TRUE, index |-> p]
      BY SelectedEntry
<1>2. s \in Seq(Files) /\ Ordered(s) /\ browse \in Browses /\ Distinct(s) /\ ~browse.missing
      BY BrowseFacts DEF OrderInv, CatalogIsTrue, Sound
<1>3. /\ ToSet(browse'.files) = Listed \ {f}
      /\ browse'.selected \in (Listed \ {f}) \cup {NoFile}
      BY SelectionLeaves
<1>4. browse' = AfterRemoved(browse, f, p, view)
      BY <1>1
<1>5. /\ worker'.kind = kind /\ worker'.file = f /\ worker'.index = p /\ worker'.here
      /\ worker'.state = "running"
      BY <1>1 DEF Worker
<1> HIDE DEF c
<1>6. browse'.files = Without(s, f) /\ ~browse'.missing
  <2>1. Without(s, f) \in Seq(Files)
        BY <1>2, WithoutFacts
  <2> QED BY <1>2, <1>4, <2>1, RemovedCatalog
<1>7. /\ Ordered(browse'.files)
      /\ Placed(browse'.files, f, p)
      /\ \A u \in Files, k \in Nat : Placed(s, u, k) => Beside(browse'.files, f, p, u, k)
      BY <1>1, <1>2, <1>6, OrderWithout
<1> HIDE DEF p
<1>8. CatalogIsTrue'
      BY <1>3, <1>6, <1>7 DEF OrderInv, CatalogIsTrue, OnDisk, Listed
<1>9. RemovalKnowsItsPlace'
      BY <1>1, <1>5, <1>7 DEF RemovalKnowsItsPlace, OnDisk
<1>10. RestoreKnowsItsPlace'
      BY <1>5 DEF RestoreKnowsItsPlace
<1>11. OfferKnowsItsPlace'
  <2> SUFFICES ASSUME undo # NoUndo, undo.here
               PROVE  Beside(browse'.files, f, p, undo.file, undo.index)
      BY <1>5 DEF OfferKnowsItsPlace, Removing
  <2>1. Placed(s, undo.file, undo.index)
        BY DEF OrderInv, OfferKnowsItsPlace, Removing, Idle
  <2>2. undo.file \in Files /\ undo.index \in Nat
        BY TypeFacts DEF CurationInv
  <2> QED BY <1>7, <2>1, <2>2
<1> QED BY <1>8, <1>9, <1>10, <1>11 DEF OrderInv

(* A file is put back where it belongs; the offer's place is its own again.  *)
LEMMA PutBackInOrder ==
    ASSUME NEW b, Sound(b), ~b.missing, Ordered(b.files), NEW c, c.file \in Files, c.index \in Nat,
           NEW view \in Arrivals, ~Contains(b.files, c.file), b.selected # c.file,
           Placed(b.files, c.file, c.index)
    PROVE  LET r == Revert(b, c, view)
           IN  /\ Ordered(r.files) /\ ~r.missing
               /\ ToSet(r.files) = ToSet(b.files) \cup {c.file}
               /\ r.selected = b.selected \/ r.selected = c.file
               /\ \A u \in Files, k \in Nat :
                    u # c.file /\ Beside(b.files, c.file, c.index, u, k) => Placed(r.files, u, k)
<1> DEFINE r == Revert(b, c, view)
<1>1. /\ ToSet(r.files) = ToSet(b.files) \cup {c.file}
      /\ r.selected = b.selected \/ r.selected = c.file
      BY RevertFacts
<1>2. r.files = InsertAt(b.files, c.index + 1, c.file) /\ ~r.missing
      BY RevertedCatalog
<1>3. b.files \in Seq(Files)
      BY Shape DEF Sound
<1> HIDE DEF r
<1> DEFINE s == b.files
           f == c.file
           i == c.index
<1>4. s \in Seq(Files) /\ Ordered(s) /\ f \in Files /\ i \in Nat /\ Placed(s, f, i)
      BY <1>3
<1>5. r.files = InsertAt(s, i + 1, f)
      BY <1>2
<1> HIDE DEF s, f, i
<1>6. /\ Ordered(r.files)
      /\ \A u \in Files, k \in Nat : u # f /\ Beside(s, f, i, u, k) => Placed(r.files, u, k)
      BY <1>4, <1>5, OrderInserted
<1> QED BY <1>1, <1>2, <1>6 DEF r, s, f, i

(* The move did not start: its file is listed again at once.                 *)
LEMMA TakenBackKeepsOrder ==
    ASSUME CurationInv, OrderInv, Presented, Idle, NEW view \in Arrivals,
           LET c == ContextFor(browse, browse.selected)
           IN  browse' = Revert(AfterRemoved(browse, c.file, c.index, view), c, view),
           UNCHANGED <<place, worker, undo>>
    PROVE  OrderInv'
<1> DEFINE f == browse.selected
           p == PositionOf(browse.files, f)
           c == ContextFor(browse, f)
           s == browse.files
           b == AfterRemoved(browse, c.file, c.index, view)
<1>1. /\ f \in Files /\ f \in Listed /\ OnDisk(f) /\ Contains(s, f)
      /\ p \in Nat
      /\ c = [file |-> f, here |-> TRUE, index |-> p]
      BY SelectedEntry
<1>2. s \in Seq(Files) /\ Ordered(s) /\ browse \in Browses /\ Distinct(s) /\ ~browse.missing
      BY BrowseFacts DEF OrderInv, CatalogIsTrue, Sound
<1>3. /\ Sound(b)
      /\ ToSet(b.files) = Listed \ {f}
      /\ b.selected \in (Listed \ {f}) \cup {NoFile}
      BY SelectionLeaves
<1>4. b.files = Without(s, f) /\ ~b.missing
  <2>1. Without(s, f) \in Seq(Files)
        BY <1>2, WithoutFacts
  <2>2. b = AfterRemoved(browse, f, p, view)
        BY <1>1
  <2> HIDE DEF b, p
  <2> QED BY <1>2, <2>1, <2>2, RemovedCatalog
<1>5. c.file = f /\ c.index = p
      BY <1>1
<1>6. browse' = Revert(b, c, view)
      OBVIOUS
<1> HIDE DEF b, c
<1>7. /\ Ordered(b.files)
      /\ Placed(b.files, f, p)
      /\ \A u \in Files, k \in Nat : Placed(s, u, k) => Beside(b.files, f, p, u, k)
      BY <1>1, <1>2, <1>4, OrderWithout
<1> HIDE DEF p
<1>8. b.selected # f /\ ~Contains(b.files, f)
  <2>1. f # NoFile
        BY <1>1, FilesFacts
  <2>2. b.files \in Seq(Files)
        BY <1>3, Shape DEF Sound
  <2> QED BY <1>3, <2>1, <2>2, Listing
<1>9. /\ Ordered(browse'.files) /\ ~browse'.missing
      /\ ToSet(browse'.files) = ToSet(b.files) \cup {f}
      /\ browse'.selected = b.selected \/ browse'.selected = f
      /\ \A u \in Files, k \in Nat : u # f /\ Beside(b.files, f, p, u, k) => Placed(browse'.files, u, k)
  <2>1. /\ Sound(b) /\ ~b.missing /\ Ordered(b.files) /\ c.file \in Files /\ c.index \in Nat
        /\ ~Contains(b.files, c.file) /\ b.selected # c.file /\ Placed(b.files, c.file, c.index)
        BY <1>1, <1>3, <1>4, <1>5, <1>7, <1>8
  <2> QED BY <1>5, <1>6, <2>1, PutBackInOrder
<1>10. Listed' = Listed
      BY <1>1, <1>3, <1>9 DEF Listed
<1>11. CatalogIsTrue'
      BY <1>1, <1>3, <1>9, <1>10 DEF OrderInv, CatalogIsTrue, OnDisk
<1>12. RemovalKnowsItsPlace' /\ RestoreKnowsItsPlace' /\ ~Removing /\ ~Removing'
      BY DEF RemovalKnowsItsPlace, RestoreKnowsItsPlace, Removing, Idle
<1>13. OfferKnowsItsPlace'
  <2> SUFFICES ASSUME undo # NoUndo, undo.here
               PROVE  Placed(browse'.files, undo.file, undo.index)
      BY <1>12 DEF OfferKnowsItsPlace
  <2>1. Placed(s, undo.file, undo.index)
        BY <1>12 DEF OrderInv, OfferKnowsItsPlace
  <2>2. undo.file \in Files /\ undo.index \in Nat
        BY TypeFacts DEF CurationInv
  <2>3. undo.file # f
        BY SelectionLeaves
  <2> QED BY <1>7, <1>9, <2>1, <2>2, <2>3
<1> QED BY <1>11, <1>12, <1>13 DEF OrderInv

(* A move to the Trash starts at once, since nothing may wait.               *)
LEMMA TrashCurrentKeepsOrder ==
    ASSUME CurationInv, OrderInv, NEW view \in Arrivals, TrashCurrent(view), queue' = <<>>
    PROVE  OrderInv'
<1> DEFINE c == ContextFor(browse, browse.selected)
           committed == AfterRemoved(browse, c.file, c.index, view)
<1>1. Presented /\ UNCHANGED <<place, undo>>
      BY DEF TrashCurrent
<1>2. \/ Idle /\ worker' = Worker("Trash", c) /\ browse' = committed
      \/ Idle /\ browse' = Revert(committed, c, view) /\ UNCHANGED worker
      \/ queue' = Append(queue, c)
      BY DEF TrashCurrent
<1>3. queue' # Append(queue, c)
  <2>1. queue \in Seq(Removal) /\ c \in Removal
        BY <1>1, SelectionLeaves DEF CurationInv, CurationTypeOK
  <2> HIDE DEF c
  <2>2. Append(queue, c) # <<>>
        BY <2>1, AppendProperties
  <2> QED BY <2>2
<1>4. CASE Idle /\ worker' = Worker("Trash", c) /\ browse' = committed
      BY <1>1, <1>4, RemovalKeepsOrder
<1>5. CASE Idle /\ browse' = Revert(committed, c, view) /\ UNCHANGED worker
      BY <1>1, <1>5, TakenBackKeepsOrder
<1> QED BY <1>2, <1>3, <1>4, <1>5

(* A permanent delete starts.                                                *)
LEMMA PermanentDeleteKeepsOrder ==
    ASSUME CurationInv, OrderInv, NEW view \in Arrivals, PermanentDeleteCurrent(view)
    PROVE  OrderInv'
BY RemovalKeepsOrder DEF PermanentDeleteCurrent

(* The restore takes over the index of the record it was cloned from.        *)
LEMMA UndoTrashKeepsOrder ==
    ASSUME CurationInv, OrderInv, UndoTrash PROVE OrderInv'
<1>1. /\ Idle /\ worker' = Worker("Restore", undo) /\ UNCHANGED <<place, browse, undo>>
      BY DEF UndoTrash
<1>2. worker'.kind = "Restore" /\ worker'.index = undo.index /\ worker'.state = "running"
      BY <1>1 DEF Worker
<1>3. ~Removing /\ ~Removing'
      BY <1>1, <1>2 DEF Removing, Idle
<1>4. Listed' = Listed
      BY <1>1 DEF Listed
<1>5. CatalogIsTrue'
      BY <1>1, <1>4 DEF OrderInv, CatalogIsTrue, OnDisk
<1>6. OfferKnowsItsPlace'
      BY <1>1, <1>3 DEF OrderInv, OfferKnowsItsPlace
<1> QED BY <1>1, <1>2, <1>3, <1>5, <1>6
        DEF OrderInv, RemovalKnowsItsPlace, RestoreKnowsItsPlace

(* A platform call moves one file, which is not listed, and says where to.   *)
LEMMA PublishKeepsOrder ==
    ASSUME CurationInv, OrderInv, ~Idle, worker.state = "running",
           NEW state \in WorkerStates, Publish(state), UNCHANGED <<browse, undo>>,
           NEW to, place' = place \/ place' = [place EXCEPT ![worker.file] = to],
           Removing => worker.file \in InFlight,
           Removing /\ state \in {"running", "refused"} => place' = place,
           ~Removing => place' = place \/ to = "folder",
           state = "restored" => place' = [place EXCEPT ![worker.file] = "folder"]
    PROVE  OrderInv'
<1>1. /\ CurationTypeOK /\ \A f \in Listed : f \notin InFlight
      /\ Listed \subseteq Files
      BY BrowseFacts
<1>2. /\ worker \in [kind : Kinds, file : Files, index : Nat, here : BOOLEAN, state : WorkerStates]
      /\ worker' = [worker EXCEPT !.state = state]
      BY <1>1, WorkerFacts DEF CurationTypeOK, Publish
<1>3. /\ worker'.kind = worker.kind /\ worker'.file = worker.file /\ worker'.index = worker.index
      /\ worker'.here = worker.here /\ worker'.state = state /\ worker.file \in Files
      BY <1>2
<1>4. place \in [Files -> {"folder", "trash", "gone"}]
      BY DEF CurationInv, Ledger!LedgerInv, Ledger!LedgerTypeOK
<1>5. \A f \in Listed : OnDisk(f)'
  <2> SUFFICES ASSUME NEW f \in Listed PROVE place'[f] = "folder"
      BY DEF OnDisk
  <2>1. place[f] = "folder"
        BY DEF OrderInv, CatalogIsTrue, OnDisk
  <2>2. CASE Removing
    <3>1. f # worker.file
          BY <1>1, <2>2
    <3> QED BY <1>1, <1>4, <2>1, <3>1
  <2>3. CASE ~Removing
        BY <1>1, <1>4, <2>1, <2>3
  <2> QED BY <2>2, <2>3
<1>6. Listed' = Listed /\ Removing' = Removing
      BY <1>3 DEF Listed, Removing
<1>7. CatalogIsTrue'
      BY <1>5, <1>6 DEF OrderInv, CatalogIsTrue
<1>8. RemovalKnowsItsPlace'
      BY <1>3, <1>6 DEF OrderInv, RemovalKnowsItsPlace, OnDisk
<1>9. RestoreKnowsItsPlace'
      BY <1>3, <1>4 DEF OrderInv, RestoreKnowsItsPlace, OnDisk
<1>10. OfferKnowsItsPlace'
      BY <1>3, <1>6 DEF OrderInv, OfferKnowsItsPlace
<1> QED BY <1>7, <1>8, <1>9, <1>10 DEF OrderInv

(* One platform call, in each of its outcomes but a lost thread.             *)
LEMMA PlatformKeepsOrder ==
    ASSUME CurationInv, OrderInv, PlatformCall, ~(worker'.state = "lost") PROVE OrderInv'
<1>1. /\ ~Idle /\ worker.state = "running" /\ UNCHANGED <<browse, undo>>
      BY DEF PlatformCall
<1>2. Removing => worker.file \in InFlight
      BY PendingFacts DEF CurationInv, Removing
<1>3. /\ worker \in [kind : Kinds, file : Files, index : Nat, here : BOOLEAN, state : WorkerStates]
      BY <1>1, WorkerFacts DEF CurationInv, CurationTypeOK
<1>4. CASE PlatformTrash
  <2>1. PICK state \in {"moved", "unreceipted"} : Publish(state)
        BY <1>4 DEF PlatformTrash
  <2>2. place' = [place EXCEPT ![worker.file] = "trash"] /\ Removing
        BY <1>4 DEF PlatformTrash, MoveFile, Removing
  <2> QED BY <1>1, <1>2, <2>1, <2>2, PublishKeepsOrder DEF WorkerStates
<1>5. CASE PlatformDelete
  <2>1. place' = [place EXCEPT ![worker.file] = "gone"] /\ Removing /\ Publish("deleted")
        BY <1>5 DEF PlatformDelete, MoveFile, Removing
  <2> QED BY <1>1, <1>2, <2>1, PublishKeepsOrder DEF WorkerStates
<1>6. CASE PlatformRestore
  <2>1. place' = [place EXCEPT ![worker.file] = "folder"] /\ ~Removing /\ Publish("restored")
        BY <1>6 DEF PlatformRestore, MoveFile, Removing
  <2> QED BY <1>1, <1>2, <2>1, PublishKeepsOrder DEF WorkerStates
<1>7. CASE PlatformRefuse
  <2>1. place' = place /\ \E state \in {"refused", "retryable", "dropped"} : Publish(state)
        BY <1>7 DEF PlatformRefuse
  <2>2. PICK state \in {"refused", "retryable", "dropped"} : Publish(state)
        BY <2>1
  <2> QED BY <1>1, <1>2, <2>1, <2>2, PublishKeepsOrder DEF WorkerStates
<1>8. ~PlatformPanic
  <2> SUFFICES ASSUME PlatformPanic PROVE worker'.state = "lost"
      OBVIOUS
  <2>1. worker' = [worker EXCEPT !.state = "lost"]
        BY DEF PlatformPanic, Publish
  <2> QED BY <1>3, <2>1
<1> QED BY <1>4, <1>5, <1>6, <1>7, <1>8 DEF PlatformCall

(* A removal has ended and its file is gone: the offer, old or new, knows    *)
(* its place in the catalog as it is now.                                    *)
LEMMA SettledKeepsOrder ==
    ASSUME CurationInv, OrderInv, Removing, UNCHANGED <<place, browse>>, worker' = NoWorker,
           \/ undo' = Rebased(undo, worker)
           \/ undo' = [file |-> worker.file, index |-> worker.index,
                       here |-> worker.here, sure |-> TRUE]
    PROVE  OrderInv'
<1>1. /\ worker.here /\ Placed(browse.files, worker.file, worker.index)
      BY DEF OrderInv, RemovalKnowsItsPlace
<1>2. ~Removing' /\ worker'.kind # "Restore" /\ Listed' = Listed
      BY DEF Removing, NoWorker, Listed
<1>3. CatalogIsTrue'
      BY <1>2 DEF OrderInv, CatalogIsTrue, OnDisk
<1>4. CurationTypeOK /\ ~Idle
      BY DEF CurationInv, Removing, Idle
<1>5. CASE undo' = [file |-> worker.file, index |-> worker.index,
                    here |-> worker.here, sure |-> TRUE]
  <2>1. undo'.file = worker.file /\ undo'.index = worker.index
        BY <1>5
  <2> QED BY <1>1, <1>2, <1>3, <2>1
          DEF OrderInv, RemovalKnowsItsPlace, RestoreKnowsItsPlace, OfferKnowsItsPlace
<1>6. CASE undo' = Rebased(undo, worker)
  <2>1. OfferKnowsItsPlace'
    <3> SUFFICES ASSUME undo' # NoUndo, undo'.here
                 PROVE  Placed(browse.files, undo'.file, undo'.index)
        BY <1>2 DEF OfferKnowsItsPlace
    <3>1. undo # NoUndo /\ undo.here /\ undo'.file = undo.file
          BY <1>4, <1>6, RebasedFacts
    <3>2. Placed(browse.files, undo.file, Shifted(worker.index, undo.index))
          BY <3>1 DEF OrderInv, OfferKnowsItsPlace, Beside
    <3>3. undo \in [file : Files, index : Nat, here : BOOLEAN, sure : BOOLEAN]
          BY <1>4, <3>1, TypeFacts
    <3>4. undo'.index = Shifted(worker.index, undo.index)
          BY <1>1, <1>6, <3>1, <3>3 DEF Rebased, Shifted
    <3> QED BY <3>1, <3>2, <3>4
  <2> QED BY <1>2, <1>3, <2>1 DEF OrderInv, RemovalKnowsItsPlace, RestoreKnowsItsPlace
<1> QED BY <1>5, <1>6

(* A move or a permanent delete took effect.                                 *)
LEMMA PollMovedKeepsOrder ==
    ASSUME CurationInv, OrderInv, queue = <<>>, NEW view \in Arrivals,
           PollTrashMoved(view) \/ PollDeleted(view)
    PROVE  OrderInv'
<1>1. Removing /\ UNCHANGED place
      BY DEF PollTrashMoved, PollDeleted, Removing
<1>2. /\ browse' = DropIfListed(browse, worker, view)
      /\ worker' = NoWorker
      BY DEF PollTrashMoved, PollDeleted, StartNextPending
<1>3. \/ undo' = Rebased(undo, worker)
      \/ undo' = [file |-> worker.file, index |-> worker.index,
                  here |-> worker.here, sure |-> TRUE]
      BY DEF PollTrashMoved, PollDeleted
<1>4. worker.file \in InFlight
      BY <1>1, PendingFacts DEF CurationInv, Removing
<1>5. browse' = browse
      BY <1>2, <1>4, NothingToDrop
<1> QED BY <1>1, <1>2, <1>3, <1>5, SettledKeepsOrder

(* A refused removal puts its file back.                                     *)
LEMMA PollRemovalRefusedKeepsOrder ==
    ASSUME CurationInv, OrderInv, queue = <<>>, NEW view \in Arrivals, PollRemovalRefused(view)
    PROVE  OrderInv'
<1>1. /\ Removing /\ worker.state = "refused" /\ worker' = NoWorker /\ UNCHANGED <<place, undo>>
      /\ browse' = RevertAll(Revert(browse, worker, view), queue, view)
      BY DEF PollRemovalRefused, Removing
<1>2. browse' = Revert(browse, worker, view)
  <2> DEFINE b == Revert(browse, worker, view)
             s == queue
  <2>1. s \in Seq(Removal) /\ Len(s) = 0 /\ browse' = RevertAll(b, s, view)
        BY <1>1 DEF CurationInv, CurationTypeOK
  <2> HIDE DEF b, s
  <2>2. PICK r : RevertAll(b, s, view) = r[Len(s)] /\ Reverts(r, b, s, view)
        BY <2>1, RevertAllIsIterated
  <2> QED BY <2>1, <2>2 DEF Reverts, b
<1>3. /\ worker.here /\ Placed(browse.files, worker.file, worker.index) /\ OnDisk(worker.file)
      BY <1>1 DEF OrderInv, RemovalKnowsItsPlace
<1>4. /\ CurationTypeOK /\ Sound(browse) /\ worker.file \in Files /\ worker.index \in Nat
      /\ worker.file \in InFlight
      BY <1>1, BrowseFacts, WorkerFacts, PendingFacts DEF Removing, Idle
<1>5. ~Contains(browse.files, worker.file) /\ browse.selected # worker.file
      BY <1>4, BrowseFacts
<1>6. Ordered(browse.files) /\ ~browse.missing
      BY DEF OrderInv, CatalogIsTrue
<1>7. /\ Ordered(browse'.files) /\ ~browse'.missing
      /\ ToSet(browse'.files) = Listed \cup {worker.file}
      /\ browse'.selected = browse.selected \/ browse'.selected = worker.file
      /\ \A u \in Files, k \in Nat :
           u # worker.file /\ Beside(browse.files, worker.file, worker.index, u, k)
             => Placed(browse'.files, u, k)
  <2> DEFINE b == browse
             c == worker
             r == browse'
  <2>1. /\ Sound(b) /\ ~b.missing /\ Ordered(b.files) /\ c.file \in Files /\ c.index \in Nat
        /\ ~Contains(b.files, c.file) /\ b.selected # c.file /\ Placed(b.files, c.file, c.index)
        /\ r = Revert(b, c, view)
        BY <1>2, <1>3, <1>4, <1>5, <1>6
  <2> HIDE DEF b, c, r
  <2>2. /\ Ordered(r.files) /\ ~r.missing
        /\ ToSet(r.files) = ToSet(b.files) \cup {c.file}
        /\ r.selected = b.selected \/ r.selected = c.file
        /\ \A u \in Files, k \in Nat :
             u # c.file /\ Beside(b.files, c.file, c.index, u, k) => Placed(r.files, u, k)
        BY <2>1, PutBackInOrder
  <2> QED BY <2>2 DEF b, c, r, Listed
<1>8. Listed' = Listed \cup {worker.file}
      BY <1>7 DEF Listed
<1>9. CatalogIsTrue'
      BY <1>1, <1>3, <1>7, <1>8 DEF OrderInv, CatalogIsTrue, OnDisk
<1>10. ~Removing' /\ worker'.kind # "Restore"
      BY <1>1 DEF Removing, NoWorker
<1>11. OfferKnowsItsPlace'
  <2> SUFFICES ASSUME undo # NoUndo, undo.here
               PROVE  Placed(browse'.files, undo.file, undo.index)
      BY <1>1, <1>10 DEF OfferKnowsItsPlace
  <2>1. Beside(browse.files, worker.file, worker.index, undo.file, undo.index)
        BY <1>1 DEF OrderInv, OfferKnowsItsPlace
  <2>2. undo.file \in Files /\ undo.index \in Nat
        BY <1>4, TypeFacts
  <2>3. undo.file # worker.file
        BY <1>4 DEF CurationInv, OfferStaysAside
  <2> QED BY <1>7, <2>1, <2>2, <2>3
<1> QED BY <1>9, <1>10, <1>11 DEF OrderInv, RemovalKnowsItsPlace, RestoreKnowsItsPlace

(* A restored file is put back where the offer said.                         *)
LEMMA PollRestoredKeepsOrder ==
    ASSUME CurationInv, OrderInv, scan = NoScan, PollRestored PROVE OrderInv'
<1> DEFINE i        == Least(worker.index, Len(browse.files))
           inserted == InsertPath(browse, i, worker.file)
           b        == browse
           f        == worker.file
           n        == worker.index
<1>1. /\ worker.kind = "Restore" /\ worker' = NoWorker /\ UNCHANGED place
      /\ undo' = undo \/ undo' = NoUndo
      /\ worker.state = "restored" => undo' = NoUndo
      BY DEF PollRestored
<1>2. ~Removing /\ ~Removing' /\ worker'.kind # "Restore"
      BY <1>1 DEF Removing, NoWorker
<1>3. CASE worker.state # "restored" \/ ~worker.here
  <2>1. browse' = browse
        BY <1>3 DEF PollRestored
  <2>2. Listed' = Listed
        BY <2>1 DEF Listed
  <2>3. CatalogIsTrue'
        BY <1>1, <2>1, <2>2 DEF OrderInv, CatalogIsTrue, OnDisk
  <2>4. OfferKnowsItsPlace'
        BY <1>1, <1>2, <2>1 DEF OrderInv, OfferKnowsItsPlace
  <2> QED BY <1>2, <2>3, <2>4 DEF OrderInv, RemovalKnowsItsPlace, RestoreKnowsItsPlace
<1>4. CASE worker.state = "restored" /\ worker.here
  <2>1. ~ExclusiveScan
        BY DEF ExclusiveScan, NoScan
  <2>2. browse' = Load(inserted, i, "loading")
        BY <1>4, <2>1 DEF PollRestored
  <2>3. undo # NoUndo /\ worker.file = undo.file /\ undo.here /\ worker.index = undo.index
        BY <1>1, <1>4 DEF CurationInv, RestoreIsOfTheOffer, OrderInv, RestoreKnowsItsPlace
  <2>4. /\ Placed(b.files, f, n) /\ Ordered(b.files) /\ ~b.missing
        BY <1>2, <2>3 DEF OrderInv, OfferKnowsItsPlace, CatalogIsTrue
  <2>5. /\ b \in Browses /\ Distinct(b.files) /\ b.files \in Seq(Files)
        /\ f \in Files /\ n \in Nat /\ OnDisk(f) /\ Len(b.files) \in Nat
        BY <1>1, <1>4, BrowseFacts, WorkerFacts, Listing
           DEF Sound, Idle, OrderInv, RestoreKnowsItsPlace
  <2>6. i = n
        BY <2>4, <2>5 DEF Placed, Least
  <2>7. ~Contains(b.files, f)
        BY <2>3, BrowseFacts DEF CurationInv, OfferStaysAside
  <2>8. browse' = Load(InsertPath(b, n, f), n, "loading")
        BY <2>2, <2>6
  <2> HIDE DEF b, f, n, i, inserted
  <2> DEFINE t == InsertPath(b, n, f)
  <2>9. /\ t \in Browses /\ Distinct(t.files)
        /\ ToSet(t.files) = ToSet(b.files) \cup {f}
        /\ Len(t.files) = Len(b.files) + 1
        BY <2>5, <2>7, InsertPathFacts
  <2>10. t.files = InsertAt(b.files, n + 1, f)
        BY <2>4, <2>5, InsertedCatalog
  <2>11. Ordered(t.files)
    <3> DEFINE s == b.files
    <3>1. s \in Seq(Files) /\ Ordered(s) /\ Placed(s, f, n)
          BY <2>4, <2>5
    <3>2. t.files = InsertAt(s, n + 1, f)
          BY <2>10
    <3> HIDE DEF s, t
    <3> QED BY <2>5, <3>1, <3>2, OrderInserted
  <2> HIDE DEF t
  <2>12. n < Len(t.files)
        BY <2>4, <2>5, <2>9 DEF Placed
  <2>13. browse' = Load(t, n, "loading") /\ "loading" \in Arrivals
        BY <2>8 DEF t, Arrivals
  <2>14. browse'.files = t.files /\ browse'.selected \in ToSet(t.files) /\ ~browse'.missing
        BY <2>5, <2>9, <2>12, <2>13, LoadFacts, LoadedCatalog
  <2>15. Listed' = Listed \cup {f} /\ browse'.selected \in Listed'
        BY <2>9, <2>14 DEF Listed, b
  <2>16. CatalogIsTrue'
        BY <1>1, <2>5, <2>11, <2>14, <2>15 DEF OrderInv, CatalogIsTrue, OnDisk
  <2>17. undo' = NoUndo
        BY <1>1, <1>4
  <2> QED BY <1>2, <2>16, <2>17
          DEF OrderInv, RemovalKnowsItsPlace, RestoreKnowsItsPlace, OfferKnowsItsPlace
<1> QED BY <1>3, <1>4

(* Another file is opened, and no listing of its folder is on its way.       *)
LEMMA OpenPathKeepsOrder ==
    ASSUME CurationInv, OrderInv, OpenPath PROVE OrderInv'
<1>1. ~browse.missing
      BY DEF OrderInv, CatalogIsTrue
<1>2. PICK f \in Files :
        /\ OnDisk(f)
        /\ browse' = [files |-> <<f>>, index |-> 0, selected |-> f,
                      view |-> "loading", missing |-> browse.missing /\ f = browse.selected]
      BY <1>1 DEF OpenPath
<1>3. /\ Idle /\ UNCHANGED <<place, worker>>
      /\ undo' = NoUndo \/ ~undo'.here
  <2>1. Idle /\ RetireScopes /\ UNCHANGED place
        BY DEF OpenPath
  <2>2. undo = NoUndo \/ undo \in [file : Files, index : Nat, here : BOOLEAN, sure : BOOLEAN]
        BY DEF CurationInv, CurationTypeOK
  <2> QED BY <2>1, <2>2 DEF RetireScopes
<1>4. browse'.files = <<f>> /\ browse'.selected = f /\ ~browse'.missing
      BY <1>1, <1>2
<1>5. Ordered(<<f>>) /\ ToSet(<<f>>) = {f}
      BY DEF Ordered, ToSet
<1>6. CatalogIsTrue'
      BY <1>2, <1>3, <1>4, <1>5 DEF CatalogIsTrue, Listed, OnDisk
<1>7. ~Removing' /\ worker'.kind # "Restore"
      BY <1>3 DEF Removing, Idle
<1> QED BY <1>3, <1>6, <1>7
        DEF OrderInv, RemovalKnowsItsPlace, RestoreKnowsItsPlace, OfferKnowsItsPlace

(* Everything listed is there, so no load finds its file missing.            *)
LEMMA NothingIsMissing ==
    ASSUME CurationInv, OrderInv, NEW view PROVE ~MissingLoad(view)
<1> SUFFICES ASSUME browse.view = "loading", ~OnDisk(browse.selected) PROVE FALSE
    BY DEF MissingLoad
<1>1. browse.selected # NoFile
      BY BrowseFacts DEF Sound, Selected
<1> QED BY <1>1 DEF OrderInv, CatalogIsTrue

(* Every step that leaves the engine undisturbed keeps the order.            *)
LEMMA NextKeepsOrder ==
    CurationInv /\ OrderInv /\ Undisturbed /\ Undisturbed' /\ [Next]_vars => OrderInv'
<1> SUFFICES ASSUME CurationInv, OrderInv, Undisturbed, Undisturbed', [Next]_vars PROVE OrderInv'
    OBVIOUS
<1>1. queue = <<>> /\ queue' = <<>> /\ scan = NoScan /\ (Idle \/ worker.state # "lost")
      /\ (Idle' \/ worker'.state # "lost")
      BY DEF Undisturbed
<1>2. ASSUME NEW view \in Arrivals, TrashCurrent(view) PROVE OrderInv'
      BY <1>1, <1>2, TrashCurrentKeepsOrder
<1>3. ASSUME NEW view \in Arrivals, PermanentDeleteCurrent(view) PROVE OrderInv'
      BY <1>3, PermanentDeleteKeepsOrder
<1>4. ASSUME NEW view \in Arrivals, PollTrashMoved(view) \/ PollDeleted(view) PROVE OrderInv'
      BY <1>1, <1>4, PollMovedKeepsOrder
<1>5. ASSUME NEW view \in Arrivals, PollRemovalRefused(view) PROVE OrderInv'
      BY <1>1, <1>5, PollRemovalRefusedKeepsOrder
<1>6. CASE PollRestored
      BY <1>1, <1>6, PollRestoredKeepsOrder
<1>7. ASSUME NEW view \in Arrivals, PollDisconnected(view) PROVE FALSE
      BY <1>1, <1>7 DEF PollDisconnected
<1>8. ASSUME NEW view \in Arrivals, Navigate(view) PROVE OrderInv'
      BY <1>8, NavigateKeepsOrder
<1>9. ASSUME NEW view \in Arrivals, MissingLoad(view) PROVE FALSE
      BY <1>9, NothingIsMissing
<1>10. ASSUME NEW view \in Arrivals, PollFolderScan(view) PROVE FALSE
      BY <1>1, <1>10 DEF PollFolderScan
<1>11. CASE UndoTrash
      BY <1>11, UndoTrashKeepsOrder
<1>12. CASE PlatformCall
  <2>1. ~Idle'
    <3>1. ~Idle /\ (\E state \in WorkerStates : Publish(state))
          BY <1>12 DEF PlatformCall, PlatformTrash, PlatformDelete, PlatformRestore,
                       PlatformRefuse, PlatformPanic, WorkerStates
    <3>2. worker \in [kind : Kinds, file : Files, index : Nat, here : BOOLEAN, state : WorkerStates]
          BY <3>1, WorkerFacts DEF CurationInv, CurationTypeOK
    <3> QED BY <3>1, <3>2 DEF Publish, Idle
  <2> QED BY <1>1, <1>12, <2>1, PlatformKeepsOrder
<1>13. CASE FinishLoad \/ RetryLoad
      BY <1>13, LoadingKeepsOrder
<1>14. CASE OpenPath
      BY <1>14, OpenPathKeepsOrder
<1>15. CASE OpenFolder \/ RefreshMembership \/ UNCHANGED vars
  <2>1. UNCHANGED <<place, browse, worker, undo>>
        BY <1>15 DEF OpenFolder, RefreshMembership, vars
  <2> QED BY <2>1, StandingKeepsOrder
<1>16. CASE ListFolder
      BY <1>1, <1>16 DEF ListFolder
<1> QED BY <1>2, <1>3, <1>4, <1>5, <1>6, <1>7, <1>8, <1>9, <1>10, <1>11, <1>12, <1>13, <1>14,
           <1>15, <1>16 DEF Next, Submit, PollCuration

(* The folder starts in order.                                               *)
LEMMA OrderStarts == Init /\ Undisturbed => OrderInv
<1> SUFFICES ASSUME Init, Undisturbed PROVE OrderInv
    OBVIOUS
<1> DEFINE s == [i \in Files |-> i]
<1>1. /\ browse = [files |-> s, index |-> 0, missing |-> FALSE,
                   selected |-> IF NumFiles = 0 THEN NoFile ELSE 1,
                   view |-> IF NumFiles = 0 THEN "blank" ELSE "loading"]
      /\ place = [f \in Files |-> "folder"]
      /\ worker = NoWorker /\ undo = NoUndo
  <2>1. \A f : Scan("refresh", f) # NoScan
    <3>1. \A f : Scan("refresh", f).purpose = "refresh" /\ NoScan.purpose = "none"
          BY DEF Scan, NoScan
    <3> QED BY <3>1
  <2> QED BY <2>1 DEF Init, Undisturbed
<1>2. Ordered(s) /\ DOMAIN s = Files
  <2>1. \A i, j \in Files : i < j => s[i] < s[j]
        OBVIOUS
  <2> QED BY <2>1 DEF Ordered
<1>3. ToSet(s) = Files
      BY <1>2 DEF ToSet
<1>4. browse.selected \in Files \cup {NoFile}
  <2>1. NumFiles \in Nat
        BY CurationAssumption
  <2>2. NumFiles # 0 => 1 \in Files
        BY <2>1 DEF Files
  <2> QED BY <1>1, <2>2
<1>5. browse.files = s /\ ~browse.missing
      BY <1>1
<1> HIDE DEF s
<1>6. CatalogIsTrue
      BY <1>1, <1>2, <1>3, <1>4, <1>5 DEF CatalogIsTrue, Listed, OnDisk
<1>7. ~Removing /\ worker.kind # "Restore"
      BY <1>1 DEF Removing, NoWorker
<1> QED BY <1>1, <1>6, <1>7
        DEF OrderInv, RemovalKnowsItsPlace, RestoreKnowsItsPlace, OfferKnowsItsPlace

(* With no room in the FIFO, no scans and no thread lost, nothing disturbs.  *)
Secluded == Undisturbed /\ scansLeft = 0

LEMMA SecludedStays ==
    ASSUME MaxPending = 0, "lost" \notin Faults
    PROVE  CurationInv /\ OrderInv /\ Secluded /\ [Next]_vars => Secluded'
<1> SUFFICES ASSUME CurationInv, OrderInv, Secluded, [Next]_vars PROVE Secluded'
    OBVIOUS
<1>1. queue = <<>> /\ scan = NoScan /\ (Idle \/ worker.state # "lost") /\ ~(scansLeft > 0) /\ scansLeft = 0
      BY DEF Undisturbed, Secluded
<1>2. ~HasRoom
  <2>1. Len(<<>>) = 0
        OBVIOUS
  <2> QED BY <1>1, <2>1 DEF HasRoom
<1>3. \A kind, c : Worker(kind, c).state # "lost"
      BY DEF Worker
<1>4. NoWorker.kind = "none"
      BY DEF NoWorker
<1>5. ASSUME UNCHANGED <<queue, scan, scansLeft>>,
             worker' = worker \/ worker' = NoWorker \/ \E kind, c : worker' = Worker(kind, c)
      PROVE  Secluded'
      BY <1>1, <1>3, <1>4, <1>5 DEF Secluded, Undisturbed, Idle
<1>6. ASSUME NEW view \in Arrivals, TrashCurrent(view) PROVE Secluded'
      BY <1>2, <1>5, <1>6 DEF TrashCurrent
<1>7. ASSUME NEW view \in Arrivals, PermanentDeleteCurrent(view) PROVE Secluded'
      BY <1>5, <1>7 DEF PermanentDeleteCurrent
<1>8. ASSUME NEW view \in Arrivals,
             \/ PollTrashMoved(view) \/ PollDeleted(view) \/ PollRemovalRefused(view)
             \/ PollDisconnected(view)
      PROVE  Secluded'
      BY <1>1, <1>5, <1>8 DEF PollTrashMoved, PollDeleted, PollRemovalRefused, PollDisconnected,
                              StartNextPending
<1>9. CASE PollRestored
      BY <1>5, <1>9 DEF PollRestored
<1>10. ASSUME NEW view \in Arrivals, Navigate(view) \/ MissingLoad(view) \/ PollFolderScan(view)
       PROVE  Secluded'
      BY <1>1, <1>5, <1>10, NothingIsMissing DEF Navigate, PollFolderScan
<1>11. CASE UndoTrash
      BY <1>5, <1>11 DEF UndoTrash
<1>12. CASE PlatformCall
  <2>1. \E state \in WorkerStates \ {"lost"} : Publish(state)
        BY <1>12 DEF PlatformCall, PlatformTrash, PlatformDelete, PlatformRestore,
                     PlatformRefuse, PlatformPanic, WorkerStates
  <2>2. worker \in [kind : Kinds, file : Files, index : Nat, here : BOOLEAN, state : WorkerStates]
        BY <1>12, WorkerFacts DEF PlatformCall, CurationInv, CurationTypeOK
  <2>3. worker'.state # "lost"
        BY <2>1, <2>2 DEF Publish
  <2>4. UNCHANGED <<queue, scan, scansLeft>>
        BY <1>12 DEF PlatformCall
  <2> QED BY <1>1, <2>3, <2>4 DEF Secluded, Undisturbed
<1>13. CASE FinishLoad \/ RetryLoad \/ UNCHANGED vars
      BY <1>5, <1>13 DEF FinishLoad, RetryLoad, vars
<1>14. CASE OpenPath \/ OpenFolder \/ RefreshMembership \/ ListFolder
      BY <1>1, <1>14 DEF OpenPath, OpenFolder, RefreshMembership, ListFolder
<1> QED BY <1>6, <1>7, <1>8, <1>9, <1>10, <1>11, <1>12, <1>13, <1>14
        DEF Next, Submit, PollCuration

(* Positions are canonical, as the documents promise, as long as one removal *)
(* runs at a time, no scan overlaps and no thread is lost: whatever is       *)
(* removed, refused, kept for Undo and restored, in any folder, and however  *)
(* the user moves about meanwhile, every file goes back where it belongs.    *)
(* What else may happen does disturb the order, as README.md says.           *)
THEOREM OrderIsKept == Spec /\ []Undisturbed => []CanonicalOrder
<1>1. Init /\ Undisturbed => OrderInv
      BY OrderStarts
<1>2. CurationInv /\ OrderInv /\ Undisturbed /\ Undisturbed' /\ [Next]_vars => OrderInv'
      BY NextKeepsOrder
<1>3. OrderInv => CanonicalOrder
      BY OrderIsCanonical DEF OrderInv, CatalogIsTrue
<1> QED BY <1>1, <1>2, <1>3, CurationIsInvariant, PTL DEF Spec

(* So it is in a session with room for one removal at a time, without        *)
(* scans, in which no thread is lost: what the run curation_order checks in  *)
(* a folder of four.                                                         *)
THEOREM PositionsStayCanonical ==
    ASSUME MaxPending = 0, MaxScans = 0, "lost" \notin Faults
    PROVE  Spec => []CanonicalOrder
<1>1. Init => Secluded
      BY DEF Init, Secluded, Undisturbed, Idle, NoWorker
<1>2. CurationInv /\ OrderInv /\ Secluded /\ [Next]_vars => Secluded'
      BY SecludedStays
<1>3. Secluded => Undisturbed
      BY DEF Secluded
<1>4. Init /\ Undisturbed => OrderInv
      BY OrderStarts
<1>5. CurationInv /\ OrderInv /\ Undisturbed /\ Undisturbed' /\ [Next]_vars => OrderInv'
      BY NextKeepsOrder
<1>6. OrderInv => CanonicalOrder
      BY OrderIsCanonical DEF OrderInv, CatalogIsTrue
<1> QED BY <1>1, <1>2, <1>3, <1>4, <1>5, <1>6, CurationIsInvariant, PTL DEF Spec
=============================================================================
