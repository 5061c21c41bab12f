---------------------------- MODULE GalleryProofs ----------------------------
(***************************************************************************)
(* The gallery, for every number of threads and of images, every pattern   *)
(* and every order in which the calls run and fail: its index, the sizes   *)
(* of its pictures and the links of its pages.                             *)
(***************************************************************************)
EXTENDS GalleryStorage, FiniteSetTheorems, NaturalsInduction, WellFoundedInduction, TLAPS

LEMMA LeastOf ==
  ASSUME NEW S \in SUBSET Nat, S # {}
  PROVE  \E m \in S : \A k \in S : m <= k
<1> DEFINE R == OpToRel(<, Nat)
<1>1. \A y, x \in Nat : y < x => <<y, x>> \in R
  BY DEF OpToRel
<1>2. IsWellFoundedOn(R, Nat)
  BY NatLessThanWellFounded
<1> HIDE DEF R
<1>3. PICK m \in S : \A k \in S : ~ (<<k, m>> \in R)
  BY <1>2, WFMin, Zenon
<1>4. \A k \in S : m <= k
  <2> SUFFICES ASSUME NEW k \in S, k < m PROVE FALSE
    OBVIOUS
  <2>1. <<k, m>> \in R
    BY <1>1
  <2> QED
    BY <1>3, <2>1
<1> QED
  BY <1>4

----------------------------------------------------------------------------
(* The list.                                                               *)

LEMMA ConcatAt ==
  ASSUME NEW S, NEW x \in Seq(S), NEW y \in Seq(S)
  PROVE  /\ x \o y \in Seq(S) /\ Len(x \o y) = Len(x) + Len(y)
         /\ Len(x) \in Nat /\ Len(y) \in Nat
         /\ \A j \in 1..Len(x) + Len(y) : (x \o y)[j] = IF j <= Len(x) THEN x[j] ELSE y[j - Len(x)]
  OBVIOUS

Increasing(l) == \A j, k \in DOMAIN l : j < k => l[j] < l[k]

(* A place for a new position exists, and there it keeps the order.        *)
LEMMA PlaceExists ==
  ASSUME NEW l \in Seq(Nat), NEW i \in Nat
  PROVE  \E k \in 1..Len(l) + 1 : (\A j \in 1..k - 1 : l[j] < i) /\ (k <= Len(l) => l[k] >= i)
<1> DEFINE S == {k \in 1..Len(l) : l[k] >= i}
<1>1. Len(l) \in Nat /\ \A j \in 1..Len(l) : l[j] \in Nat
  OBVIOUS
<1>2. CASE S = {}
  <2>1. \A j \in 1..(Len(l) + 1) - 1 : l[j] < i
    BY <1>1, <1>2
  <2> QED
    BY <1>1, <2>1
<1>3. CASE S # {}
  <2>0. S \in SUBSET Nat
    BY <1>1
  <2> HIDE DEF S
  <2>1. PICK k \in S : \A j \in S : k <= j
    BY <1>3, <2>0, LeastOf
  <2> USE DEF S
  <2>2. \A j \in 1..k - 1 : l[j] < i
    BY <1>1, <2>1
  <2> QED
    BY <1>1, <2>1, <2>2
<1> QED
  BY <1>2, <1>3

LEMMA Inserted ==
  ASSUME NEW l \in Seq(Numbers), NEW i \in Numbers, Increasing(l), i \notin ToSet(l), Total \in Nat
  PROVE  /\ InsertSorted(l, i) \in Seq(Numbers)
         /\ Increasing(InsertSorted(l, i))
         /\ ToSet(InsertSorted(l, i)) = ToSet(l) \cup {i}
<1> DEFINE Place(k) == (\A j \in 1..k - 1 : l[j] < i) /\ (k <= Len(l) => l[k] >= i)
           c == CHOOSE k \in 1..Len(l) + 1 : Place(k)
           m == SubSeq(l, 1, c - 1) \o <<i>> \o SubSeq(l, c, Len(l))
<1>1. Numbers \subseteq Nat /\ l \in Seq(Nat) /\ i \in Nat
  BY DEF Numbers
<1>2. \E k \in 1..Len(l) + 1 : Place(k)
  BY <1>1, PlaceExists
<1>3. c \in 1..Len(l) + 1 /\ Place(c)
  BY <1>2
<1>4. InsertSorted(l, i) = m
  BY DEF InsertSorted, InsertAt
<1> HIDE DEF c
<1>5. Len(l) \in Nat /\ \A j \in 1..Len(l) : l[j] \in Numbers /\ l[j] \in Nat
  BY <1>1
<1>6. /\ SubSeq(l, 1, c - 1) \in Seq(Numbers) /\ Len(SubSeq(l, 1, c - 1)) = c - 1
      /\ \A j \in 1..c - 1 : SubSeq(l, 1, c - 1)[j] = l[j]
  BY <1>3, <1>5
<1>7. /\ SubSeq(l, c, Len(l)) \in Seq(Numbers) /\ Len(SubSeq(l, c, Len(l))) = Len(l) - c + 1
      /\ \A j \in 1..Len(l) - c + 1 : SubSeq(l, c, Len(l))[j] = l[c + j - 1]
  BY <1>3, <1>5
<1>8. /\ m \in Seq(Numbers) /\ Len(m) = Len(l) + 1
      /\ \A j \in 1..Len(l) + 1 : m[j] = IF j < c THEN l[j] ELSE IF j = c THEN i ELSE l[j - 1]
  <2> DEFINE a == SubSeq(l, 1, c - 1)
             b == SubSeq(l, c, Len(l))
             ai == a \o <<i>>
  <2>1. <<i>> \in Seq(Numbers) /\ Len(<<i>>) = 1 /\ <<i>>[1] = i
    OBVIOUS
  <2>2. m = ai \o b
    OBVIOUS
  <2>3. /\ a \in Seq(Numbers) /\ Len(a) = c - 1 /\ \A j \in 1..c - 1 : a[j] = l[j]
        /\ b \in Seq(Numbers) /\ Len(b) = Len(l) - c + 1
        /\ \A j \in 1..Len(l) - c + 1 : b[j] = l[c + j - 1]
    BY <1>6, <1>7
  <2> HIDE DEF a, b
  <2>4. ai \in Seq(Numbers) /\ Len(ai) = c /\ \A j \in 1..c : ai[j] = IF j < c THEN a[j] ELSE i
    BY <1>3, <1>5, <2>1, <2>3, ConcatAt
  <2> HIDE DEF ai, m
  <2>5. /\ m \in Seq(Numbers) /\ Len(m) = c + (Len(l) - c + 1)
        /\ \A j \in 1..c + (Len(l) - c + 1) : m[j] = IF j <= c THEN ai[j] ELSE b[j - c]
    <3>1. /\ ai \o b \in Seq(Numbers) /\ Len(ai \o b) = Len(ai) + Len(b)
          /\ \A j \in 1..Len(ai) + Len(b) :
               (ai \o b)[j] = IF j <= Len(ai) THEN ai[j] ELSE b[j - Len(ai)]
      BY <2>3, <2>4, ConcatAt
    <3>2. Len(ai) = c /\ Len(b) = Len(l) - c + 1
      BY <2>3, <2>4
    <3> QED
      BY <2>2, <3>1, <3>2, Zenon
  <2>6. c + (Len(l) - c + 1) = Len(l) + 1 /\ c \in Int
    BY <1>3, <1>5
  <2>7. ASSUME NEW j \in 1..Len(l) + 1
        PROVE  m[j] = IF j < c THEN l[j] ELSE IF j = c THEN i ELSE l[j - 1]
    <3>1. CASE j <= c
      BY <1>3, <1>5, <2>3, <2>4, <2>5, <2>6, <3>1
    <3>2. CASE j > c
      <4>1. j - c \in 1..Len(l) - c + 1 /\ c + (j - c) - 1 = j - 1
        BY <1>3, <1>5, <3>2
      <4>2. b[j - c] = l[j - 1]
        BY <2>3, <4>1
      <4> QED
        BY <1>3, <1>5, <2>5, <2>6, <3>2, <4>2
    <3> QED
      BY <1>3, <1>5, <3>1, <3>2
  <2> QED
    BY <2>5, <2>6, <2>7
<1> HIDE DEF m
<1>9. \A j \in 1..Len(l) : l[j] # i /\ (j < c => l[j] < i) /\ (j >= c => i < l[j])
  <2> SUFFICES ASSUME NEW j \in 1..Len(l)
               PROVE  l[j] # i /\ (j < c => l[j] < i) /\ (j >= c => i < l[j])
    OBVIOUS
  <2>1. l[j] # i
    BY DEF ToSet
  <2>2. j < c => l[j] < i
    BY <1>3, <1>5
  <2>3. ASSUME j >= c PROVE i < l[j]
    <3>1. c <= Len(l) /\ l[c] >= i /\ l[c] # i
      BY <1>3, <1>5, <2>3 DEF ToSet
    <3>2. c < j => l[c] < l[j]
      BY <1>3, <1>5, <3>1 DEF Increasing
    <3> QED
      BY <1>1, <1>3, <1>5, <2>3, <3>1, <3>2
  <2> QED
    BY <2>1, <2>2, <2>3
<1>10. Increasing(m)
  <2> SUFFICES ASSUME NEW j \in 1..Len(l) + 1, NEW k \in 1..Len(l) + 1, j < k
               PROVE  m[j] < m[k]
    BY <1>8 DEF Increasing
  <2>1. \A x, y \in 1..Len(l) : x < y => l[x] < l[y]
    BY DEF Increasing
  <2>2. CASE k < c
    BY <1>3, <1>5, <1>8, <2>1, <2>2
  <2>3. CASE k = c
    BY <1>3, <1>5, <1>8, <1>9, <2>3
  <2>4. CASE k > c /\ j < c
    <3>1. k - 1 \in 1..Len(l) /\ j \in 1..Len(l) /\ j < k - 1
      BY <1>3, <1>5, <2>4
    <3>2. m[j] = l[j] /\ m[k] = l[k - 1]
      BY <1>3, <1>5, <1>8, <2>4
    <3> QED
      BY <2>1, <3>1, <3>2
  <2>5. CASE k > c /\ j = c
    <3>1. k - 1 \in 1..Len(l) /\ k - 1 >= c
      BY <1>3, <1>5, <2>5
    <3>2. m[j] = i /\ m[k] = l[k - 1]
      BY <1>3, <1>5, <1>8, <2>5
    <3> QED
      BY <1>9, <3>1, <3>2
  <2>6. CASE k > c /\ j > c
    <3>1. k - 1 \in 1..Len(l) /\ j - 1 \in 1..Len(l) /\ j - 1 < k - 1
      BY <1>3, <1>5, <2>6
    <3>2. m[j] = l[j - 1] /\ m[k] = l[k - 1]
      BY <1>3, <1>5, <1>8, <2>6
    <3> QED
      BY <2>1, <3>1, <3>2
  <2> QED
    BY <1>3, <1>5, <2>2, <2>3, <2>4, <2>5, <2>6
<1>11. ToSet(m) = ToSet(l) \cup {i}
  <2>1. ASSUME NEW j \in 1..Len(l) + 1 PROVE m[j] \in ToSet(l) \cup {i}
    <3>1. CASE j < c
      BY <1>3, <1>5, <1>8, <3>1 DEF ToSet
    <3>2. CASE j = c
      BY <1>3, <1>5, <1>8, <3>2
    <3>3. CASE j > c
      <4>1. j - 1 \in DOMAIN l /\ m[j] = l[j - 1]
        BY <1>3, <1>5, <1>8, <3>3
      <4> QED
        BY <4>1 DEF ToSet
    <3> QED
      BY <1>3, <1>5, <3>1, <3>2, <3>3
  <2>2. ASSUME NEW j \in 1..Len(l) PROVE \E k \in 1..Len(l) + 1 : m[k] = l[j]
    <3>1. CASE j < c
      BY <1>3, <1>5, <1>8, <3>1
    <3>2. CASE j >= c
      <4>1. j + 1 \in 1..Len(l) + 1 /\ m[j + 1] = l[(j + 1) - 1]
        BY <1>3, <1>5, <1>8, <3>2
      <4> QED
        BY <4>1
    <3> QED
      BY <1>3, <1>5, <3>1, <3>2
  <2>3. m[c] = i /\ c \in 1..Len(l) + 1
    BY <1>3, <1>5, <1>8
  <2>4. DOMAIN m = 1..Len(l) + 1 /\ DOMAIN l = 1..Len(l)
    BY <1>8
  <2> QED
    BY <2>1, <2>2, <2>3, <2>4 DEF ToSet
<1> QED
  BY <1>4, <1>8, <1>10, <1>11

----------------------------------------------------------------------------
(* The inductive invariant.                                                *)

Places == {"idle", "lock", "page", "export", "shrink", "thumb", "restore"}
Past == {"export", "shrink", "thumb", "restore"}  \* the page is written

\* An image is in the list from the page of its call on, unless that failed.
Entered(i) == result[i] = 0 \/ \E t \in Threads : num[t] = i /\ pc[t] \in Past

(* What is of which type; the page is written under the mutex, and a call   *)
(* has an image of its own that no other call has had.                     *)
Calls ==
  /\ GTypeOK
  /\ cached \in Directories \cup {None} /\ index \in IndexPage \cup {None}
  /\ \A t \in Threads : num[t] # None => result[num[t]] = None
  /\ \A t, u \in Threads : num[t] = num[u] /\ num[t] # None => t = u

(* Until it is emptied, the list is in order and has what was entered.      *)
Listed == index = None => Increasing(list) /\ ToSet(list) = {i \in Numbers : Entered(i)}

(* The index is written when no call is left, from the list.                *)
Indexed == index # None => (\A i \in Numbers : result[i] # None) /\ IndexInOrder

(* The size is the small one between shrink and restore.                    *)
Sized ==
  /\ \A t \in Threads : size[t] = IF pc[t] \in {"thumb", "restore"} THEN ThumbSize ELSE FullSize
  /\ SizesKeptApart

(* Each page is that of a number, in its directory.                         *)
Paged ==
  /\ \A p \in pages : \E i \in Numbers : p = <<DirOf(pattern, i), i>>
  /\ \A i \in Numbers : Entered(i) => <<DirOf(pattern, i), i>> \in pages

LEMMA GalleryStarts == GalleryConstants /\ GInit => Calls /\ Listed /\ Indexed /\ Sized /\ Paged
<1> SUFFICES ASSUME GalleryConstants, GInit PROVE Calls /\ Listed /\ Indexed /\ Sized /\ Paged
  OBVIOUS
<1> USE DEF GalleryConstants, GInit
<1>1. None # 0 /\ None # 1 /\ None \notin Numbers /\ None \notin Threads
  OBVIOUS
<1>2. GTypeOK
  <2>1. list \in Seq(Numbers)
    OBVIOUS
  <2>2. \A n \in DOMAIN pictures : FALSE
    OBVIOUS
  <2> QED
    BY <1>1, <2>1, <2>2 DEF GTypeOK
<1>3. Calls
  BY <1>2 DEF Calls
<1>4. \A i \in Numbers : ~Entered(i)
  BY <1>1 DEF Entered
<1>5. Listed
  <2>1. ToSet(list) = {} /\ Increasing(list)
    BY DEF ToSet, Increasing
  <2> QED
    BY <1>4, <2>1 DEF Listed
<1>6. Sized
  <2>1. \A n \in DOMAIN pictures : FALSE
    OBVIOUS
  <2> QED
    BY <2>1 DEF Sized, SizesKeptApart
<1> QED
  BY <1>3, <1>4, <1>5, <1>6 DEF Indexed, Paged

(* Completing the pattern names images otherwise, not their directory.      *)
LEMMA CompletedKeeps ==
  ASSUME NEW p \in Pattern
  PROVE  Completed(p) \in Pattern /\ Completed(p).own = p.own
<1> DEFINE q == IF p.exists THEN [p EXCEPT !.exists = FALSE, !.file = TRUE, !.cut = FALSE] ELSE p
<1>1. q \in Pattern /\ q.own = p.own
  BY DEF Pattern
<1> HIDE DEF q
<1>2. [q EXCEPT !.sequence = TRUE] \in Pattern /\ [q EXCEPT !.sequence = TRUE].own = q.own
  BY <1>1 DEF Pattern
<1>3. Completed(p) = IF Total > 1 /\ ~(q.file \/ q.sequence \/ q.own \/ q.other)
                     THEN [q EXCEPT !.sequence = TRUE] ELSE q
  BY DEF Completed, q
<1> QED
  BY <1>1, <1>2, <1>3

(* The steps of the threads and what each does to the calls.                *)
LEMMA CallsStep ==
  ASSUME GalleryConstants, Calls, [GNext]_gvars
  PROVE  Calls'
<1> USE DEF GalleryConstants
<1>0. /\ None # 0 /\ None # 1 /\ None \notin Numbers /\ None \notin Threads
      /\ pattern \in Pattern /\ owner \in Threads \cup {None}
      /\ pc \in [Threads -> Places] /\ num \in [Threads -> Numbers \cup {None}]
      /\ size \in [Threads -> {FullSize, ThumbSize}] /\ result \in [Numbers -> {None, 0, 1}]
      /\ list \in Seq(Numbers) /\ crashed \in BOOLEAN
      /\ \A n \in DOMAIN pictures : pictures[n] \in [image : Numbers, size : {FullSize, ThumbSize}]
      /\ \A t \in Threads : (pc[t] = "page" <=> owner = t) /\ (pc[t] = "idle" <=> num[t] = None)
      /\ cached \in Directories \cup {None} /\ index \in IndexPage \cup {None}
      /\ \A t \in Threads : num[t] # None => result[num[t]] = None
      /\ \A t, u \in Threads : num[t] = num[u] /\ num[t] # None => t = u
  BY DEF Calls, GTypeOK, Places
<1>1. Completed(pattern) \in Pattern
  BY <1>0, CompletedKeeps
<1>2. ASSUME NEW t \in Threads, num[t] # None PROVE DirOf(Completed(pattern), num[t]) \in Directories
  BY <1>0, <1>2 DEF DirOf, Directories
<1>3. ASSUME NEW t \in Threads, num[t] # None, NEW code \in {0, 1}, Return(t, code)
      PROVE  /\ pc' \in [Threads -> Places] /\ num' \in [Threads -> Numbers \cup {None}]
             /\ result' \in [Numbers -> {None, 0, 1}]
             /\ \A u \in Threads : num'[u] # None => result'[num'[u]] = None
             /\ \A u, v \in Threads : num'[u] = num'[v] /\ num'[u] # None => u = v
             /\ \A u \in Threads : pc'[u] = "idle" <=> num'[u] = None
             /\ \A u \in Threads : pc'[u] = IF u = t THEN "idle" ELSE pc[u]
  BY <1>0, <1>3 DEF Return, Goto, Places
<1>4. ASSUME NEW t \in Threads, num[t] # None, NEW name, Put(name, num[t], size[t])
      PROVE  \A n \in DOMAIN pictures' : pictures'[n] \in [image : Numbers, size : {FullSize, ThumbSize}]
  <2>1. [image |-> num[t], size |-> size[t]] \in [image : Numbers, size : {FullSize, ThumbSize}]
    BY <1>0, <1>4
  <2> QED
    BY <1>0, <1>4, <2>1 DEF Put
<1>5. ASSUME NEW t \in Threads, Call(t) PROVE Calls'
  BY <1>0, <1>5 DEF Call, At, Goto, Calls, GTypeOK, Places
<1>6. ASSUME NEW t \in Threads, Lock(t) PROVE Calls'
  BY <1>0, <1>6 DEF Lock, At, Goto, Calls, GTypeOK, Places
<1>7. ASSUME NEW t \in Threads, MkdirFails(t) PROVE Calls'
  <2>1. num[t] # None /\ pc[t] = "page" /\ owner = t /\ owner' = None
    BY <1>0, <1>7 DEF MkdirFails, At
  <2> QED
    BY <1>0, <1>1, <1>3, <1>7, <2>1 DEF MkdirFails, Calls, GTypeOK, Places
<1>8. ASSUME NEW t \in Threads, WritePage(t) PROVE Calls'
  <2>1. num[t] # None /\ num[t] \in Numbers /\ pc[t] = "page" /\ owner = t
    BY <1>0, <1>8 DEF WritePage, At
  <2>2. list' \in Seq(Numbers)
    <3>1. \E k \in 1..Len(list) + 1 : (\A j \in 1..k - 1 : list[j] < num[t]) /\ (k <= Len(list) => list[k] >= num[t])
      <4>1. list \in Seq(Nat) /\ num[t] \in Nat
        BY <1>0, <2>1 DEF Numbers
      <4> QED
        BY <4>1, PlaceExists
    <3>2. PICK k \in 1..Len(list) + 1 : InsertSorted(list, num[t]) = InsertAt(list, k, num[t])
      BY <3>1 DEF InsertSorted
    <3>3. /\ SubSeq(list, 1, k - 1) \in Seq(Numbers) /\ SubSeq(list, k, Len(list)) \in Seq(Numbers)
          /\ <<num[t]>> \in Seq(Numbers)
      BY <1>0, <2>1
    <3>4. InsertAt(list, k, num[t]) \in Seq(Numbers)
      BY <3>3 DEF InsertAt
    <3> QED
      BY <1>8, <3>2, <3>4 DEF WritePage
  <2> QED
    BY <1>0, <1>1, <1>2, <1>8, <2>1, <2>2 DEF WritePage, Goto, Calls, GTypeOK, Places
<1>9. ASSUME NEW t \in Threads, PageNotOpened(t) PROVE Calls'
  <2>1. num[t] # None
    BY <1>0, <1>9 DEF PageNotOpened, At
  <2> QED
    BY <1>0, <1>1, <1>2, <1>9, <2>1 DEF PageNotOpened, Calls, GTypeOK, Places
<1>10. ASSUME NEW t \in Threads, ExportPicture(t) \/ ExportThumb(t) PROVE Calls'
  <2>1. num[t] # None
    BY <1>0, <1>10 DEF ExportPicture, ExportThumb, At
  <2>2. \A n \in DOMAIN pictures' : pictures'[n] \in [image : Numbers, size : {FullSize, ThumbSize}]
    BY <1>0, <1>4, <1>10, <2>1 DEF ExportPicture, ExportThumb, Export
  <2>3. CASE ExportPicture(t)
    BY <1>0, <2>2, <2>3 DEF ExportPicture, At, Goto, Calls, GTypeOK, Places
  <2>4. CASE ExportThumb(t)
    BY <1>0, <2>2, <2>4 DEF ExportThumb, At, Goto, Calls, GTypeOK, Places
  <2> QED
    BY <1>10, <2>3, <2>4
<1>11. ASSUME NEW t \in Threads, Shrink(t) PROVE Calls'
  BY <1>0, <1>11 DEF Shrink, At, Goto, Calls, GTypeOK, Places
<1>12. ASSUME NEW t \in Threads, Restore(t) PROVE Calls'
  <2>1. num[t] # None /\ pc[t] = "restore"
    BY <1>0, <1>12 DEF Restore, At
  <2>2. Return(t, 0) /\ size' \in [Threads -> {FullSize, ThumbSize}]
    BY <1>0, <1>12 DEF Restore
  <2> QED
    BY <1>0, <1>3, <1>12, <2>1, <2>2 DEF Restore, Calls, GTypeOK, Places
<1>13. CASE FinalizeStore
  <2>1. index' \in IndexPage /\ list' \in Seq(Numbers)
    <3>1. [dir |-> cached, entries |-> list] \in IndexPage /\ [dir |-> None, entries |-> << >>] \in IndexPage
      BY <1>0 DEF IndexPage
    <3>2. << >> \in Seq(Numbers)
      OBVIOUS
    <3> QED
      BY <1>0, <1>13, <3>1, <3>2 DEF FinalizeStore
  <2> QED
    BY <1>0, <1>13, <2>1 DEF FinalizeStore, Calls, GTypeOK, Places
<1>14. CASE UNCHANGED gvars
  BY <1>14 DEF gvars, Calls, GTypeOK
<1> QED
  BY <1>5, <1>6, <1>7, <1>8, <1>9, <1>10, <1>11, <1>12, <1>13, <1>14 DEF GNext, Store, JobOver

(* What is entered: by the step that writes the page, and for good.         *)
LEMMA EnteredStep ==
  ASSUME GalleryConstants, Calls, [GNext]_gvars, NEW i \in Numbers
  PROVE  /\ \A t \in Threads : WritePage(t) => ((Entered(i))' <=> Entered(i) \/ i = num[t])
         /\ (\A t \in Threads : ~WritePage(t)) => ((Entered(i))' <=> Entered(i))
<1> USE DEF GalleryConstants
<1>0. /\ None # 0 /\ None # 1 /\ None \notin Numbers
      /\ pc \in [Threads -> Places] /\ num \in [Threads -> Numbers \cup {None}]
      /\ result \in [Numbers -> {None, 0, 1}]
      /\ \A t \in Threads : pc[t] = "idle" <=> num[t] = None
      /\ \A t \in Threads : num[t] # None => result[num[t]] = None
      /\ \A t, u \in Threads : num[t] = num[u] /\ num[t] # None => t = u
  BY DEF Calls, GTypeOK, Places
<1>1. ASSUME NEW t \in Threads, WritePage(t)
      PROVE  (Entered(i))' <=> Entered(i) \/ i = num[t]
  BY <1>0, <1>1 DEF WritePage, At, Goto, Entered, Past
<1>2. ASSUME NEW t \in Threads, Call(t) PROVE (Entered(i))' <=> Entered(i)
  BY <1>0, <1>2 DEF Call, At, Goto, Entered, Past
<1>3. ASSUME NEW t \in Threads, Lock(t) PROVE (Entered(i))' <=> Entered(i)
  BY <1>0, <1>3 DEF Lock, At, Goto, Entered, Past
<1>4. ASSUME NEW t \in Threads, MkdirFails(t) PROVE (Entered(i))' <=> Entered(i)
  BY <1>0, <1>4 DEF MkdirFails, At, Return, Goto, Entered, Past
<1>5. ASSUME NEW t \in Threads, PageNotOpened(t) PROVE (Entered(i))' <=> Entered(i)
  BY <1>0, <1>5 DEF PageNotOpened, Entered
<1>6. ASSUME NEW t \in Threads, ExportPicture(t) PROVE (Entered(i))' <=> Entered(i)
  BY <1>0, <1>6 DEF ExportPicture, At, Goto, Entered, Past
<1>7. ASSUME NEW t \in Threads, ExportThumb(t) PROVE (Entered(i))' <=> Entered(i)
  BY <1>0, <1>7 DEF ExportThumb, At, Goto, Entered, Past
<1>8. ASSUME NEW t \in Threads, Shrink(t) PROVE (Entered(i))' <=> Entered(i)
  BY <1>0, <1>8 DEF Shrink, At, Goto, Entered, Past
<1>9. ASSUME NEW t \in Threads, Restore(t) PROVE (Entered(i))' <=> Entered(i)
  <2>1. /\ num[t] \in Numbers /\ pc[t] = "restore" /\ result[num[t]] = None
        /\ result' = [result EXCEPT ![num[t]] = 0]
        /\ pc' = [pc EXCEPT ![t] = "idle"] /\ num' = [num EXCEPT ![t] = None]
    BY <1>0, <1>9 DEF Restore, At, Return, Goto
  <2>2. CASE i = num[t]
    BY <1>0, <2>1, <2>2 DEF Entered, Past
  <2>3. CASE i # num[t]
    BY <1>0, <2>1, <2>3 DEF Entered, Past
  <2> QED
    BY <2>2, <2>3
<1>10. ASSUME FinalizeStore \/ UNCHANGED gvars PROVE (Entered(i))' <=> Entered(i)
  <2>1. UNCHANGED <<pc, num, result>>
    BY <1>10 DEF FinalizeStore, gvars
  <2> QED
    BY <2>1 DEF Entered
<1>11. (\A t \in Threads : ~WritePage(t)) => ((Entered(i))' <=> Entered(i))
  BY <1>2, <1>3, <1>4, <1>5, <1>6, <1>7, <1>8, <1>9, <1>10 DEF GNext, Store, JobOver
<1> QED
  BY <1>1, <1>11

(* The list and the index.                                                  *)
LEMMA ListedStep ==
  ASSUME GalleryConstants, Calls, Listed, Indexed, [GNext]_gvars
  PROVE  Listed' /\ Indexed'
<1> USE DEF GalleryConstants
<1>0. /\ None \notin IndexPage /\ None # 0 /\ None # 1 /\ None \notin Numbers /\ Total \in Nat
      /\ pc \in [Threads -> Places] /\ num \in [Threads -> Numbers \cup {None}]
      /\ result \in [Numbers -> {None, 0, 1}] /\ list \in Seq(Numbers)
      /\ \A t \in Threads : pc[t] = "idle" <=> num[t] = None
      /\ \A t \in Threads : num[t] # None => result[num[t]] = None
      /\ \A t, u \in Threads : num[t] = num[u] /\ num[t] # None => t = u
      /\ cached \in Directories \cup {None}
  BY DEF Calls, GTypeOK, Places
<1>1. index # None => \A t \in Threads : num[t] = None /\ pc[t] = "idle"
  BY <1>0 DEF Indexed
<1>2. ASSUME NEW t \in Threads, WritePage(t) PROVE Listed' /\ Indexed'
  <2>1. /\ pc[t] = "page" /\ num[t] \in Numbers /\ num[t] # None /\ index = None /\ index' = None
        /\ list' = InsertSorted(list, num[t]) /\ result[num[t]] = None
    BY <1>0, <1>1, <1>2 DEF WritePage, At
  <2>2. ~Entered(num[t])
    BY <1>0, <2>1 DEF Entered, Past
  <2>3. Increasing(list) /\ ToSet(list) = {i \in Numbers : Entered(i)} /\ num[t] \notin ToSet(list)
    BY <2>1, <2>2 DEF Listed
  <2>4. Increasing(list') /\ ToSet(list') = ToSet(list) \cup {num[t]}
    BY <1>0, <2>1, <2>3, Inserted
  <2>5. \A i \in Numbers : (Entered(i))' <=> Entered(i) \/ i = num[t]
    BY <1>2, EnteredStep
  <2>6. ToSet(list') = {i \in Numbers : (Entered(i))'}
    BY <2>1, <2>3, <2>4, <2>5
  <2>7. Listed'
    BY <2>4, <2>6 DEF Listed
  <2>8. Indexed'
    BY <2>1 DEF Indexed
  <2> QED
    BY <2>7, <2>8
<1>3. CASE FinalizeStore
  <2>1. \A i \in Numbers : Entered(i) <=> result[i] = 0
    BY <1>0, <1>3 DEF FinalizeStore, Entered
  <2>2. ToSet(list) = {i \in Numbers : result[i] = 0} /\ Increasing(list)
    BY <1>3, <2>1 DEF FinalizeStore, Listed
  <2>3. UNCHANGED result /\ \A i \in Numbers : result[i] # None
    BY <1>3 DEF FinalizeStore
  <2>4. CASE index' = [dir |-> cached, entries |-> list]
    <3>1. index' \in IndexPage /\ index'.entries = list
      BY <1>0, <2>4 DEF IndexPage
    <3>2. IndexInOrder'
      BY <2>2, <2>3, <3>1 DEF IndexInOrder, Increasing
    <3> QED
      BY <1>0, <2>3, <3>1, <3>2 DEF Listed, Indexed
  <2>5. CASE index' = [dir |-> None, entries |-> << >>]
    <3>1. index' \in IndexPage
      <4>1. << >> \in Seq(Numbers)
        OBVIOUS
      <4> QED
        BY <2>5, <4>1 DEF IndexPage
    <3>2. IndexInOrder'
      BY <2>5 DEF IndexInOrder
    <3> QED
      BY <1>0, <2>3, <3>1, <3>2 DEF Listed, Indexed
  <2> QED
    BY <1>3, <2>4, <2>5 DEF FinalizeStore
<1>4. CASE /\ \A t \in Threads : ~WritePage(t)
           /\ ~FinalizeStore
  <2>1. UNCHANGED <<list, index>>
    BY <1>4 DEF GNext, Store, Call, Lock, MkdirFails, PageNotOpened, ExportPicture, Shrink, ExportThumb,
                Restore, JobOver, gvars
  <2>2. \A i \in Numbers : (Entered(i))' <=> Entered(i)
    BY <1>4, EnteredStep
  <2>3. {i \in Numbers : (Entered(i))'} = {i \in Numbers : Entered(i)}
    BY <2>2
  <2>4. Listed'
    BY <2>1, <2>3 DEF Listed
  <2>5. index # None => UNCHANGED result
    <3>1. ASSUME index # None, NEW t \in Threads, Call(t) PROVE FALSE
      BY <1>0, <3>1 DEF Call, Indexed
    <3>2. ASSUME index # None, NEW t \in Threads, Store(t) PROVE FALSE
      BY <1>1, <3>2 DEF Store, Lock, MkdirFails, WritePage, PageNotOpened, ExportPicture, Shrink,
                        ExportThumb, Restore, At
    <3> QED
      BY <1>4, <3>1, <3>2 DEF GNext, JobOver, gvars
  <2>6. Indexed'
    BY <2>1, <2>5 DEF Indexed, IndexInOrder
  <2> QED
    BY <2>4, <2>6
<1> QED
  BY <1>2, <1>3, <1>4

(* The sizes.                                                               *)
LEMMA SizedStep ==
  ASSUME GalleryConstants, Calls, Sized, [GNext]_gvars
  PROVE  Sized'
<1> USE DEF GalleryConstants
<1>0. /\ pc \in [Threads -> Places] /\ size \in [Threads -> {FullSize, ThumbSize}]
      /\ \A t \in Threads : size[t] = IF pc[t] \in {"thumb", "restore"} THEN ThumbSize ELSE FullSize
      /\ \A n \in DOMAIN pictures : pictures[n].size = IF n.thumb THEN ThumbSize ELSE FullSize
  BY DEF Calls, GTypeOK, Sized, SizesKeptApart, Places
<1> DEFINE Resized == \A t \in Threads :
             size'[t] = IF pc'[t] \in {"thumb", "restore"} THEN ThumbSize ELSE FullSize
<1>1. Resized
  <2>1. ASSUME NEW t \in Threads, Call(t) \/ Lock(t) \/ MkdirFails(t) \/ WritePage(t) PROVE Resized
    BY <1>0, <2>1 DEF Call, Lock, MkdirFails, WritePage, Return, At, Goto
  <2>2. ASSUME NEW t \in Threads, PageNotOpened(t) PROVE Resized
    BY <1>0, <2>2 DEF PageNotOpened
  <2>3. ASSUME NEW t \in Threads, ExportPicture(t) \/ ExportThumb(t) PROVE Resized
    BY <1>0, <2>3 DEF ExportPicture, ExportThumb, At, Goto
  <2>4. ASSUME NEW t \in Threads, Shrink(t) \/ Restore(t) PROVE Resized
    BY <1>0, <2>4 DEF Shrink, Restore, Return, At, Goto
  <2>5. CASE FinalizeStore \/ UNCHANGED gvars
    BY <1>0, <2>5 DEF FinalizeStore, gvars
  <2> QED
    BY <2>1, <2>2, <2>3, <2>4, <2>5 DEF GNext, Store, JobOver
<1>2. SizesKeptApart'
  <2>1. ASSUME NEW t \in Threads, NEW thumb \in BOOLEAN,
               size[t] = IF thumb THEN ThumbSize ELSE FullSize, Export(t, thumb)
        PROVE  SizesKeptApart'
    <3> DEFINE name == Picture(pattern, num[t], thumb)
    <3>1. name.thumb = thumb
      BY DEF Picture
    <3> HIDE DEF name
    <3>2. CASE Put(name, num[t], size[t])
      BY <1>0, <2>1, <3>1, <3>2 DEF Put, SizesKeptApart
    <3>3. CASE UNCHANGED pictures
      BY <1>0, <3>3 DEF SizesKeptApart
    <3> QED
      BY <2>1, <3>2, <3>3 DEF Export, name
  <2>2. ASSUME NEW t \in Threads, ExportPicture(t) PROVE SizesKeptApart'
    BY <1>0, <2>1, <2>2 DEF ExportPicture, At
  <2>3. ASSUME NEW t \in Threads, ExportThumb(t) PROVE SizesKeptApart'
    BY <1>0, <2>1, <2>3 DEF ExportThumb, At
  <2>4. CASE UNCHANGED pictures
    BY <1>0, <2>4 DEF SizesKeptApart
  <2> QED
    BY <2>2, <2>3, <2>4 DEF GNext, Store, Call, Lock, MkdirFails, WritePage, PageNotOpened, Shrink, Restore,
                            FinalizeStore, JobOver, gvars
<1> QED
  BY <1>1, <1>2 DEF Sized

(* The pages.                                                               *)
LEMMA PagedStep ==
  ASSUME GalleryConstants, Calls, Paged, [GNext]_gvars
  PROVE  Paged'
<1>1. pattern \in Pattern
  BY DEF Calls, GTypeOK
<1>2. pattern' = pattern \/ pattern' = Completed(pattern)
  BY DEF GNext, Store, Call, Lock, MkdirFails, WritePage, PageNotOpened, ExportPicture, Shrink, ExportThumb,
         Restore, FinalizeStore, JobOver, gvars
<1>3. \A i : DirOf(pattern', i) = DirOf(pattern, i)
  BY <1>1, <1>2, CompletedKeeps DEF DirOf
<1>4. ASSUME NEW t \in Threads, WritePage(t) PROVE Paged'
  <2>1. num[t] \in Numbers
    BY <1>4 DEF WritePage, At, Calls, GTypeOK
  <2>2. pages' = pages \cup {<<DirOf(pattern, num[t]), num[t]>>}
    BY <1>3, <1>4 DEF WritePage
  <2>3. \A i \in Numbers : (Entered(i))' <=> Entered(i) \/ i = num[t]
    BY <1>4, EnteredStep
  <2>4. \A p \in pages' : \E i \in Numbers : p = <<DirOf(pattern', i), i>>
    BY <1>3, <2>1, <2>2 DEF Paged
  <2>5. \A i \in Numbers : (Entered(i))' => <<DirOf(pattern', i), i>> \in pages'
    BY <1>3, <2>2, <2>3 DEF Paged
  <2> QED
    BY <2>4, <2>5 DEF Paged
<1>5. CASE \A t \in Threads : ~WritePage(t)
  <2>1. UNCHANGED pages
    BY <1>5 DEF GNext, Store, Call, Lock, MkdirFails, PageNotOpened, ExportPicture, Shrink, ExportThumb,
                Restore, FinalizeStore, JobOver, gvars
  <2>2. \A i \in Numbers : (Entered(i))' <=> Entered(i)
    BY <1>5, EnteredStep
  <2>3. \A p \in pages' : \E i \in Numbers : p = <<DirOf(pattern', i), i>>
    BY <1>3, <2>1 DEF Paged
  <2>4. \A i \in Numbers : (Entered(i))' => <<DirOf(pattern', i), i>> \in pages'
    BY <1>3, <2>1, <2>2 DEF Paged
  <2> QED
    BY <2>3, <2>4 DEF Paged
<1> QED
  BY <1>4, <1>5

(* "next" of a page is a page of the job, whose "prev" leads back.          *)
LEMMA RingOfNumbers ==
  ASSUME Total \in Nat \ {0}, NEW i \in Numbers
  PROVE  NextPage(i) \in Numbers /\ PrevPage(NextPage(i)) = i
<1>1. i \in 1..Total
  BY DEF Numbers
<1>2. i % Total = IF i = Total THEN 0 ELSE i
  BY <1>1, SMTT(30)
<1> QED
  BY <1>1, <1>2 DEF Numbers, NextPage, PrevPage

----------------------------------------------------------------------------
(* The inductive invariant of a gallery.                                    *)
GalleryInv == Calls /\ Listed /\ Indexed /\ Sized /\ Paged

LEMMA GalleryAlways == ASSUME GalleryConstants PROVE GSpec => []GalleryInv
<1>1. GInit => GalleryInv
  BY GalleryStarts DEF GalleryInv
<1>2. GalleryInv /\ [GNext]_gvars => GalleryInv'
  BY CallsStep, ListedStep, SizedStep, PagedStep DEF GalleryInv
<1> QED
  BY <1>1, <1>2, PTL DEF GSpec

(* What a gallery has is of its type, its mutex is held by the thread that  *)
(* writes a page and by no other, and its index, sizes and pages are as     *)
(* they should be.                                                          *)
THEOREM GalleryCorrect ==
  ASSUME GalleryConstants
  PROVE  GSpec => [](GTypeOK /\ IndexInOrder /\ SizesKeptApart /\ PagesFormRing)
<1>1. GalleryInv => PagesFormRing
  <2> SUFFICES ASSUME GalleryInv, index # None, \A i \in Numbers : result[i] = 0,
                      ~pattern.own, NEW p \in pages
               PROVE  <<p[1], NextPage(p[2])>> \in pages /\ PrevPage(NextPage(p[2])) = p[2]
    BY DEF PagesFormRing
  <2>1. PICK i \in Numbers : p = <<DirOf(pattern, i), i>>
    BY DEF GalleryInv, Paged
  <2>2. NextPage(i) \in Numbers /\ PrevPage(NextPage(i)) = i
    BY RingOfNumbers DEF GalleryConstants
  <2>3. <<DirOf(pattern, NextPage(i)), NextPage(i)>> \in pages
    BY <2>2 DEF GalleryInv, Paged, Entered
  <2>4. DirOf(pattern, NextPage(i)) = DirOf(pattern, i)
    BY DEF DirOf
  <2> QED
    BY <2>1, <2>2, <2>3, <2>4
<1>2. GalleryInv => GTypeOK /\ IndexInOrder /\ SizesKeptApart
  BY DEF GalleryInv, Calls, Indexed, Sized, IndexInOrder
<1> QED
  BY <1>1, <1>2, GalleryAlways, PTL

----------------------------------------------------------------------------
(* The job as StorageJobs has it.                                           *)

LEMMA SameCounts == \A S : Promise!Cardinality(S) = Cardinality(S)
BY Zenon DEF Promise!Cardinality, Promise!IsFiniteSet, Cardinality, IsFiniteSet

(* A list in order is one that StorageJobs may present, and has no gap.     *)
LEMMA IndexFits ==
  ASSUME NEW l \in Seq(Numbers), Total \in Nat, Increasing(l)
  PROVE  l \in Promise!Lists(ToSet(l)) /\ Len(l) = Promise!Cardinality(ToSet(l))
<1>1. Len(l) \in Nat /\ DOMAIN l = 1..Len(l) /\ \A k \in 1..Len(l) : l[k] \in Nat
  BY DEF Numbers
<1>2. l \in [1..Len(l) -> ToSet(l)]
  <2>1. \A k \in 1..Len(l) : l[k] \in ToSet(l)
    BY <1>1 DEF ToSet
  <2> QED
    BY <2>1
<1>3. l \in Surjection(1..Len(l), ToSet(l))
  BY <1>1, <1>2 DEF Surjection, ToSet
<1>4. l \in Injection(1..Len(l), ToSet(l))
  <2> SUFFICES ASSUME NEW a \in 1..Len(l), NEW b \in 1..Len(l), l[a] = l[b] PROVE a = b
    BY <1>2 DEF Injection, IsInjective
  <2>1. ~(a < b) /\ ~(b < a)
    BY <1>1 DEF Increasing
  <2> QED
    BY <1>1, <2>1
<1>5. IsFiniteSet(1..Len(l)) /\ Cardinality(1..Len(l)) = Len(l)
  BY <1>1, FS_Interval
<1>6. Cardinality(ToSet(l)) = Len(l)
  BY <1>3, <1>4, <1>5, FS_Surjection
<1>7. Len(l) \in 0..Promise!Cardinality(ToSet(l))
  BY <1>1, <1>6, SameCounts
<1>8. \A a, b \in DOMAIN l : a < b => Earlier(l[a], l[b])
  BY DEF Earlier, Increasing
<1> QED
  BY <1>2, <1>6, <1>7, <1>8, SameCounts DEF Promise!Lists

(* An answer for an image of which there was none; the job is not over.     *)
LEMMA ReturnAnswers ==
  ASSUME GalleryConstants, GalleryInv, NEW t \in Threads, pc[t] # "idle",
         NEW code \in {0, 1}, Return(t, code), UNCHANGED index
  PROVE  \E i \in Numbers : Promise!Answer(i)
<1> DEFINE shown == [j \in {1} |-> IF index = None THEN << >> ELSE index.entries]
<1>1. PICK i \in Numbers : i = num[t]
  BY DEF GalleryInv, Calls, GTypeOK
<1>2. result[i] = None /\ result \in [Numbers -> {None, 0, 1}] /\ None # 0 /\ None # 1
  BY <1>1 DEF GalleryInv, Calls, GTypeOK, GalleryConstants
<1>3. result' = [result EXCEPT ![i] = code]
  BY <1>1 DEF Return
<1>4. index = None
  BY <1>2 DEF GalleryInv, Indexed
<1>5. Answers[i] = "none"
  BY <1>2 DEF Answers
<1>6. Answers'[i] \in {"taken", "refused"}
  BY <1>2, <1>3 DEF Answers
<1>7. Answers' = [Answers EXCEPT ![i] = Answers'[i]]
  <2>1. \A k \in Numbers : k # i => Answers'[k] = Answers[k]
    BY <1>2, <1>3 DEF Answers
  <2> QED
    BY <2>1 DEF Answers
<1>8. TheJob(i) \notin IF index = None THEN {} ELSE {1}
  BY <1>4
<1>9. UNCHANGED <<IF index = None THEN {} ELSE {1}, shown>>
  OBVIOUS
<1> QED
  BY <1>5, <1>6, <1>7, <1>8, <1>9 DEF Promise!Answer

LEMMA FinalizePresents ==
  ASSUME GalleryConstants, GalleryInv, FinalizeStore
  PROVE  Promise!Present(1)
<1> DEFINE shown == [j \in {1} |-> IF index = None THEN << >> ELSE index.entries]
<1>1. /\ index = None /\ \A i \in Numbers : result[i] # None
      /\ \/ index' = [dir |-> cached, entries |-> list]
         \/ index' = [dir |-> None, entries |-> << >>]
      /\ UNCHANGED result
  BY DEF FinalizeStore
<1>2. /\ list \in Seq(Numbers) /\ Increasing(list) /\ ToSet(list) = {i \in Numbers : Entered(i)}
      /\ Total \in Nat /\ None \notin IndexPage /\ result \in [Numbers -> {None, 0, 1}]
      /\ cached \in Directories \cup {None}
  BY <1>1 DEF GalleryInv, Calls, Listed, GTypeOK, GalleryConstants
<1>3. index' # None
  <2>1. << >> \in Seq(Numbers)
    OBVIOUS
  <2>2. [dir |-> cached, entries |-> list] \in IndexPage /\ [dir |-> None, entries |-> << >>] \in IndexPage
    BY <1>2, <2>1, Zenon DEF IndexPage
  <2> QED
    BY <1>1, <1>2, <2>2, Zenon
<1>4. ToSet(list) = Promise!Taken(1)
  <2>1. \A i \in Numbers : Entered(i) <=> result[i] = 0
    <3>1. \A t \in Threads : num[t] \notin Numbers
      BY <1>1 DEF GalleryInv, Calls, GalleryConstants
    <3> QED
      BY <3>1 DEF Entered
  <2>2. \A i \in Numbers : result[i] = 0 <=> Answers[i] = "taken"
    BY <1>1, <1>2 DEF Answers
  <2> QED
    BY <1>2, <2>1, <2>2 DEF Promise!Taken, TheJob
<1>5. index'.entries \in {list, << >>}
  BY <1>1
<1>6. /\ index'.entries \in Promise!Lists(Promise!Taken(1))
      /\ Len(index'.entries) \in {0, Promise!Cardinality(Promise!Taken(1))}
  <2>1. list \in Promise!Lists(Promise!Taken(1)) /\ Len(list) = Promise!Cardinality(Promise!Taken(1))
    BY <1>2, <1>4, IndexFits
  <2>2. << >> \in Promise!Lists(Promise!Taken(1)) /\ Len(<< >>) = 0
    <3>1. 0 \in 0..Promise!Cardinality(Promise!Taken(1))
      <4>1. Len(list) \in Nat
        BY <1>2
      <4> QED
        BY <2>1, <4>1
    <3>2. << >> \in [1..0 -> Promise!Taken(1)] /\ \A a \in DOMAIN << >> : FALSE
      OBVIOUS
    <3> QED
      BY <3>1, <3>2 DEF Promise!Lists
  <2> QED
    BY <1>5, <2>1, <2>2
<1>7. shown' = [shown EXCEPT ![1] = index'.entries]
  BY <1>1, <1>3
<1>8. 1 \notin (IF index = None THEN {} ELSE {1})
      /\ (IF index = None THEN {} ELSE {1})' = (IF index = None THEN {} ELSE {1}) \cup {1}
  BY <1>1, <1>3
<1>9. \A i \in Numbers : Answers[i] # "none"
  BY <1>1 DEF Answers
<1>10. UNCHANGED Answers
  BY <1>1 DEF Answers
<1> HIDE DEF shown
<1> QED
  BY <1>6, <1>7, <1>8, <1>9, <1>10 DEF Promise!Present, shown

(* A gallery is a job of StorageJobs: its index presents, after the last    *)
(* call has returned and once, what store took, in the order of the job.    *)
THEOREM GalleryPresents ==
  ASSUME GalleryConstants
  PROVE  GSpec => GalleryPresented
<1>1. GInit => Promise!JobsInit
  <2> SUFFICES ASSUME GInit PROVE Promise!JobsInit
    OBVIOUS
  <2>1. Answers = [i \in Numbers |-> "none"] /\ index = None
    BY DEF GInit, Answers
  <2> QED
    BY <2>1 DEF Promise!JobsInit
<1>2. GalleryInv /\ [GNext]_gvars => [Promise!JobsNext]_(Promise!jobvars)
  <2> SUFFICES ASSUME GalleryInv, [GNext]_gvars PROVE [Promise!JobsNext]_(Promise!jobvars)
    OBVIOUS
  <2>1. ASSUME UNCHANGED <<result, index>> PROVE UNCHANGED Promise!jobvars
    BY <2>1 DEF Promise!jobvars, Answers
  <2>2. ASSUME NEW t \in Threads, MkdirFails(t) PROVE Promise!JobsNext
    <3>1. pc[t] # "idle" /\ Return(t, 1) /\ UNCHANGED index
      BY <2>2 DEF MkdirFails, At
    <3> QED
      BY <3>1, ReturnAnswers DEF Promise!JobsNext
  <2>3. ASSUME NEW t \in Threads, Restore(t) PROVE Promise!JobsNext
    <3>1. pc[t] # "idle" /\ Return(t, 0) /\ UNCHANGED index
      BY <2>3 DEF Restore, At
    <3> QED
      BY <3>1, ReturnAnswers DEF Promise!JobsNext
  <2>4. ASSUME FinalizeStore PROVE Promise!JobsNext
    BY <2>4, FinalizePresents DEF Promise!JobsNext
  <2>5. ASSUME NEW t \in Threads, Call(t) \/ (Store(t) /\ ~MkdirFails(t) /\ ~Restore(t))
        PROVE  UNCHANGED <<result, index>>
    BY <2>5 DEF Call, Store, Lock, WritePage, PageNotOpened, ExportPicture, Shrink, ExportThumb
  <2>6. ASSUME JobOver \/ UNCHANGED gvars PROVE UNCHANGED <<result, index>>
    BY <2>6 DEF JobOver, gvars
  <2> QED
    BY <2>1, <2>2, <2>3, <2>4, <2>5, <2>6 DEF GNext
<1> QED
  BY <1>1, <1>2, GalleryAlways, PTL DEF GSpec, GalleryPresented, Promise!JobsSpec
=============================================================================
