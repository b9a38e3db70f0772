-------------------------- MODULE TaskPathsProofs --------------------------
(***************************************************************************)
(* TaskPaths for every number of periods, lines and restarts and every     *)
(* size of the queue: the queue and the position file are in the order of  *)
(* time, no line is collected twice, and as long as the queue refuses no   *)
(* path no file is forgotten and the files are collected one after the     *)
(* other.                                                                  *)
(***************************************************************************)
EXTENDS TaskPaths, FiniteSetTheorems, SequenceTheorems, WellFoundedInduction, TLAPS

\* What is in memory at each point; a process that does not run has nothing.
Shapes ==
    /\ paths = <<>> <=> first_update_paths
    /\ first_update_paths => tail = NoPath /\ ~refreshed /\ pc \notin {"stop", "start"}
    /\ ~running => first_update_paths /\ mapped = {}
    /\ opened => tail # NoPath
    /\ pc = "stop" => tail # NoPath
    /\ pc = "start" => tail = NoPath
    /\ pc \in {"stop", "start"} => ~fresh
    /\ pc # "rewrite" => kept = <<>>
    /\ pc = "rewrite" => disk = <<>>

\* The lines that are watched are those that have an entry, and a process that
\* has just started has one at most.
Mapped ==
    /\ running => mapped = watched
    /\ tail # NoPath => disk[entry].path = tail
    /\ Len(kept) <= 1
    /\ \A k \in 1..Len(kept) : kept[k].pos # UNWATCHED_POSITION
    /\ first_update_paths /\ running => Len(disk) <= 1

TInv == TypeOK /\ Shapes /\ Mapped
-----------------------------------------------------------------------------
\* A bounded set of numbers has a largest one.
LEMMA MaxIsLast ==
    ASSUME NEW n \in Nat, NEW S \in SUBSET (0..n), S # {}
    PROVE  Max(S) \in S /\ \A k \in S : k <= Max(S)
<1> DEFINE R == {ss \in Nat \X Nat : ss[1] < ss[2]}
<1> DEFINE T == {n - k : k \in S}
<1>1. IsWellFoundedOn(R, Nat)
  BY NatLessThanWellFounded DEF OpToRel
<1>2. T \subseteq Nat /\ T # {}
  <2>1. PICK k \in S : TRUE
    OBVIOUS
  <2>2. n - k \in T
    OBVIOUS
  <2>3. \A j \in S : n - j \in Nat
    OBVIOUS
  <2> QED BY <2>2, <2>3
<1> HIDE DEF R, T
<1>3. PICK x \in T : \A y \in T : ~(<<y, x>> \in R)
  BY <1>1, <1>2, WFMin
<1>4. PICK m \in S : x = n - m
  BY DEF T
<1>5. ASSUME NEW k \in S PROVE k <= m
  <2>1. n - k \in T
    BY DEF T
  <2>2. ~(n - k < x)
    BY <1>2, <1>3, <2>1 DEF R
  <2> QED BY <2>2, <1>4
<1> QED BY <1>5 DEF Max

\* Task::addPath: a path goes to the end of the queue, or is refused.
LEMMA Added ==
    ASSUME NEW q \in Seq(Path), Len(q) <= PathQueueMaxSize, NEW p \in Path
    PROVE  /\ addPath(q, p) \in Seq(Path) /\ Len(addPath(q, p)) <= PathQueueMaxSize
           /\ addPath(q, p) # <<>>
           /\ \/ addPath(q, p) = q /\ q # <<>>
              \/ /\ Len(addPath(q, p)) = Len(q) + 1 /\ addPath(q, p)[Len(q) + 1] = p
                 /\ \A k \in 1..Len(q) : addPath(q, p)[k] = q[k]
                 /\ Len(q) > 0 => q[Len(q)] # p
<1>1. CASE q = <<>> \/ (p # Last(q) /\ Len(q) < PathQueueMaxSize)
  <2>1. addPath(q, p) = Append(q, p)
    BY <1>1 DEF addPath
  <2>2. /\ Append(q, p) \in Seq(Path) /\ Len(Append(q, p)) = Len(q) + 1
        /\ Append(q, p)[Len(q) + 1] = p /\ Len(q) \in Nat
        /\ \A k \in 1..Len(q) : Append(q, p)[k] = q[k]
    OBVIOUS
  <2>3. Len(q) > 0 => q[Len(q)] # p
    BY <1>1 DEF Last
  <2>4. Len(q) + 1 <= PathQueueMaxSize
    BY <1>1, <2>2, BoundsAssumption
  <2>5. addPath(q, p) # <<>>
    BY <2>1, <2>2
  <2> QED BY <2>1, <2>2, <2>3, <2>4, <2>5
<1>2. CASE ~(q = <<>> \/ (p # Last(q) /\ Len(q) < PathQueueMaxSize))
  <2>1. addPath(q, p) = q /\ q # <<>>
    BY <1>2 DEF addPath
  <2> QED BY <2>1
<1> QED BY <1>1, <1>2

\* removeExpired drops paths from the head of the queue, expired ones only.
LEMMA Removed ==
    ASSUME NEW q \in Seq(Path)
    PROVE  \E m \in 0..Len(q) :
             /\ removeExpired(q) \in Seq(Path) /\ Len(removeExpired(q)) = Len(q) - m
             /\ \A k \in 1..(Len(q) - m) : removeExpired(q)[k] = q[k + m]
             /\ \A j \in 1..m : expired(q[j])
<1> DEFINE done == {k \in 0..Len(q) : \A j \in 1..k : expired(q[j])}
           m == Max(done)
<1>0. Len(q) \in Nat
  OBVIOUS
<1>1. done \in SUBSET (0..Len(q)) /\ 0 \in done
  BY <1>0
<1> HIDE DEF done
<1>2. m \in done
  BY <1>0, <1>1, MaxIsLast
<1>3. m \in 0..Len(q) /\ \A j \in 1..m : expired(q[j])
  BY <1>2 DEF done
<1> HIDE DEF m
<1>4. removeExpired(q) = SubSeq(q, m + 1, Len(q))
  BY DEF removeExpired, m, done
<1>5. \A i \in (m + 1)..Len(q) : q[i] \in Path
  BY <1>0, <1>3
<1>6. /\ SubSeq(q, m + 1, Len(q)) \in Seq(Path)
      /\ Len(SubSeq(q, m + 1, Len(q))) = IF m + 1 <= Len(q) THEN Len(q) - (m + 1) + 1 ELSE 0
      /\ \A i \in 1..(Len(q) - (m + 1) + 1) : SubSeq(q, m + 1, Len(q))[i] = q[m + 1 + i - 1]
  BY <1>0, <1>3, <1>5, SubSeqProperties, m + 1 \in Int, Len(q) \in Int
<1>7. /\ Len(q) - (m + 1) + 1 = Len(q) - m
      /\ (IF m + 1 <= Len(q) THEN Len(q) - (m + 1) + 1 ELSE 0) = Len(q) - m
      /\ \A i \in 1..(Len(q) - m) : m + 1 + i - 1 = i + m
  BY <1>0, <1>3
<1> QED BY <1>3, <1>4, <1>6, <1>7

\* The files that glob finds, in their order.
LEMMA Newer ==
    ASSUME TypeOK, NEW sorted \in inOrder(newer)
    PROVE  /\ newer \subseteq Path /\ Cardinality(newer) \in Nat
           /\ sorted \in Seq(Path) /\ Len(sorted) = Cardinality(newer)
           /\ \A k \in 1..Len(sorted) : sorted[k] \in newer
           /\ \A p \in newer : \E k \in 1..Len(sorted) : sorted[k] = p
           /\ \A i, j \in 1..Len(sorted) : i < j => sorted[i] < sorted[j]
<1>1. newer \subseteq Path
  BY DEF newer, globed, TypeOK
<1>2. IsFiniteSet(Path)
  BY FS_Interval, BoundsAssumption DEF Path
<1>3. IsFiniteSet(newer)
  BY <1>1, <1>2, FS_Subset
<1>4. Cardinality(newer) \in Nat
  BY <1>3, FS_CardinalityType
<1>5. /\ sorted \in [1..Cardinality(newer) -> newer] /\ Range(sorted) = newer
      /\ \A i, j \in DOMAIN sorted : i < j => sorted[i] < sorted[j]
  BY DEF inOrder
<1>6. DOMAIN sorted = 1..Cardinality(newer)
  BY <1>5
<1>7. sorted \in Seq(Path) /\ Len(sorted) = Cardinality(newer)
  BY <1>1, <1>4, <1>5
<1>8. \A p \in newer : \E k \in 1..Len(sorted) : sorted[k] = p
  BY <1>5, <1>6, <1>7 DEF Range
<1> QED BY <1>1, <1>4, <1>5, <1>6, <1>7, <1>8

\* The queue that the first update finds: the last path of the position file
\* and, up to the limit, the files that came after it.
FirstQueue(q) ==
    /\ Len(q) >= 1 /\ q[1] = Max(lastPaths)
    /\ \A k \in 2..Len(q) : q[k] \in newer
    /\ \A i, j \in 2..Len(q) : i < j => q[i] < q[j]
    /\ Cardinality(newer) < PathQueueMaxSize =>
         \A p \in newer : \E k \in 1..Len(q) : q[k] = p

\* The largest path with an entry.
LEMMA LastPath ==
    ASSUME TypeOK, lastPaths # {}
    PROVE  /\ Max(lastPaths) \in Path
           /\ \E k \in mapped : disk[k].path = Max(lastPaths)
           /\ \A k \in mapped : disk[k].path <= Max(lastPaths)
<1>1. \A k \in mapped : disk[k] \in Entry
  BY DEF TypeOK
<1>2. \A k \in mapped : disk[k].path \in 1..MaxTime
  BY <1>1 DEF Entry, Path
<1>3. lastPaths \in SUBSET (0..MaxTime)
  BY <1>2, BoundsAssumption DEF lastPaths
<1>4. Max(lastPaths) \in lastPaths /\ \A k \in lastPaths : k <= Max(lastPaths)
  BY <1>3, MaxIsLast, BoundsAssumption
<1> QED BY <1>2, <1>4 DEF lastPaths, Path

\* What the queue starts from in an update.
LEMMA FirstPaths ==
    ASSUME TInv, NEW sorted \in inOrder(newer)
    PROVE  /\ firstPaths(sorted) \in Seq(Path) /\ Len(firstPaths(sorted)) <= PathQueueMaxSize
           /\ ~(first_update_paths /\ lastPaths # {}) => firstPaths(sorted) = paths
           /\ first_update_paths /\ lastPaths # {} => FirstQueue(firstPaths(sorted))
<1>0. paths \in Seq(Path) /\ Len(paths) <= PathQueueMaxSize /\ (first_update_paths => paths = <<>>)
  BY DEF TInv, TypeOK, Shapes
<1>1. CASE ~(first_update_paths /\ lastPaths # {})
  BY <1>0, <1>1 DEF firstPaths
<1>2. CASE first_update_paths /\ lastPaths # {}
  <2> DEFINE last == Max(lastPaths)
             q == addPath(paths, last)
             room == PathQueueMaxSize - Len(q)
             n == IF Len(sorted) < room THEN Len(sorted) ELSE room
             s == SubSeq(sorted, 1, n)
  <2>1. last \in Path
    BY <1>2, LastPath DEF TInv
  <2>2. q = <<last>>
    BY <1>0, <1>2 DEF addPath
  <2>3. q \in Seq(Path) /\ Len(q) = 1 /\ q[1] = last
    BY <2>1, <2>2
  <2>4. firstPaths(sorted) = q \o s
    BY <1>2 DEF firstPaths
  <2>5. /\ sorted \in Seq(Path) /\ Len(sorted) = Cardinality(newer)
        /\ \A k \in 1..Len(sorted) : sorted[k] \in newer
        /\ \A p \in newer : \E k \in 1..Len(sorted) : sorted[k] = p
        /\ \A i, j \in 1..Len(sorted) : i < j => sorted[i] < sorted[j]
    BY Newer DEF TInv
  <2> HIDE DEF q, s, last
  <2>6. /\ room = PathQueueMaxSize - 1 /\ n \in 0..Len(sorted) /\ n <= PathQueueMaxSize - 1
        /\ Cardinality(newer) < PathQueueMaxSize => n = Len(sorted)
    BY <2>3, <2>5, BoundsAssumption
  <2> HIDE DEF n, room
  <2>7. \A i \in 1..n : sorted[i] \in Path
    BY <2>5, <2>6
  <2>8. /\ s \in Seq(Path) /\ Len(s) = IF 1 <= n THEN n - 1 + 1 ELSE 0
        /\ \A i \in 1..(n - 1 + 1) : s[i] = sorted[1 + i - 1]
    BY <2>6, <2>7, SubSeqProperties, 1 \in Int, n \in Int DEF s
  <2>9. Len(s) = n /\ \A i \in 1..n : s[i] = sorted[i]
    BY <2>6, <2>8
  <2>10. /\ q \o s \in Seq(Path) /\ Len(q \o s) = Len(q) + Len(s)
         /\ \A i \in 1..(Len(q) + Len(s)) : (q \o s)[i] =
                IF i <= Len(q) THEN q[i] ELSE s[i - Len(q)]
    BY <2>3, <2>8, ConcatProperties
  <2>11. Len(q \o s) = n + 1 /\ (q \o s)[1] = last
    BY <2>3, <2>6, <2>9, <2>10
  <2>12. \A k \in 2..(n + 1) : (q \o s)[k] = sorted[k - 1] /\ k - 1 \in 1..Len(sorted)
    <3> SUFFICES ASSUME NEW k \in 2..(n + 1)
                 PROVE  (q \o s)[k] = sorted[k - 1] /\ k - 1 \in 1..Len(sorted)
      OBVIOUS
    <3>1. k - 1 \in 1..n /\ k \in 1..(Len(q) + Len(s)) /\ ~(k <= Len(q)) /\ k - Len(q) = k - 1
      BY <2>3, <2>6, <2>9
    <3> QED BY <2>6, <2>9, <2>10, <3>1
  <2>13. FirstQueue(q \o s)
    <3>1. \A k \in 2..(n + 1) : (q \o s)[k] \in newer
      BY <2>5, <2>12
    <3>2. ASSUME NEW i \in 2..(n + 1), NEW j \in 2..(n + 1), i < j
          PROVE  (q \o s)[i] < (q \o s)[j]
      <4>1. i - 1 < j - 1
        BY <2>6, <3>2
      <4>2. i - 1 \in 1..Len(sorted) /\ j - 1 \in 1..Len(sorted)
        BY <2>12
      <4>3. sorted[i - 1] < sorted[j - 1]
        BY <2>5, <4>1, <4>2
      <4> QED BY <2>12, <4>3
    <3>3. ASSUME Cardinality(newer) < PathQueueMaxSize, NEW p \in newer
          PROVE  \E k \in 1..(n + 1) : (q \o s)[k] = p
      <4>1. PICK k \in 1..Len(sorted) : sorted[k] = p
        BY <2>5
      <4>2. k + 1 \in 2..(n + 1) /\ (k + 1) - 1 = k /\ k + 1 \in 1..(n + 1)
        BY <2>6, <3>3
      <4> QED BY <2>12, <4>1, <4>2
    <3> QED BY <2>6, <2>11, <3>1, <3>2, <3>3 DEF FirstQueue, last
  <2> QED BY <1>2, <2>4, <2>6, <2>10, <2>11, <2>13, BoundsAssumption
<1> QED BY <1>1, <1>2

\* An update drops the first m paths of a queue, which are expired, and appends
\* the current one unless it is there or refused.
Moved(q, m) ==
    /\ q \in Seq(Path) /\ m \in 0..Len(q)
    /\ \A j \in 1..m : expired(q[j])
    /\ Len(q) - m <= Len(paths')
    /\ \A k \in 1..(Len(q) - m) : paths'[k] = q[k + m]
    /\ \A k \in 1..Len(paths') :
         \/ k <= Len(q) - m
         \/ /\ k = Len(q) - m + 1 /\ paths'[k] = now
            /\ m < Len(q) => q[Len(q)] # now

\* updateTaskPaths.
LEMMA Refreshed ==
    ASSUME TInv, Refresh
    PROVE  /\ paths' \in Seq(Path) /\ Len(paths') <= PathQueueMaxSize /\ Len(paths') >= 1
           /\ paths' # <<>>
           /\ ~(first_update_paths /\ lastPaths # {}) =>
                \E m \in 0..Len(paths) : Moved(paths, m)
           /\ first_update_paths /\ lastPaths # {} =>
                \E q \in Seq(Path) : FirstQueue(q) /\ \E m \in 0..Len(q) : Moved(q, m)
<1>1. PICK sorted \in inOrder(newer) : paths' = addPath(removeExpired(firstPaths(sorted)), now)
  BY DEF Refresh
<1> DEFINE q == firstPaths(sorted)
           r == removeExpired(q)
<1>2. /\ q \in Seq(Path) /\ Len(q) <= PathQueueMaxSize
      /\ ~(first_update_paths /\ lastPaths # {}) => q = paths
      /\ first_update_paths /\ lastPaths # {} => FirstQueue(q)
  BY FirstPaths
<1> HIDE DEF q
<1>3. PICK m \in 0..Len(q) :
         /\ r \in Seq(Path) /\ Len(r) = Len(q) - m
         /\ \A k \in 1..(Len(q) - m) : r[k] = q[k + m]
         /\ \A j \in 1..m : expired(q[j])
  BY <1>2, Removed
<1> HIDE DEF r
<1>4. Len(q) \in Nat /\ Len(r) \in Nat /\ now \in Path
  BY <1>2, <1>3 DEF TInv, TypeOK
<1>5. Len(r) <= PathQueueMaxSize
  BY <1>2, <1>3, <1>4, BoundsAssumption
<1>6. paths' = addPath(r, now)
  BY <1>1 DEF q, r
<1>7. /\ paths' \in Seq(Path) /\ Len(paths') <= PathQueueMaxSize /\ paths' # <<>>
      /\ \/ paths' = r /\ r # <<>>
         \/ /\ Len(paths') = Len(r) + 1 /\ paths'[Len(r) + 1] = now
            /\ \A k \in 1..Len(r) : paths'[k] = r[k]
            /\ Len(r) > 0 => r[Len(r)] # now
  BY <1>3, <1>4, <1>5, <1>6, Added
<1>8. Len(paths') >= 1
  BY <1>7
<1>9. Moved(q, m)
  <2>1. CASE paths' = r
    BY <1>2, <1>3, <1>4, <2>1 DEF Moved
  <2>2. CASE /\ Len(paths') = Len(r) + 1 /\ paths'[Len(r) + 1] = now
             /\ \A k \in 1..Len(r) : paths'[k] = r[k]
             /\ Len(r) > 0 => r[Len(r)] # now
    <3>1. m < Len(q) => Len(r) > 0 /\ r[Len(r)] = q[Len(q)]
      <4> SUFFICES ASSUME m < Len(q) PROVE Len(r) > 0 /\ r[Len(r)] = q[Len(q)]
        OBVIOUS
      <4>1. Len(r) > 0 /\ Len(q) - m \in 1..(Len(q) - m) /\ (Len(q) - m) + m = Len(q)
        BY <1>3, <1>4
      <4> QED BY <1>3, <4>1
    <3>2. \A k \in 1..Len(paths') : k <= Len(q) - m \/ k = Len(q) - m + 1
      BY <1>3, <1>4, <2>2
    <3>3. \A k \in 1..(Len(q) - m) : paths'[k] = q[k + m]
      BY <1>3, <2>2
    <3>4. Len(q) - m <= Len(paths')
      BY <1>3, <1>4, <2>2
    <3>5. \A k \in 1..Len(paths') : k = Len(q) - m + 1 =>
             paths'[k] = now /\ (m < Len(q) => q[Len(q)] # now)
      BY <1>3, <2>2, <3>1
    <3> QED BY <1>2, <1>3, <3>2, <3>3, <3>4, <3>5 DEF Moved
  <2> QED BY <1>7, <2>1, <2>2
<1> QED BY <1>2, <1>3, <1>7, <1>8, <1>9
-----------------------------------------------------------------------------
\* A position file n that is d but for one line, which has another position and
\* inode and the same path.
OneLineDiffers(d, n, e, ino, pos) ==
    /\ n \in Seq(Entry) /\ Len(n) = Len(d)
    /\ n[e] = [path |-> d[e].path, pos |-> pos, inode |-> ino]
    /\ \A k \in 1..Len(d) : k # e => n[k] = d[k]

\* FilePositionEntry::update writes one line in place and leaves its path.
LEMMA Updates ==
    ASSUME NEW d \in Seq(Entry), NEW e \in 1..Len(d), NEW ino \in {INO_NONE} \cup Path,
           NEW pos \in {UNWATCHED_POSITION} \cup (0..MaxSize)
    PROVE  OneLineDiffers(d, update(d, e, ino, pos), e, ino, pos)
<1>1. d[e] \in Entry
  OBVIOUS
<1>2. ASSUME NEW l \in Entry
      PROVE  [l EXCEPT !.pos = pos] = [path |-> l.path, pos |-> pos, inode |-> l.inode]
  BY DEF Entry
<1>3. [[d[e] EXCEPT !.inode = ino] EXCEPT !.pos = pos] = [path |-> d[e].path, pos |-> pos, inode |-> ino]
  <2> DEFINE m == [d[e] EXCEPT !.inode = ino]
  <2>1. m \in Entry /\ m.path = d[e].path /\ m.inode = ino
    BY <1>1 DEF Entry
  <2> HIDE DEF m
  <2>2. [m EXCEPT !.pos = pos] = [path |-> d[e].path, pos |-> pos, inode |-> ino]
    BY <1>2, <2>1
  <2> QED BY <2>2 DEF m
<1>4. [path |-> d[e].path, pos |-> pos, inode |-> ino] \in Entry
  BY <1>1 DEF Entry
<1>5. update(d, e, ino, pos) = [d EXCEPT ![e] = [path |-> d[e].path, pos |-> pos, inode |-> ino]]
  BY <1>1, <1>3 DEF update
<1> HIDE DEF update
<1> QED BY <1>4, <1>5 DEF OneLineDiffers

\* So does updatePos, which leaves the inode as well.
LEMMA PosUpdates ==
    ASSUME NEW d \in Seq(Entry), NEW e \in 1..Len(d),
           NEW pos \in {UNWATCHED_POSITION} \cup (0..MaxSize)
    PROVE  OneLineDiffers(d, updatePos(d, e, pos), e, d[e].inode, pos)
<1>1. d[e] \in Entry
  OBVIOUS
<1>2. [d[e] EXCEPT !.pos = pos] = [path |-> d[e].path, pos |-> pos, inode |-> d[e].inode]
  BY <1>1 DEF Entry
<1>3. [path |-> d[e].path, pos |-> pos, inode |-> d[e].inode] \in Entry
  BY <1>1 DEF Entry
<1>4. updatePos(d, e, pos) = [d EXCEPT ![e] = [path |-> d[e].path, pos |-> pos, inode |-> d[e].inode]]
  BY <1>1, <1>2 DEF updatePos
<1> HIDE DEF updatePos
<1> QED BY <1>3, <1>4 DEF OneLineDiffers

\* The entry of a tail watcher is a line that is watched, the one of its path.
LEMMA OwnEntry ==
    ASSUME TInv, tail # NoPath
    PROVE  /\ running /\ tail \in Path /\ paths # <<>> /\ ~first_update_paths
           /\ entry \in 1..Len(disk) /\ entry \in mapped /\ entry \in watched
           /\ disk[entry] \in Entry /\ disk[entry].path = tail
           /\ disk[entry].pos \in 0..MaxSize /\ size[tail] \in 0..MaxSize
           /\ got[tail] \in SUBSET (1..MaxSize)
<1>1. running /\ tail \in Path /\ paths # <<>> /\ ~first_update_paths
  BY DEF TInv, TypeOK, Shapes
<1>2. entry \in mapped /\ DOMAIN disk = 1..Len(disk) /\ entry \in DOMAIN disk /\ disk \in Seq(Entry)
  BY DEF TInv, TypeOK
<1>3. disk[entry] \in Entry /\ disk[entry].path = tail /\ entry \in watched
  BY <1>1, <1>2 DEF TInv, Mapped
<1>4. disk[entry].pos \in 0..MaxSize
  BY <1>3 DEF watched, Entry
<1>5. size[tail] \in 0..MaxSize /\ got[tail] \in SUBSET (1..MaxSize)
  BY <1>1 DEF TInv, TypeOK
<1> QED BY <1>1, <1>2, <1>3, <1>4, <1>5

\* A step that writes one line.
Written(e, ino, pos) == OneLineDiffers(disk, disk', e, ino, pos)

\* updatePos and update write one line.
LEMMA WriteLine ==
    ASSUME disk \in Seq(Entry), NEW e \in 1..Len(disk), NEW ino \in {INO_NONE} \cup Path,
           NEW pos \in {UNWATCHED_POSITION} \cup (0..MaxSize)
    PROVE  /\ disk' = updatePos(disk, e, pos) => Written(e, disk[e].inode, pos)
           /\ disk' = update(disk, e, ino, pos) => Written(e, ino, pos)
<1>1. OneLineDiffers(disk, update(disk, e, ino, pos), e, ino, pos)
  BY Updates, Zenon
<1>2. OneLineDiffers(disk, updatePos(disk, e, pos), e, disk[e].inode, pos)
  BY PosUpdates, Zenon
<1> QED BY <1>1, <1>2 DEF Written

\* Which lines are watched after one was written to.
LEMMA WrittenWatched ==
    ASSUME disk \in Seq(Entry), NEW e \in 1..Len(disk), NEW ino, NEW pos \in Int, Written(e, ino, pos)
    PROVE  /\ DOMAIN disk' = DOMAIN disk
           /\ disk'[e].path = disk[e].path /\ disk'[e].pos = pos /\ disk'[e].inode = ino
           /\ \A k \in 1..Len(disk) : disk'[k].path = disk[k].path
           /\ pos = UNWATCHED_POSITION => watched' = watched \ {e}
           /\ pos # UNWATCHED_POSITION => watched' = watched \cup {e}
<1>1. DOMAIN disk = 1..Len(disk) /\ DOMAIN disk' = 1..Len(disk)
  BY DEF Written, OneLineDiffers
<1>2. disk'[e].path = disk[e].path /\ disk'[e].pos = pos /\ disk'[e].inode = ino
  BY DEF Written, OneLineDiffers
<1>3. \A k \in 1..Len(disk) : disk'[k].path = disk[k].path
  BY <1>2 DEF Written, OneLineDiffers
<1>4. \A k \in 1..Len(disk) : k # e => (k \in watched' <=> k \in watched)
  BY <1>1 DEF Written, OneLineDiffers, watched
<1>5. e \in watched' <=> pos # UNWATCHED_POSITION
  BY <1>1, <1>2 DEF watched
<1>6. watched \subseteq 1..Len(disk) /\ watched' \subseteq 1..Len(disk)
  BY <1>1 DEF watched
<1> QED BY <1>1, <1>2, <1>3, <1>4, <1>5, <1>6

\* What is read goes to the file of the tail watcher.
LEMMA ReadLines ==
    ASSUME TInv, tail # NoPath, NEW from \in Nat, read(from)
    PROVE  /\ got' \in [Path -> SUBSET (1..MaxSize)]
           /\ got'[tail] = got[tail] \cup ((from + 1)..size[tail])
           /\ \A p \in Path : p # tail => got'[p] = got[p]
           /\ twice' \subseteq Path \X (1..MaxSize)
           /\ twice' = twice \cup ({tail} \X (((from + 1)..size[tail]) \cap got[tail]))
<1>1. /\ tail \in Path /\ size[tail] \in 0..MaxSize /\ got \in [Path -> SUBSET (1..MaxSize)]
      /\ twice \subseteq Path \X (1..MaxSize) /\ got[tail] \in SUBSET (1..MaxSize)
  BY OwnEntry DEF TInv, TypeOK
<1>2. (from + 1)..size[tail] \subseteq 1..MaxSize
  BY <1>1, BoundsAssumption
<1> DEFINE lines == (from + 1)..size[tail]
<1>3. got' = [got EXCEPT ![tail] = got[tail] \cup lines]
      /\ twice' = twice \cup ({tail} \X (lines \cap got[tail]))
  BY DEF read
<1> HIDE DEF lines
<1>4. lines \subseteq 1..MaxSize
  BY <1>2 DEF lines
<1>5. got' \in [Path -> SUBSET (1..MaxSize)]
  BY <1>1, <1>3, <1>4
<1>6. {tail} \X (lines \cap got[tail]) \subseteq Path \X (1..MaxSize)
  BY <1>1, <1>4
<1> QED BY <1>1, <1>3, <1>5, <1>6 DEF lines

\* stopWatchers: the line of the tail watcher is marked.
LEMMA StoppedLine ==
    ASSUME TInv, StopWatcher
    PROVE  /\ pc = "stop" /\ tail # NoPath
           /\ Written(entry, disk[entry].inode, UNWATCHED_POSITION)
           /\ mapped' = mapped \ {entry} /\ watched' = watched \ {entry}
           /\ opened => read(fpos)
           /\ ~opened => got' = got /\ twice' = twice
<1>1. /\ pc = "stop" /\ closeIO /\ mapped' = mapped \ {entry}
      /\ disk' = updatePos(disk, entry, UNWATCHED_POSITION)
  BY DEF StopWatcher
<1>2. tail # NoPath
  BY <1>1 DEF TInv, Shapes
<1>3. disk \in Seq(Entry) /\ entry \in 1..Len(disk)
  BY <1>2, OwnEntry DEF TInv, TypeOK
<1>4. INO_NONE \in {INO_NONE} \cup Path /\ UNWATCHED_POSITION \in {UNWATCHED_POSITION} \cup (0..MaxSize)
  OBVIOUS
<1>5. Written(entry, disk[entry].inode, UNWATCHED_POSITION)
  BY <1>1, <1>3, <1>4, WriteLine
<1>6. watched' = watched \ {entry}
  BY <1>3, <1>5, WrittenWatched DEF UNWATCHED_POSITION
<1> QED BY <1>1, <1>2, <1>5, <1>6 DEF closeIO

\* onNotify: the position and the inode are recorded, if the file is there.
LEMMA NotifiedLine ==
    ASSUME TInv, Notify
    PROVE  /\ pc = "idle" /\ tail # NoPath /\ ~fresh' /\ running'
           /\ ~(opened \/ tail \in exists) =>
                disk' = disk /\ UNCHANGED <<got, twice, fpos, opened, silent>>
           /\ opened \/ tail \in exists =>
                /\ Written(entry, tail, size[tail]) /\ opened' /\ fpos' = size[tail]
                /\ read(IF opened THEN fpos ELSE openPos) /\ silent' \in BOOLEAN
                /\ (IF opened THEN fpos ELSE openPos) \in Nat
           /\ watched' = watched
<1>1. /\ pc = "idle" /\ tail # NoPath /\ ~fresh' /\ pc' = pc
      /\ opened \/ tail \in exists =>
           /\ disk' = update(disk, entry, tail, size[tail]) /\ opened' /\ fpos' = size[tail]
           /\ read(IF opened THEN fpos ELSE openPos)
           /\ silent' = (silent /\ opened /\ (IF opened THEN fpos ELSE openPos) = size[tail])
      /\ ~(opened \/ tail \in exists) =>
           disk' = disk /\ UNCHANGED <<got, twice, fpos, opened, silent>>
  BY DEF Notify
<1>2. /\ disk \in Seq(Entry) /\ entry \in 1..Len(disk) /\ size[tail] \in 0..MaxSize
      /\ entry \in watched /\ tail \in Path /\ disk[entry].pos \in 0..MaxSize
  BY <1>1, OwnEntry DEF TInv, TypeOK
<1>3. (IF opened THEN fpos ELSE openPos) \in Nat
  BY <1>2, BoundsAssumption DEF openPos, TInv, TypeOK
<1>4. ASSUME opened \/ tail \in exists
      PROVE  Written(entry, tail, size[tail]) /\ watched' = watched
  <2>1. Written(entry, tail, size[tail])
    BY <1>1, <1>2, <1>4, WriteLine
  <2>2. size[tail] \in Int /\ size[tail] # UNWATCHED_POSITION
    BY <1>2 DEF UNWATCHED_POSITION
  <2>3. watched' = watched \cup {entry}
    BY <1>2, <2>1, <2>2, WrittenWatched
  <2> QED BY <1>2, <2>1, <2>3
<1>5. ASSUME ~(opened \/ tail \in exists) PROVE watched' = watched
  BY <1>1, <1>5 DEF watched
<1> QED BY <1>1, <1>3, <1>4, <1>5 DEF running

\* Manager::stop: the position is recorded, if the file was opened.
LEMMA EndedLine ==
    ASSUME TInv, Stop
    PROVE  /\ pc = "idle"
           /\ ~opened => disk' = disk /\ got' = got /\ twice' = twice
           /\ opened => /\ Written(entry, disk[entry].inode, size[tail])
                        /\ tail # NoPath /\ read(fpos)
           /\ watched' = watched
<1>1. /\ pc = "idle" /\ closeIO
      /\ disk' = IF opened THEN updatePos(disk, entry, size[tail]) ELSE disk
  BY DEF Stop
<1>2. ASSUME opened
      PROVE  /\ Written(entry, disk[entry].inode, size[tail]) /\ watched' = watched
             /\ tail # NoPath
  <2>1. tail # NoPath
    BY <1>2 DEF TInv, Shapes
  <2>2. /\ disk \in Seq(Entry) /\ entry \in 1..Len(disk) /\ size[tail] \in 0..MaxSize
        /\ entry \in watched
    BY <2>1, OwnEntry DEF TInv, TypeOK
  <2>3. Written(entry, disk[entry].inode, size[tail])
    BY <1>1, <1>2, <2>2, WriteLine, INO_NONE \in {INO_NONE} \cup Path
  <2>4. size[tail] \in Int /\ size[tail] # UNWATCHED_POSITION
    BY <2>2 DEF UNWATCHED_POSITION
  <2>5. watched' = watched \cup {entry}
    BY <2>2, <2>3, <2>4, WrittenWatched
  <2> QED BY <2>1, <2>2, <2>3, <2>5
<1>3. ASSUME ~opened PROVE disk' = disk /\ watched' = watched
  BY <1>1, <1>3 DEF watched
<1> QED BY <1>1, <1>2, <1>3 DEF closeIO

\* The line of a path, or a new one behind the others.
LEMMA LineOf ==
    ASSUME TypeOK, NEW p \in Path
    PROVE  \/ line(p) \in mapped /\ line(p) \in 1..Len(disk) /\ disk[line(p)].path = p
           \/ line(p) = Len(disk) + 1 /\ \A k \in mapped : disk[k].path # p
<1> DEFINE old == {k \in mapped : disk[k].path = p}
<1>0. Len(disk) \in Nat /\ mapped \subseteq 1..Len(disk)
  BY DEF TypeOK
<1>1. CASE old = {}
  BY <1>1 DEF line
<1>2. CASE old # {}
  <2>1. old \in SUBSET (0..Len(disk))
    <3>1. \A k \in mapped : k \in 0..Len(disk)
      BY <1>0
    <3> QED BY <3>1
  <2>2. line(p) = Max(old)
    BY <1>2 DEF line
  <2> HIDE DEF old
  <2>3. Max(old) \in old
    BY <1>0, <1>2, <2>1, MaxIsLast
  <2> QED BY <1>0, <2>2, <2>3 DEF old
<1> QED BY <1>1, <1>2

\* The line that operator[] returns for the first path of the queue, with the
\* inode of the file.
NewLine(p) == [path |-> p, pos |-> 0, inode |-> inode(p)]

StartedOld(e) ==
    /\ e \in mapped /\ e \in 1..Len(disk) /\ Len(disk') = Len(disk)
    /\ disk[e].path = paths[1]
    /\ disk[e].inode # INO_NONE => disk'[e] = disk[e]
    /\ disk[e].inode = INO_NONE => disk'[e] = NewLine(paths[1])

StartedNew(e) ==
    /\ e = Len(disk) + 1 /\ Len(disk') = Len(disk) + 1
    /\ \A k \in mapped : disk[k].path # paths[1]
    /\ disk'[e] = NewLine(paths[1])

\* startWatchers.
LEMMA StartedLine ==
    ASSUME TInv, StartWatcher
    PROVE  \E e \in 1..Len(disk') :
             /\ disk' \in Seq(Entry)
             /\ StartedOld(e) \/ StartedNew(e)
             /\ \A k \in 1..Len(disk) : k # e => disk'[k] = disk[k]
             /\ mapped' = mapped \cup {e}
             /\ \/ /\ tail' = paths[1] /\ entry' = e /\ fresh' = TRUE /\ silent' = FALSE
                   /\ UNCHANGED <<opened, fpos>>
                \/ UNCHANGED watcher
<1> DEFINE p == paths[1]
           e == line(p)
           d == appended(p)
           new == [path |-> p, pos |-> 0, inode |-> INO_NONE]
<1>1. /\ disk \in Seq(Entry) /\ Len(disk) \in Nat /\ DOMAIN disk = 1..Len(disk)
      /\ paths \in Seq(Path) /\ paths # <<>> /\ mapped \subseteq 1..Len(disk)
  BY DEF StartWatcher, TInv, TypeOK
<1>2. p \in Path /\ Head(paths) = p
  BY <1>1
<1>3. inode(p) \in {INO_NONE} \cup Path /\ 0 \in {UNWATCHED_POSITION} \cup (0..MaxSize)
  BY <1>2, BoundsAssumption DEF inode
<1>4. new \in Entry /\ NewLine(p) \in Entry
  BY <1>2, <1>3 DEF Entry, NewLine
<1>5. /\ disk' = IF d[e].inode = INO_NONE THEN update(d, e, inode(p), 0) ELSE d
      /\ mapped' = mapped \cup {e}
      /\ \/ /\ tail' = p /\ entry' = e /\ fresh' = TRUE /\ silent' = FALSE
            /\ UNCHANGED <<opened, fpos>>
         \/ UNCHANGED watcher
  <2> HIDE DEF p
  <2> QED BY <1>2 DEF StartWatcher
<1>6. \/ e \in mapped /\ e \in 1..Len(disk) /\ disk[e].path = p
      \/ e = Len(disk) + 1 /\ \A k \in mapped : disk[k].path # p
  BY <1>2, LineOf DEF TInv
<1> HIDE DEF e, p
<1>7. ASSUME NEW c \in Seq(Entry), e \in 1..Len(c), c[e].path = p, d = c
      PROVE  /\ disk' \in Seq(Entry) /\ Len(disk') = Len(c)
             /\ \A k \in 1..Len(c) : k # e => disk'[k] = c[k]
             /\ c[e].inode # INO_NONE => disk'[e] = c[e]
             /\ c[e].inode = INO_NONE => disk'[e] = NewLine(p)
  <2>1. CASE c[e].inode = INO_NONE
    <3>1. disk' = update(c, e, inode(p), 0)
      BY <1>5, <1>7, <2>1
    <3>2. ASSUME NEW x \in 1..Len(c), NEW ino \in {INO_NONE} \cup Path,
                 NEW pos \in {UNWATCHED_POSITION} \cup (0..MaxSize)
          PROVE  OneLineDiffers(c, update(c, x, ino, pos), x, ino, pos)
      BY Updates, Zenon
    <3>3. 0 \in {UNWATCHED_POSITION} \cup (0..MaxSize)
      BY BoundsAssumption
    <3>4. OneLineDiffers(c, update(c, e, inode(p), 0), e, inode(p), 0)
      BY <1>3, <1>7, <3>2, <3>3
    <3> QED BY <1>7, <2>1, <3>1, <3>4 DEF NewLine, OneLineDiffers
  <2>2. CASE c[e].inode # INO_NONE
    <3>1. disk' = c
      BY <1>5, <1>7, <2>2
    <3> QED BY <1>7, <2>2, <3>1
  <2> QED BY <2>1, <2>2
<1>8. CASE e \in mapped /\ e \in 1..Len(disk) /\ disk[e].path = p
  <2>1. d = disk
    BY <1>1, <1>8 DEF appended, e, p
  <2>2. /\ disk' \in Seq(Entry) /\ Len(disk') = Len(disk)
        /\ \A k \in 1..Len(disk) : k # e => disk'[k] = disk[k]
        /\ disk[e].inode # INO_NONE => disk'[e] = disk[e]
        /\ disk[e].inode = INO_NONE => disk'[e] = NewLine(p)
    BY <1>1, <1>7, <1>8, <2>1
  <2>3. StartedOld(e) /\ e \in 1..Len(disk')
    BY <1>8, <2>2 DEF StartedOld, p
  <2> QED BY <1>5, <2>2, <2>3 DEF p
<1>9. CASE e = Len(disk) + 1 /\ \A k \in mapped : disk[k].path # p
  <2>1. d = Append(disk, new)
    BY <1>1, <1>9 DEF appended, e, p
  <2>2. /\ Append(disk, new) \in Seq(Entry) /\ Len(Append(disk, new)) = Len(disk) + 1
        /\ Append(disk, new)[Len(disk) + 1] = new
        /\ \A k \in 1..Len(disk) : Append(disk, new)[k] = disk[k]
    BY <1>1, <1>4
  <2>3. new.path = p /\ new.inode = INO_NONE
    OBVIOUS
  <2> HIDE DEF new, d
  <2>4. /\ e \in 1..Len(Append(disk, new)) /\ Append(disk, new)[e].path = p
        /\ Append(disk, new)[e].inode = INO_NONE
    BY <1>1, <1>9, <2>2, <2>3
  <2>5. /\ disk' \in Seq(Entry) /\ Len(disk') = Len(Append(disk, new))
        /\ \A k \in 1..Len(Append(disk, new)) : k # e => disk'[k] = Append(disk, new)[k]
        /\ disk'[e] = NewLine(p)
    BY <1>7, <2>1, <2>2, <2>4
  <2>6. StartedNew(e) /\ e \in 1..Len(disk')
    BY <1>9, <2>2, <2>4, <2>5 DEF StartedNew, p
  <2>7. \A k \in 1..Len(disk) : k # e => disk'[k] = disk[k]
    BY <1>1, <2>2, <2>5
  <2> QED BY <1>5, <2>5, <2>6, <2>7 DEF p
<1> QED BY <1>6, <1>8, <1>9

\* The lines that are watched after that.
LEMMA StartedWatched ==
    ASSUME TInv, running, NEW e \in 1..Len(disk'), disk' \in Seq(Entry),
           StartedOld(e) \/ StartedNew(e), paths[1] \in Path,
           \A k \in 1..Len(disk) : k # e => disk'[k] = disk[k]
    PROVE  /\ watched' = watched \cup {e} /\ disk'[e].path = paths[1]
           /\ \A k \in 1..Len(disk') : k \in 1..Len(disk) \/ k = e
           /\ \A k \in watched : disk'[k].path = disk[k].path
           /\ e \in watched \/ (e = Len(disk) + 1 /\ \A k \in watched : disk[k].path # paths[1])
<1>1. /\ DOMAIN disk = 1..Len(disk) /\ DOMAIN disk' = 1..Len(disk') /\ Len(disk) \in Nat
      /\ Len(disk') \in Nat /\ mapped = watched
  BY DEF TInv, TypeOK, Mapped
<1>2. NewLine(paths[1]).path = paths[1] /\ NewLine(paths[1]).pos = 0
  BY DEF NewLine
<1>3. ASSUME StartedOld(e) PROVE disk'[e].path = paths[1] /\ disk'[e].pos # UNWATCHED_POSITION
  <2>1. /\ e \in watched /\ Len(disk') = Len(disk) /\ disk[e].path = paths[1]
        /\ disk[e].pos # UNWATCHED_POSITION
        /\ disk'[e] = disk[e] \/ disk'[e] = NewLine(paths[1])
    BY <1>1, <1>3 DEF StartedOld, watched
  <2>2. disk'[e].path = paths[1] /\ disk'[e].pos # UNWATCHED_POSITION
    BY <1>2, <2>1 DEF UNWATCHED_POSITION
  <2> QED BY <2>1, <2>2
<1>4. ASSUME StartedNew(e) PROVE disk'[e].path = paths[1] /\ disk'[e].pos # UNWATCHED_POSITION
  <2>1. /\ e = Len(disk) + 1 /\ Len(disk') = Len(disk) + 1 /\ disk'[e] = NewLine(paths[1])
        /\ \A k \in watched : disk[k].path # paths[1]
    BY <1>1, <1>4 DEF StartedNew
  <2>2. disk'[e].path = paths[1] /\ disk'[e].pos # UNWATCHED_POSITION
    BY <1>2, <2>1 DEF UNWATCHED_POSITION
  <2> QED BY <2>1, <2>2
<1>5. /\ disk'[e].path = paths[1] /\ disk'[e].pos # UNWATCHED_POSITION
      /\ \/ e \in watched /\ Len(disk') = Len(disk) /\ disk[e].path = paths[1]
         \/ /\ e = Len(disk) + 1 /\ Len(disk') = Len(disk) + 1
            /\ \A k \in watched : disk[k].path # paths[1]
  <2>1. StartedOld(e) => /\ e \in watched /\ Len(disk') = Len(disk) /\ disk[e].path = paths[1]
    BY <1>1 DEF StartedOld
  <2>2. StartedNew(e) => /\ e = Len(disk) + 1 /\ Len(disk') = Len(disk) + 1
                         /\ \A k \in watched : disk[k].path # paths[1]
    BY <1>1 DEF StartedNew
  <2> QED BY <1>3, <1>4, <2>1, <2>2
<1>6. /\ \A k \in 1..Len(disk') : k \in 1..Len(disk) \/ k = e
      /\ \A k \in 1..Len(disk) : k \in 1..Len(disk')
  <2>1. Len(disk') = Len(disk) \/ (e = Len(disk) + 1 /\ Len(disk') = Len(disk) + 1)
    BY <1>5
  <2>2. CASE Len(disk') = Len(disk)
    BY <1>1, <2>2
  <2>3. CASE e = Len(disk) + 1 /\ Len(disk') = Len(disk) + 1
    <3>1. \A k \in 1..(Len(disk) + 1) : k \in 1..Len(disk) \/ k = Len(disk) + 1
      BY <1>1
    <3>2. \A k \in 1..Len(disk) : k \in 1..(Len(disk) + 1)
      BY <1>1
    <3> QED BY <2>3, <3>1, <3>2
  <2> QED BY <2>1, <2>2, <2>3
<1>7. \A k \in watched : disk'[k].path = disk[k].path
  <2> SUFFICES ASSUME NEW k \in watched PROVE disk'[k].path = disk[k].path
    OBVIOUS
  <2>1. k \in 1..Len(disk) /\ Len(disk) + 1 \notin 1..Len(disk)
    BY <1>1 DEF watched
  <2>2. CASE k = e
    <3>1. disk[e].path = paths[1]
      BY <1>5, <2>1, <2>2
    <3> QED BY <1>5, <2>2, <3>1
  <2>3. CASE k # e
    BY <2>1, <2>3
  <2> QED BY <2>2, <2>3
<1>8. watched' = watched \cup {e}
  <2>1. e \in watched'
    BY <1>1, <1>5 DEF watched
  <2>2. \A k \in 1..Len(disk) : k # e => (k \in watched' <=> k \in watched)
    BY <1>1, <1>6 DEF watched
  <2>3. watched \subseteq 1..Len(disk) /\ watched' \subseteq 1..Len(disk')
    BY <1>1 DEF watched
  <2> QED BY <1>6, <2>1, <2>2, <2>3
<1> QED BY <1>5, <1>6, <1>7, <1>8
-----------------------------------------------------------------------------
\* The parts of TypeOK that an action changes one by one.
WorldType ==
    /\ now \in Path /\ exists \subseteq Path /\ size \in [Path -> 0..MaxSize]
    /\ refreshed \in BOOLEAN /\ crashes \in 0..MaxCrashes
FileType == disk \in Seq(Entry) /\ kept \in Seq(Entry) /\ mapped \subseteq DOMAIN disk
QueueType ==
    /\ first_update_paths \in BOOLEAN
    /\ paths \in Seq(Path) /\ Len(paths) <= PathQueueMaxSize
PointType ==
    /\ pc \in {"idle", "stop", "start", "down", "rewrite"}
    /\ pc = "start" => paths # <<>>
WatcherType ==
    /\ tail \in Path \cup {NoPath} /\ (tail # NoPath => entry \in mapped)
    /\ fresh \in BOOLEAN /\ opened \in BOOLEAN /\ silent \in BOOLEAN /\ fpos \in 0..MaxSize
HistoryType == got \in [Path -> SUBSET (1..MaxSize)] /\ twice \subseteq Path \X (1..MaxSize)

\* Together they are TypeOK, in a state and in the next one.
LEMMA TypeParts ==
    /\ WorldType /\ FileType /\ QueueType /\ PointType /\ WatcherType /\ HistoryType => TypeOK
    /\ WorldType' /\ FileType' /\ QueueType' /\ PointType' /\ WatcherType' /\ HistoryType' => TypeOK'
BY DEF TypeOK, WorldType, FileType, QueueType, PointType, WatcherType, HistoryType

\* The first start.
LEMMA InitTypes == Init => TInv
<1> SUFFICES ASSUME Init PROVE TInv
  OBVIOUS
<1>1. 1 \in Path /\ MaxTime \in Nat /\ MaxSize \in Nat /\ PathQueueMaxSize \in Nat \ {0}
  BY BoundsAssumption DEF Path
<1> DEFINE l == [path |-> 1, pos |-> 0, inode |-> INO_NONE]
<1>2. l \in Entry /\ l.path = 1 /\ l.pos = 0
  BY <1>1 DEF Entry
<1>3. disk = <<l>> /\ disk \in Seq(Entry) /\ Len(disk) = 1 /\ disk[1] = l
  BY <1>2 DEF Init
<1> HIDE DEF l
<1>4. WorldType
  BY <1>1, BoundsAssumption DEF Init, WorldType
<1>5. FileType
  BY <1>3 DEF Init, FileType
<1>6. QueueType /\ paths # <<>>
  <2>1. <<1>> \in Seq(Path) /\ Len(<<1>>) = 1 /\ <<1>> # <<>>
    BY <1>1
  <2>2. 1 <= PathQueueMaxSize
    BY <1>1
  <2> QED BY <2>1, <2>2 DEF Init, QueueType
<1>7. PointType
  BY DEF Init, PointType
<1>8. WatcherType
  <2>1. 0 \in 0..MaxSize
    BY <1>1
  <2> QED BY <1>1, <2>1 DEF Init, WatcherType
<1>9. HistoryType
  BY DEF Init, HistoryType
<1>10. Shapes
  BY <1>6, 1 # NoPath DEF Init, Shapes, running, NoPath
<1>11. watched = {1}
  BY <1>2, <1>3 DEF watched, UNWATCHED_POSITION
<1>12. Mapped
  BY <1>2, <1>3, <1>11 DEF Init, Mapped
<1> QED BY <1>4, <1>5, <1>6, <1>7, <1>8, <1>9, <1>10, <1>12, TypeParts DEF TInv

\* updateTaskPaths.
LEMMA RefreshTypes == ASSUME TInv, Refresh PROVE TInv'
<1>1. /\ paths' \in Seq(Path) /\ Len(paths') <= PathQueueMaxSize /\ paths' # <<>>
  BY Refreshed
<1>2. /\ pc = "idle" /\ ~fresh /\ first_update_paths' = FALSE /\ refreshed' = TRUE
      /\ pc' = IF tail = NoPath THEN "start"
               ELSE IF paths'[1] # tail THEN "stop" ELSE "idle"
      /\ now' = now /\ exists' = exists /\ size' = size /\ disk' = disk /\ kept' = kept
      /\ mapped' = mapped /\ tail' = tail /\ entry' = entry /\ fresh' = fresh
      /\ opened' = opened /\ fpos' = fpos /\ silent' = silent
      /\ crashes' = crashes /\ got' = got /\ twice' = twice
  BY DEF Refresh, files, posfile, watcher
<1>3. TypeOK
  BY DEF TInv
<1>4. TypeOK'
  <2>1. WorldType' /\ FileType' /\ WatcherType' /\ HistoryType'
    BY <1>2, <1>3 DEF TypeOK, WorldType, FileType, WatcherType, HistoryType
  <2>2. QueueType' /\ PointType'
    BY <1>1, <1>2 DEF QueueType, PointType
  <2> QED BY <2>1, <2>2, TypeParts
<1>5. pc' \in {"idle", "stop", "start"} /\ (pc' = "stop" => tail # NoPath) /\ (pc' = "start" => tail = NoPath)
  BY <1>2
<1>6. Shapes'
  BY <1>1, <1>2, <1>5 DEF Shapes, TInv, running
<1>7. watched' = watched
  BY <1>2 DEF watched
<1>8. Mapped'
  BY <1>2, <1>7 DEF TInv, Mapped, running
<1> QED BY <1>4, <1>6, <1>8 DEF TInv

\* stopWatchers.
LEMMA StopWatcherTypes == ASSUME TInv, StopWatcher PROVE TInv'
<1>1. /\ pc = "stop" /\ tail # NoPath
      /\ Written(entry, disk[entry].inode, UNWATCHED_POSITION)
      /\ mapped' = mapped \ {entry} /\ watched' = watched \ {entry}
      /\ opened => read(fpos)
      /\ ~opened => got' = got /\ twice' = twice
  BY StoppedLine
<1>2. /\ pc' = "start" /\ tail' = NoPath /\ opened' = FALSE
      /\ now' = now /\ exists' = exists /\ size' = size /\ kept' = kept
      /\ first_update_paths' = first_update_paths /\ paths' = paths /\ entry' = entry
      /\ fresh' = fresh /\ fpos' = fpos /\ silent' = silent /\ refreshed' = refreshed
      /\ crashes' = crashes
  BY DEF StopWatcher, files, task
<1>3. TypeOK /\ running /\ paths # <<>> /\ ~first_update_paths
  BY <1>1, OwnEntry DEF TInv
<1>4. HistoryType'
  <2>1. CASE opened
    <3>1. fpos \in Nat
      BY <1>3, BoundsAssumption DEF TypeOK
    <3> QED BY <1>1, <2>1, <3>1, ReadLines DEF HistoryType
  <2>2. CASE ~opened
    BY <1>1, <1>3, <2>2 DEF TypeOK, HistoryType
  <2> QED BY <2>1, <2>2
<1>5. FileType'
  <2>1. disk' \in Seq(Entry) /\ Len(disk') = Len(disk)
    BY <1>1 DEF Written, OneLineDiffers
  <2> QED BY <1>1, <1>2, <1>3, <2>1 DEF TypeOK, FileType
<1>6. WorldType' /\ QueueType' /\ PointType' /\ WatcherType'
  BY <1>2, <1>3 DEF TypeOK, WorldType, QueueType, PointType, WatcherType
<1>7. Shapes'
  BY <1>1, <1>2, <1>3 DEF Shapes, TInv, running
<1>8. Mapped'
  BY <1>1, <1>2, <1>3 DEF TInv, Mapped, running
<1> QED BY <1>4, <1>5, <1>6, <1>7, <1>8, TypeParts DEF TInv

\* startWatchers.
LEMMA StartWatcherTypes == ASSUME TInv, StartWatcher PROVE TInv'
<1>1. PICK e \in 1..Len(disk') :
         /\ disk' \in Seq(Entry)
         /\ StartedOld(e) \/ StartedNew(e)
         /\ \A k \in 1..Len(disk) : k # e => disk'[k] = disk[k]
         /\ mapped' = mapped \cup {e}
         /\ \/ /\ tail' = paths[1] /\ entry' = e /\ fresh' = TRUE /\ silent' = FALSE
               /\ UNCHANGED <<opened, fpos>>
            \/ UNCHANGED watcher
  BY StartedLine
<1>2. /\ pc = "start" /\ pc' = "idle"
      /\ now' = now /\ exists' = exists /\ size' = size /\ kept' = kept
      /\ first_update_paths' = first_update_paths /\ paths' = paths
      /\ refreshed' = refreshed /\ crashes' = crashes /\ got' = got /\ twice' = twice
  BY DEF StartWatcher, files, task
<1>3. TypeOK /\ running /\ paths # <<>> /\ ~first_update_paths /\ tail = NoPath /\ ~opened
  BY <1>2 DEF TInv, Shapes, running
<1>4. paths[1] \in Path /\ paths[1] # NoPath
  <2>1. paths \in Seq(Path) /\ paths # <<>>
    BY <1>3 DEF TypeOK
  <2>2. paths[1] \in Path
    BY <2>1
  <2> QED BY <2>2 DEF Path, NoPath
<1>5. /\ watched' = watched \cup {e} /\ disk'[e].path = paths[1]
      /\ \A k \in 1..Len(disk') : k \in 1..Len(disk) \/ k = e
  BY <1>1, <1>3, <1>4, StartedWatched
<1>6. mapped' = watched'
  BY <1>1, <1>3, <1>5 DEF TInv, Mapped
<1>7. FileType'
  <2>1. mapped' \subseteq DOMAIN disk'
    BY <1>6 DEF watched
  <2> QED BY <1>1, <1>2, <1>3, <2>1 DEF TypeOK, FileType
<1>8. WorldType' /\ QueueType' /\ PointType' /\ HistoryType'
  BY <1>2, <1>3 DEF TypeOK, WorldType, QueueType, PointType, HistoryType
<1>9. CASE UNCHANGED watcher
  <2>1. /\ tail' = NoPath /\ opened' = opened /\ fresh' = fresh /\ silent' = silent /\ fpos' = fpos
    BY <1>3, <1>9 DEF watcher
  <2>2. WatcherType'
    BY <1>3, <2>1 DEF TypeOK, WatcherType
  <2>3. Shapes' /\ Mapped'
    BY <1>2, <1>3, <1>6, <2>1 DEF Shapes, Mapped, TInv, running
  <2> QED BY <1>7, <1>8, <2>2, <2>3, TypeParts DEF TInv
<1>10. CASE /\ tail' = paths[1] /\ entry' = e /\ fresh' = TRUE /\ silent' = FALSE
            /\ UNCHANGED <<opened, fpos>>
  <2>2. WatcherType'
    BY <1>1, <1>3, <1>4, <1>10 DEF TypeOK, WatcherType
  <2>3. Shapes' /\ Mapped'
    BY <1>2, <1>3, <1>4, <1>5, <1>6, <1>10 DEF Shapes, Mapped, TInv, running
  <2> QED BY <1>7, <1>8, <2>2, <2>3, TypeParts DEF TInv
<1> QED BY <1>1, <1>9, <1>10

\* onNotify.
LEMMA NotifyTypes == ASSUME TInv, Notify PROVE TInv'
<1>1. /\ pc = "idle" /\ tail # NoPath /\ ~fresh' /\ watched' = watched
      /\ ~(opened \/ tail \in exists) =>
           disk' = disk /\ UNCHANGED <<got, twice, fpos, opened, silent>>
      /\ opened \/ tail \in exists =>
           /\ Written(entry, tail, size[tail]) /\ opened' /\ fpos' = size[tail]
           /\ read(IF opened THEN fpos ELSE openPos) /\ silent' \in BOOLEAN
           /\ (IF opened THEN fpos ELSE openPos) \in Nat
  BY NotifiedLine
<1>2. /\ pc' = pc /\ fresh' = FALSE
      /\ now' = now /\ exists' = exists /\ size' = size /\ kept' = kept /\ mapped' = mapped
      /\ first_update_paths' = first_update_paths /\ paths' = paths
      /\ tail' = tail /\ entry' = entry /\ refreshed' = refreshed /\ crashes' = crashes
  BY DEF Notify, files, task
<1>3. /\ TypeOK /\ running /\ tail \in Path /\ paths # <<>> /\ ~first_update_paths
      /\ entry \in 1..Len(disk) /\ disk[entry].path = tail /\ size[tail] \in 0..MaxSize
      /\ entry \in mapped
  BY <1>1, OwnEntry DEF TInv
<1>4. /\ disk' \in Seq(Entry) /\ Len(disk') = Len(disk) /\ disk'[entry].path = tail
      /\ opened' \in BOOLEAN /\ silent' \in BOOLEAN /\ fpos' \in 0..MaxSize
  <2>1. CASE opened \/ tail \in exists
    <3>1. /\ disk' \in Seq(Entry) /\ Len(disk') = Len(disk)
          /\ disk'[entry] = [path |-> disk[entry].path, pos |-> size[tail], inode |-> tail]
      BY <1>1, <2>1 DEF Written, OneLineDiffers
    <3>2. opened' = TRUE
      BY <2>1 DEF Notify
    <3> QED BY <1>1, <1>3, <2>1, <3>1, <3>2
  <2>2. CASE ~(opened \/ tail \in exists)
    BY <1>1, <1>3, <2>2 DEF TypeOK
  <2> QED BY <2>1, <2>2
<1>5. HistoryType'
  <2>1. CASE opened \/ tail \in exists
    BY <1>1, <2>1, ReadLines DEF HistoryType
  <2>2. CASE ~(opened \/ tail \in exists)
    BY <1>1, <1>3, <2>2 DEF TypeOK, HistoryType
  <2> QED BY <2>1, <2>2
<1>6. FileType' /\ WatcherType'
  <2>1. DOMAIN disk' = DOMAIN disk
    BY <1>3, <1>4 DEF TypeOK
  <2> QED BY <1>2, <1>3, <1>4, <2>1 DEF TypeOK, FileType, WatcherType
<1>7. WorldType' /\ QueueType' /\ PointType'
  BY <1>2, <1>3 DEF TypeOK, WorldType, QueueType, PointType
<1>8. Shapes' /\ Mapped'
  BY <1>1, <1>2, <1>3, <1>4 DEF Shapes, Mapped, TInv, running
<1> QED BY <1>5, <1>6, <1>7, <1>8, TypeParts DEF TInv

\* The end of the process.
LEMMA EndTypes == ASSUME TInv, Crash \/ Stop PROVE TInv'
<1>1. /\ pc' = "down" /\ kept' = <<>> /\ mapped' = {} /\ first_update_paths' = TRUE
      /\ paths' = <<>> /\ tail' = NoPath /\ fresh' = FALSE /\ opened' = FALSE /\ fpos' = 0
      /\ silent' = FALSE /\ refreshed' = FALSE /\ crashes' = crashes + 1 /\ crashes < MaxCrashes
      /\ now' = now /\ exists' = exists /\ size' = size
  BY DEF Crash, Stop, forget, files
<1>2. TypeOK
  BY DEF TInv
<1>3. disk' \in Seq(Entry) /\ HistoryType'
  <2>1. CASE Crash
    BY <1>2, <2>1 DEF Crash, TypeOK, HistoryType
  <2>2. CASE Stop /\ ~opened
    BY <1>2, <2>2, EndedLine DEF TypeOK, HistoryType
  <2>3. CASE Stop /\ opened
    <3>1. Written(entry, disk[entry].inode, size[tail]) /\ tail # NoPath /\ read(fpos)
      BY <2>3, EndedLine
    <3>2. fpos \in Nat
      BY <1>2, BoundsAssumption DEF TypeOK
    <3>3. disk' \in Seq(Entry)
      BY <3>1 DEF Written, OneLineDiffers
    <3> QED BY <3>1, <3>2, <3>3, ReadLines DEF HistoryType
  <2> QED BY <2>1, <2>2, <2>3
<1>4. WorldType' /\ FileType' /\ QueueType' /\ PointType' /\ WatcherType'
  <2>1. crashes + 1 \in 0..MaxCrashes /\ 0 \in 0..MaxSize
    BY <1>1, <1>2, BoundsAssumption DEF TypeOK
  <2>2. <<>> \in Seq(Path) /\ <<>> \in Seq(Entry) /\ Len(<<>>) <= PathQueueMaxSize
    BY BoundsAssumption
  <2>3. WorldType' /\ PointType'
    BY <1>1, <1>2, <2>1 DEF TypeOK, WorldType, PointType
  <2>4. FileType' /\ QueueType'
    BY <1>1, <1>3, <2>2 DEF FileType, QueueType
  <2>5. WatcherType'
    BY <1>1, <2>1 DEF WatcherType
  <2> QED BY <2>3, <2>4, <2>5
<1>5. Shapes' /\ Mapped'
  <2>1. Len(<<>>) = 0
    OBVIOUS
  <2> QED BY <1>1, <2>1 DEF Shapes, Mapped, running
<1> QED BY <1>3, <1>4, <1>5, TypeParts DEF TInv

\* What compact keeps: the last line that is watched, if there is one.
LEMMA Survivor ==
    ASSUME TypeOK
    PROVE  /\ watched = {} => survivor = <<>>
           /\ watched # {} => \E e \in watched : /\ survivor = <<disk[e]>>
                                                /\ \A k \in watched : k <= e
           /\ survivor \in Seq(Entry) /\ Len(survivor) <= 1
           /\ \A k \in 1..Len(survivor) : survivor[k].pos # UNWATCHED_POSITION
<1>1. /\ disk \in Seq(Entry) /\ Len(disk) \in Nat /\ DOMAIN disk = 1..Len(disk)
  BY DEF TypeOK
<1>2. CASE watched = {}
  BY <1>2 DEF survivor
<1>3. CASE watched # {}
  <2>1. watched \in SUBSET (0..Len(disk))
    <3>1. \A k \in 1..Len(disk) : k \in 0..Len(disk)
      BY <1>1
    <3> QED BY <1>1, <3>1 DEF watched
  <2>2. PICK e \in watched : e = Max(watched) /\ \A k \in watched : k <= e
    BY <1>1, <1>3, <2>1, MaxIsLast
  <2>3. survivor = <<disk[e]>> /\ disk[e] \in Entry /\ disk[e].pos # UNWATCHED_POSITION
    <3>1. survivor = <<disk[e]>>
      BY <1>3, <2>2 DEF survivor
    <3>2. disk[e] \in Entry /\ disk[e].pos # UNWATCHED_POSITION
      BY <1>1 DEF watched
    <3> QED BY <3>1, <3>2
  <2> QED BY <1>3, <2>2, <2>3
<1> QED BY <1>2, <1>3

\* compact and parse.
LEMMA RestartTypes == ASSUME TInv, Compact \/ Rewrite PROVE TInv'
<1>1. /\ now' = now /\ exists' = exists /\ size' = size
      /\ first_update_paths' = first_update_paths /\ paths' = paths
      /\ tail' = tail /\ entry' = entry /\ fresh' = fresh /\ opened' = opened /\ fpos' = fpos
      /\ silent' = silent /\ refreshed' = refreshed /\ crashes' = crashes /\ got' = got
      /\ twice' = twice
  BY DEF Compact, Rewrite, files, task, watcher
<1>2. TypeOK /\ ~running /\ first_update_paths /\ mapped = {} /\ tail = NoPath /\ ~opened /\ ~refreshed
  BY DEF TInv, Compact, Rewrite, Shapes, running
<1>3. WorldType' /\ QueueType' /\ HistoryType'
  BY <1>1, <1>2 DEF TypeOK, WorldType, QueueType, HistoryType
<1>4. WatcherType'
  BY <1>1, <1>2 DEF TypeOK, WatcherType
<1>5. CASE Compact
  <2>1. kept' = survivor /\ disk' = <<>> /\ pc' = "rewrite" /\ mapped' = mapped
    BY <1>5 DEF Compact
  <2>2. FileType' /\ PointType'
    BY <1>2, <2>1, Survivor DEF FileType, PointType
  <2>3. Shapes'
    BY <1>1, <1>2, <2>1 DEF TInv, Shapes, running
  <2>4. Mapped'
    BY <1>1, <1>2, <2>1, Survivor DEF Mapped, running
  <2> QED BY <1>3, <1>4, <2>2, <2>3, <2>4, TypeParts DEF TInv
<1>6. CASE Rewrite
  <2>1. disk' = kept /\ kept' = <<>> /\ mapped' = DOMAIN kept /\ pc' = "idle"
    BY <1>6 DEF Rewrite
  <2>2. kept \in Seq(Entry) /\ DOMAIN kept = 1..Len(kept) /\ <<>> \in Seq(Entry) /\ Len(<<>>) = 0
    BY <1>2 DEF TypeOK
  <2>3. FileType' /\ PointType'
    BY <2>1, <2>2 DEF FileType, PointType
  <2>4. Shapes'
    BY <1>1, <1>2, <2>1 DEF TInv, Shapes, running
  <2>5. watched' = DOMAIN kept
    BY <2>1, <2>2 DEF watched, TInv, Mapped
  <2>6. Mapped'
    BY <1>1, <1>2, <2>1, <2>2, <2>5 DEF Mapped, TInv, running
  <2> QED BY <1>3, <1>4, <2>3, <2>4, <2>6, TypeParts DEF TInv
<1> QED BY <1>5, <1>6

\* The files, the time and the silence.
LEMMA OutsideTypes ==
    ASSUME TInv, Write \/ Delete \/ NextPeriod \/ GoSilent \/ UNCHANGED vars PROVE TInv'
<1>1. /\ disk' = disk /\ kept' = kept /\ mapped' = mapped /\ pc' = pc
      /\ first_update_paths' = first_update_paths /\ paths' = paths
      /\ tail' = tail /\ entry' = entry /\ fresh' = fresh /\ opened' = opened /\ fpos' = fpos
      /\ crashes' = crashes /\ got' = got /\ twice' = twice
  BY DEF Write, Delete, NextPeriod, GoSilent, vars, posfile, task, watcher
<1>2. TypeOK
  BY DEF TInv
<1>3. WorldType'
  <2>1. CASE Write
    <3>1. size[now] \in 0..MaxSize /\ size[now] < MaxSize /\ now \in Path
      BY <1>2, <2>1 DEF Write, TypeOK
    <3>2. size[now] + 1 \in 0..MaxSize
      BY <3>1, BoundsAssumption
    <3> QED BY <1>2, <2>1, <3>1, <3>2 DEF Write, TypeOK, WorldType
  <2>2. CASE Delete \/ GoSilent \/ UNCHANGED vars
    BY <1>2, <2>2 DEF Delete, GoSilent, vars, files, TypeOK, WorldType
  <2>3. CASE NextPeriod
    <3>1. now + 1 \in Path
      BY <1>2, <2>3, BoundsAssumption DEF NextPeriod, TypeOK, Path
    <3> QED BY <1>2, <2>3, <3>1 DEF NextPeriod, files, TypeOK, WorldType
  <2> QED BY <2>1, <2>2, <2>3
<1>4. silent' \in BOOLEAN
  BY <1>2 DEF Write, Delete, NextPeriod, GoSilent, vars, watcher, TypeOK
<1>5. FileType' /\ QueueType' /\ PointType' /\ WatcherType' /\ HistoryType'
  BY <1>1, <1>2, <1>4 DEF TypeOK, FileType, QueueType, PointType, WatcherType, HistoryType
<1>6. refreshed' => refreshed
  BY DEF Write, Delete, NextPeriod, GoSilent, vars
<1>7. Shapes' /\ Mapped'
  BY <1>1, <1>6 DEF TInv, Shapes, Mapped, running, watched
<1> QED BY <1>3, <1>5, <1>7, TypeParts DEF TInv

\* Every step keeps the state well typed.
LEMMA NextTypes == TInv /\ [Next]_vars => TInv'
BY RefreshTypes, StopWatcherTypes, StartWatcherTypes, NotifyTypes, EndTypes, RestartTypes,
   OutsideTypes DEF Next

\* With every fault, a kill while compact runs included, the state is well typed:
\* the queue is within its limit, it is not empty when a watcher is started, and
\* the entry of a watcher is in the file (Task, PositionFile, Manager).
THEOREM TypeCorrect == Spec => []TypeOK
<1>1. TInv => TypeOK
  BY DEF TInv
<1> QED BY <1>1, InitTypes, NextTypes, PTL DEF Spec
-----------------------------------------------------------------------------
\* Nothing is queued or recorded that is yet to come.
Past ==
    /\ \A k \in 1..Len(paths) : paths[k] <= now
    /\ \A k \in 1..Len(disk) : disk[k].path <= now
    /\ \A k \in 1..Len(kept) : kept[k].path <= now

\* The lines that are watched are in the order of time, and end with the path
\* that is being collected.
Sorted ==
    /\ \A j, k \in watched : j < k => disk[j].path < disk[k].path
    /\ paths # <<>> => \A k \in watched : disk[k].path <= paths[1]
    /\ pc = "idle" /\ paths # <<>> => \E k \in watched : disk[k].path = paths[1]
    /\ pc = "idle" /\ tail # NoPath => tail = paths[1]
    /\ pc = "stop" => tail # paths[1]

QInv == QueueInOrder /\ Past /\ Sorted

\* Paths are positive numbers.
LEMMA PathIsNat == Path \subseteq Nat /\ NoPath \notin Path
BY BoundsAssumption DEF Path, NoPath

\* A queue of paths that have come, in the order of time.
Chain(q) ==
    /\ \A a, b \in 1..Len(q) : a < b => q[a] < q[b]
    /\ \A k \in 1..Len(q) : q[k] <= now

\* The paths of an update are in order, and none comes before the first one of
\* the queue it starts from.
LEMMA MovedInOrder ==
    ASSUME TypeOK, NEW q \in Seq(Path), Chain(q), NEW m \in 0..Len(q), Moved(q, m),
           paths' \in Seq(Path), Len(paths') >= 1
    PROVE  /\ \A a, b \in 1..Len(paths') : a < b => paths'[a] < paths'[b]
           /\ \A k \in 1..Len(paths') : paths'[k] <= now
           /\ Len(q) >= 1 => \A k \in 1..Len(paths') : q[1] <= paths'[k]
<1>0. now \in Nat /\ Len(q) \in Nat /\ Len(paths') \in Nat /\ \A k \in 1..Len(q) : q[k] \in Nat
  <2>1. now \in Path /\ Len(q) \in Nat /\ Len(paths') \in Nat /\ \A k \in 1..Len(q) : q[k] \in Path
    BY DEF TypeOK
  <2> QED BY <2>1, PathIsNat
<1>1. ASSUME NEW k \in 1..Len(paths')
      PROVE  \/ k + m \in 1..Len(q) /\ k <= Len(q) - m /\ paths'[k] = q[k + m]
             \/ /\ k = Len(q) - m + 1 /\ paths'[k] = now
                /\ m < Len(q) => q[Len(q)] # now
  <2>1. CASE k <= Len(q) - m
    <3>1. k \in 1..(Len(q) - m) /\ k + m \in 1..Len(q)
      BY <1>0, <2>1
    <3> QED BY <2>1, <3>1 DEF Moved
  <2>2. CASE ~(k <= Len(q) - m)
    BY <2>2 DEF Moved
  <2> QED BY <2>1, <2>2
<1>2. ASSUME NEW k \in 1..Len(q) PROVE q[k] <= now /\ q[1] <= q[k] /\ q[k] <= q[Len(q)]
  <2>1. 1 \in 1..Len(q) /\ Len(q) \in 1..Len(q) /\ (k = 1 \/ 1 < k) /\ (k = Len(q) \/ k < Len(q))
    BY <1>0
  <2>2. q[1] \in Nat /\ q[k] \in Nat /\ q[Len(q)] \in Nat
    BY <1>0, <2>1
  <2>3. k = 1 \/ q[1] < q[k]
    BY <2>1 DEF Chain
  <2>4. k = Len(q) \/ q[k] < q[Len(q)]
    BY <2>1 DEF Chain
  <2> QED BY <1>0, <2>2, <2>3, <2>4 DEF Chain
<1>3. ASSUME NEW a \in 1..Len(paths'), NEW b \in 1..Len(paths'), a < b
      PROVE  paths'[a] < paths'[b]
  <2>1. a <= Len(q) - m /\ a + m \in 1..Len(q) /\ paths'[a] = q[a + m]
    BY <1>0, <1>1, <1>3
  <2>2. CASE b + m \in 1..Len(q) /\ paths'[b] = q[b + m]
    <3>1. a + m < b + m
      BY <1>0, <1>3
    <3> QED BY <2>1, <2>2, <3>1 DEF Chain
  <2>3. CASE paths'[b] = now /\ (m < Len(q) => q[Len(q)] # now)
    <3>1. m < Len(q) /\ Len(q) \in 1..Len(q)
      BY <1>0, <2>1
    <3>2. q[Len(q)] < now
      BY <1>0, <1>2, <2>3, <3>1
    <3>3. q[a + m] <= q[Len(q)] /\ q[a + m] \in Nat /\ q[Len(q)] \in Nat
      BY <1>0, <1>2, <2>1, <3>1
    <3> QED BY <1>0, <2>1, <2>3, <3>2, <3>3
  <2> QED BY <1>1, <2>2, <2>3
<1>4. ASSUME NEW k \in 1..Len(paths') PROVE paths'[k] <= now
  BY <1>0, <1>1, <1>2
<1>5. ASSUME NEW k \in 1..Len(paths'), Len(q) >= 1 PROVE q[1] <= paths'[k]
  <2>1. 1 \in 1..Len(q)
    BY <1>0, <1>5
  <2> QED BY <1>1, <1>2, <2>1
<1> QED BY <1>3, <1>4, <1>5

\* The queue that the first update finds is in order.
LEMMA FirstInOrder ==
    ASSUME TInv, QInv, first_update_paths, lastPaths # {}, NEW q \in Seq(Path), FirstQueue(q)
    PROVE  Chain(q)
<1>1. \A p \in newer : Max(lastPaths) < p /\ p < now /\ p \in Path
  BY DEF newer, globed, TInv, TypeOK
<1>2. Max(lastPaths) \in Path /\ Max(lastPaths) <= now
  <2>1. PICK k \in mapped : disk[k].path = Max(lastPaths)
    BY LastPath DEF TInv
  <2>2. k \in 1..Len(disk)
    BY DEF TInv, TypeOK
  <2> QED BY <2>1, <2>2, LastPath DEF QInv, Past, TInv
<1>3. now \in Nat /\ Len(q) \in Nat
  BY DEF TInv, TypeOK, Path
<1>4. \A k \in 1..Len(q) : k = 1 \/ k \in 2..Len(q)
  BY <1>3
<1>5. ASSUME NEW k \in 1..Len(q) PROVE q[k] <= now
  BY <1>1, <1>2, <1>3, <1>4 DEF FirstQueue, Path
<1>6. ASSUME NEW a \in 1..Len(q), NEW b \in 1..Len(q), a < b PROVE q[a] < q[b]
  <2>1. b \in 2..Len(q)
    BY <1>3, <1>6
  <2>2. CASE a = 1
    BY <1>1, <2>1, <2>2 DEF FirstQueue
  <2>3. CASE a \in 2..Len(q)
    BY <1>6, <2>1, <2>3 DEF FirstQueue
  <2> QED BY <1>4, <2>2, <2>3
<1> QED BY <1>5, <1>6 DEF Chain

\* An update keeps the queue in order, and the tail watcher and the lines that
\* are watched before it.
LEMMA RefreshOrder ==
    ASSUME TInv, QInv, Refresh
    PROVE  /\ \A a, b \in 1..Len(paths') : a < b => paths'[a] < paths'[b]
           /\ \A k \in 1..Len(paths') : paths'[k] <= now
           /\ tail # NoPath => tail <= paths'[1]
           /\ \A k \in watched : disk[k].path <= paths'[1]
           /\ paths # <<>> => paths[1] <= paths'[1]
<1>0. /\ paths' \in Seq(Path) /\ Len(paths') >= 1 /\ 1 \in 1..Len(paths')
      /\ paths \in Seq(Path) /\ TypeOK /\ mapped = watched /\ Len(paths) \in Nat
  <2>1. paths' \in Seq(Path) /\ Len(paths') >= 1
    BY Refreshed
  <2>2. 1 \in 1..Len(paths') /\ pc = "idle"
    BY <2>1 DEF Refresh
  <2> QED BY <2>1, <2>2 DEF TInv, TypeOK, Mapped, running
<1>1. paths'[1] \in Nat /\ \A k \in watched : disk[k].path \in Nat
  <2>1. \A k \in watched : disk[k] \in Entry
    BY <1>0 DEF TypeOK, watched
  <2>2. paths'[1] \in Path /\ \A k \in watched : disk[k].path \in Path
    BY <1>0, <2>1 DEF Entry
  <2> QED BY <2>2, PathIsNat
<1>2. CASE ~(first_update_paths /\ lastPaths # {})
  <2>1. PICK m \in 0..Len(paths) : Moved(paths, m)
    BY <1>2, Refreshed
  <2>2. DOMAIN paths = 1..Len(paths)
    BY <1>0
  <2>3. Chain(paths)
    BY <2>2 DEF QInv, QueueInOrder, Past, Chain
  <2>4. /\ \A a, b \in 1..Len(paths') : a < b => paths'[a] < paths'[b]
        /\ \A k \in 1..Len(paths') : paths'[k] <= now
        /\ Len(paths) >= 1 => \A k \in 1..Len(paths') : paths[1] <= paths'[k]
    BY <1>0, <2>1, <2>3, MovedInOrder
  <2>5. CASE paths = <<>>
    <3>1. first_update_paths /\ tail = NoPath
      BY <2>5 DEF TInv, Shapes
    <3>2. watched = {}
      BY <1>0, <1>2, <3>1 DEF lastPaths
    <3> QED BY <2>4, <2>5, <3>1, <3>2
  <2>6. CASE paths # <<>>
    <3>1. Len(paths) >= 1 /\ paths[1] \in Nat
      <4>1. Len(paths) >= 1 /\ paths[1] \in Path
        BY <1>0, <2>6
      <4> QED BY <4>1, PathIsNat
    <3>2. paths[1] <= paths'[1]
      BY <1>0, <2>4, <3>1
    <3>3. \A k \in watched : disk[k].path <= paths[1]
      BY <2>6 DEF QInv, Sorted
    <3>4. tail # NoPath => tail <= paths[1] /\ tail \in Nat
      BY <2>6 DEF QInv, QueueInOrder, TInv, TypeOK, Path
    <3> QED BY <1>1, <2>4, <3>1, <3>2, <3>3, <3>4
  <2> QED BY <2>5, <2>6
<1>3. CASE first_update_paths /\ lastPaths # {}
  <2>1. PICK q \in Seq(Path) : FirstQueue(q) /\ \E m \in 0..Len(q) : Moved(q, m)
    BY <1>3, Refreshed
  <2>2. PICK m \in 0..Len(q) : Moved(q, m)
    BY <2>1
  <2>3. Chain(q)
    BY <1>3, <2>1, FirstInOrder
  <2>4. /\ \A a, b \in 1..Len(paths') : a < b => paths'[a] < paths'[b]
        /\ \A k \in 1..Len(paths') : paths'[k] <= now
        /\ Len(q) >= 1 => \A k \in 1..Len(paths') : q[1] <= paths'[k]
    BY <1>0, <2>2, <2>3, MovedInOrder
  <2>5. q[1] <= paths'[1] /\ q[1] = Max(lastPaths)
    BY <1>0, <2>1, <2>4 DEF FirstQueue
  <2>6. /\ Max(lastPaths) \in Nat /\ \A k \in watched : disk[k].path <= Max(lastPaths)
    BY <1>0, <1>3, LastPath DEF Path
  <2>7. tail = NoPath /\ paths = <<>>
    BY <1>3 DEF TInv, Shapes
  <2> QED BY <1>1, <2>4, <2>5, <2>6, <2>7
<1> QED BY <1>2, <1>3

\* The first queue is in order.
LEMMA InitOrder == Init => QInv
<1> SUFFICES ASSUME Init PROVE QInv
  OBVIOUS
<1>1. TInv
  BY InitTypes
<1> DEFINE l == [path |-> 1, pos |-> 0, inode |-> INO_NONE]
<1>2. /\ l.path = 1 /\ l.pos = 0 /\ disk = <<l>> /\ Len(disk) = 1 /\ disk[1] = l
      /\ paths = <<1>> /\ Len(paths) = 1 /\ paths[1] = 1 /\ Len(kept) = 0
      /\ paths # <<>> /\ DOMAIN paths = 1..1 /\ DOMAIN disk = 1..1
  BY DEF Init
<1> HIDE DEF l
<1>3. watched = {1}
  BY <1>2 DEF watched, UNWATCHED_POSITION
<1>4. QueueInOrder
  BY <1>2 DEF Init, QueueInOrder
<1>5. Past
  BY <1>2 DEF Init, Past
<1>6. Sorted
  BY <1>2, <1>3 DEF Init, Sorted
<1> QED BY <1>4, <1>5, <1>6 DEF QInv

\* updateTaskPaths.
LEMMA RefreshQueue == ASSUME TInv, QInv, Refresh PROVE QInv'
<1>1. /\ paths' \in Seq(Path) /\ Len(paths') >= 1 /\ paths' # <<>> /\ DOMAIN paths' = 1..Len(paths')
  BY Refreshed
<1>2. /\ \A a, b \in 1..Len(paths') : a < b => paths'[a] < paths'[b]
      /\ \A k \in 1..Len(paths') : paths'[k] <= now
      /\ tail # NoPath => tail <= paths'[1]
      /\ \A k \in watched : disk[k].path <= paths'[1]
  BY RefreshOrder
<1>3. /\ now' = now /\ disk' = disk /\ kept' = kept /\ tail' = tail
      /\ pc' = IF tail = NoPath THEN "start"
               ELSE IF paths'[1] # tail THEN "stop" ELSE "idle"
  BY DEF Refresh, posfile, watcher
<1>4. watched' = watched
  BY <1>3 DEF watched
<1>5. QueueInOrder'
  BY <1>1, <1>2, <1>3 DEF QueueInOrder
<1>6. Past'
  BY <1>2, <1>3 DEF QInv, Past
<1>7. Sorted'
  <2>1. pc' = "idle" => /\ tail # NoPath /\ tail = paths'[1]
                        /\ entry \in watched /\ disk[entry].path = paths'[1]
    <3> SUFFICES ASSUME pc' = "idle"
                 PROVE  /\ tail # NoPath /\ tail = paths'[1]
                        /\ entry \in watched /\ disk[entry].path = paths'[1]
      OBVIOUS
    <3>1. tail # NoPath /\ tail = paths'[1]
      BY <1>3
    <3> QED BY <3>1, OwnEntry
  <2>2. pc' = "stop" => tail # paths'[1]
    BY <1>3
  <2>3. \A j, k \in watched : j < k => disk[j].path < disk[k].path
    BY DEF QInv, Sorted
  <2> QED BY <1>2, <1>3, <1>4, <2>1, <2>2, <2>3 DEF Sorted
<1> QED BY <1>5, <1>6, <1>7 DEF QInv

\* A line that is written to in place stays where it is.
LEMMA WrittenOrder ==
    ASSUME TInv, QInv, NEW e \in 1..Len(disk), NEW ino, NEW pos \in Int, Written(e, ino, pos),
           e \in watched
    PROVE  /\ \A k \in 1..Len(disk') : disk'[k].path <= now
           /\ \A j, k \in watched' : j < k => disk'[j].path < disk'[k].path
           /\ paths # <<>> => \A k \in watched' : disk'[k].path <= paths[1]
           /\ watched' \subseteq watched
           /\ \A k \in watched : disk'[k].path = disk[k].path
<1>1. /\ disk \in Seq(Entry) /\ watched \subseteq 1..Len(disk)
  BY DEF TInv, TypeOK, watched
<1>2. /\ \A k \in 1..Len(disk) : disk'[k].path = disk[k].path
      /\ watched' \subseteq watched
  BY <1>1, WrittenWatched
<1>3. Len(disk') = Len(disk)
  BY DEF Written, OneLineDiffers
<1> QED BY <1>1, <1>2, <1>3 DEF QInv, Past, Sorted

\* stopWatchers.
LEMMA StopWatcherQueue == ASSUME TInv, QInv, StopWatcher PROVE QInv'
<1>1. /\ pc = "stop" /\ tail # NoPath /\ Written(entry, disk[entry].inode, UNWATCHED_POSITION)
  BY StoppedLine
<1>2. pc' = "start" /\ tail' = NoPath /\ now' = now /\ kept' = kept /\ paths' = paths
  BY DEF StopWatcher, task
<1>3. entry \in 1..Len(disk) /\ entry \in watched /\ UNWATCHED_POSITION \in Int
  BY <1>1, OwnEntry DEF UNWATCHED_POSITION
<1>4. /\ \A k \in 1..Len(disk') : disk'[k].path <= now
      /\ \A j, k \in watched' : j < k => disk'[j].path < disk'[k].path
      /\ paths # <<>> => \A k \in watched' : disk'[k].path <= paths[1]
  BY <1>1, <1>3, WrittenOrder
<1>5. QueueInOrder' /\ Past' /\ Sorted'
  BY <1>2, <1>4 DEF QInv, QueueInOrder, Past, Sorted
<1> QED BY <1>5 DEF QInv

\* onNotify.
LEMMA NotifyQueue == ASSUME TInv, QInv, Notify PROVE QInv'
<1>1. /\ pc = "idle" /\ tail # NoPath /\ watched' = watched
      /\ ~(opened \/ tail \in exists) => disk' = disk
      /\ opened \/ tail \in exists => Written(entry, tail, size[tail])
  BY NotifiedLine
<1>2. pc' = pc /\ tail' = tail /\ now' = now /\ kept' = kept /\ paths' = paths
  BY DEF Notify, task
<1>3. entry \in 1..Len(disk) /\ entry \in watched /\ size[tail] \in Int
  BY <1>1, OwnEntry
<1>4. /\ \A k \in 1..Len(disk') : disk'[k].path <= now
      /\ \A j, k \in watched' : j < k => disk'[j].path < disk'[k].path
      /\ paths # <<>> => \A k \in watched' : disk'[k].path <= paths[1]
      /\ \A k \in watched : disk'[k].path = disk[k].path
  <2>1. CASE opened \/ tail \in exists
    BY <1>1, <1>3, <2>1, WrittenOrder
  <2>2. CASE ~(opened \/ tail \in exists)
    BY <1>1, <2>2 DEF QInv, Past, Sorted
  <2> QED BY <2>1, <2>2
<1>5. QueueInOrder' /\ Past' /\ Sorted'
  BY <1>1, <1>2, <1>4 DEF QInv, QueueInOrder, Past, Sorted
<1> QED BY <1>5 DEF QInv

\* The end of the process: the position file keeps its order.
LEMMA EndQueue == ASSUME TInv, QInv, Crash \/ Stop PROVE QInv'
<1>1. pc' = "down" /\ kept' = <<>> /\ paths' = <<>> /\ tail' = NoPath /\ now' = now
  BY DEF Crash, Stop, forget, files
<1>2. /\ \A k \in 1..Len(disk') : disk'[k].path <= now
      /\ \A j, k \in watched' : j < k => disk'[j].path < disk'[k].path
  <2>1. CASE disk' = disk
    <3>1. watched' = watched
      BY <2>1 DEF watched
    <3> QED BY <2>1, <3>1 DEF QInv, Past, Sorted
  <2>2. CASE Stop /\ opened
    <3>1. Written(entry, disk[entry].inode, size[tail]) /\ tail # NoPath
      BY <2>2, EndedLine
    <3>2. entry \in 1..Len(disk) /\ entry \in watched /\ size[tail] \in Int
      BY <3>1, OwnEntry
    <3> QED BY <3>1, <3>2, WrittenOrder
  <2> QED BY <2>1, <2>2, EndedLine DEF Crash
<1>3. DOMAIN <<>> = {} /\ Len(<<>>) = 0
  OBVIOUS
<1>4. QueueInOrder' /\ Past' /\ Sorted'
  BY <1>1, <1>2, <1>3 DEF QueueInOrder, Past, Sorted
<1> QED BY <1>4 DEF QInv

\* compact and parse: one line at most.
LEMMA RestartQueue == ASSUME TInv, QInv, Compact \/ Rewrite PROVE QInv'
<1>1. now' = now /\ paths' = paths /\ tail' = tail
  BY DEF Compact, Rewrite, task, watcher
<1>2. paths = <<>> /\ tail = NoPath /\ TypeOK
  BY DEF Compact, Rewrite, TInv, Shapes, running
<1>3. Len(<<>>) = 0 /\ DOMAIN <<>> = {}
  OBVIOUS
<1>4. QueueInOrder'
  BY <1>1, <1>2, <1>3 DEF QueueInOrder
<1>5. CASE Compact
  <2>1. kept' = survivor /\ disk' = <<>> /\ pc' = "rewrite"
    BY <1>5 DEF Compact
  <2>2. \A k \in 1..Len(survivor) : survivor[k].path <= now
    <3>1. CASE watched = {}
      BY <1>2, <1>3, <3>1, Survivor
    <3>2. CASE watched # {}
      <4>1. PICK e \in watched : survivor = <<disk[e]>>
        BY <1>2, <3>2, Survivor
      <4>2. disk[e].path <= now
        <5>1. e \in 1..Len(disk)
          BY <1>2 DEF watched, TypeOK
        <5> QED BY <5>1 DEF QInv, Past
      <4> QED BY <4>1, <4>2
    <3> QED BY <3>1, <3>2
  <2>3. watched' = {}
    BY <1>3, <2>1 DEF watched
  <2> QED BY <1>1, <1>2, <1>3, <1>4, <2>1, <2>2, <2>3 DEF QInv, Past, Sorted
<1>6. CASE Rewrite
  <2>1. disk' = kept /\ kept' = <<>> /\ pc' = "idle"
    BY <1>6 DEF Rewrite
  <2>2. Len(kept) \in Nat /\ Len(kept) <= 1 /\ DOMAIN kept = 1..Len(kept)
    BY <1>2 DEF TypeOK, TInv, Mapped
  <2>4. \A j, k \in watched' : ~(j < k)
    BY <2>1, <2>2 DEF watched
  <2> QED BY <1>1, <1>2, <1>3, <1>4, <2>1, <2>4 DEF QInv, Past, Sorted
<1> QED BY <1>5, <1>6

\* The files, the time and the silence.
LEMMA OutsideQueue ==
    ASSUME TInv, QInv, Write \/ Delete \/ NextPeriod \/ GoSilent \/ UNCHANGED vars PROVE QInv'
<1>1. disk' = disk /\ kept' = kept /\ pc' = pc /\ paths' = paths /\ tail' = tail
  BY DEF Write, Delete, NextPeriod, GoSilent, vars, posfile, task, watcher
<1>2. now \in Nat /\ now' \in Nat /\ now <= now'
  BY PathIsNat DEF Write, Delete, NextPeriod, GoSilent, vars, TInv, TypeOK
<1>3. watched' = watched
  BY <1>1 DEF watched
<1>4. Past'
  <2>1. /\ \A k \in 1..Len(paths) : paths[k] \in Path
        /\ \A k \in 1..Len(disk) : disk[k] \in Entry
        /\ \A k \in 1..Len(kept) : kept[k] \in Entry
    BY DEF TInv, TypeOK
  <2>2. /\ \A k \in 1..Len(paths) : paths[k] \in Nat
        /\ \A k \in 1..Len(disk) : disk[k].path \in Nat
        /\ \A k \in 1..Len(kept) : kept[k].path \in Nat
    BY <2>1, PathIsNat DEF Entry
  <2> QED BY <1>1, <1>2, <2>2 DEF QInv, Past
<1>5. QueueInOrder' /\ Sorted'
  BY <1>1, <1>3 DEF QInv, QueueInOrder, Sorted
<1> QED BY <1>4, <1>5 DEF QInv

\* startWatchers: a new line has the largest path, and is the last one.
LEMMA StartWatcherQueue == ASSUME TInv, QInv, StartWatcher PROVE QInv'
<1>1. PICK e \in 1..Len(disk') :
         /\ disk' \in Seq(Entry)
         /\ StartedOld(e) \/ StartedNew(e)
         /\ \A k \in 1..Len(disk) : k # e => disk'[k] = disk[k]
         /\ \/ tail' = paths[1]
            \/ UNCHANGED watcher
  BY StartedLine
<1>2. pc = "start" /\ pc' = "idle" /\ now' = now /\ kept' = kept /\ paths' = paths
  BY DEF StartWatcher, task
<1>3. TypeOK /\ running /\ paths # <<>> /\ tail = NoPath
  BY <1>2 DEF TInv, Shapes, running
<1>4. paths[1] \in Path /\ 1 \in 1..Len(paths)
  <2>1. paths \in Seq(Path)
    BY <1>3 DEF TypeOK
  <2> QED BY <1>3, <2>1
<1>5. /\ watched' = watched \cup {e} /\ disk'[e].path = paths[1]
      /\ \A k \in 1..Len(disk') : k \in 1..Len(disk) \/ k = e
      /\ \A k \in watched : disk'[k].path = disk[k].path
      /\ e \in watched \/ (e = Len(disk) + 1 /\ \A k \in watched : disk[k].path # paths[1])
  BY <1>1, <1>3, <1>4, StartedWatched
<1>6. /\ \A j, k \in watched : j < k => disk[j].path < disk[k].path
      /\ \A k \in watched : disk[k].path <= paths[1]
      /\ \A k \in 1..Len(disk) : disk[k].path <= now
      /\ \A k \in 1..Len(paths) : paths[k] <= now
  BY <1>3 DEF QInv, Sorted, Past
<1>7. /\ watched \subseteq 1..Len(disk) /\ Len(disk) \in Nat
      /\ paths[1] \in Nat /\ \A k \in watched : disk[k].path \in Nat
  <2>1. watched \subseteq 1..Len(disk) /\ Len(disk) \in Nat /\ \A k \in watched : disk[k] \in Entry
    BY <1>3 DEF TypeOK, watched
  <2> QED BY <1>4, <2>1, PathIsNat DEF Entry
<1>8. ASSUME NEW j \in watched', NEW k \in watched', j < k PROVE disk'[j].path < disk'[k].path
  <2>1. CASE e \in watched
    BY <1>5, <1>6, <1>8, <2>1
  <2>2. CASE e = Len(disk) + 1 /\ \A i \in watched : disk[i].path # paths[1]
    <3>1. j \in watched
      BY <1>5, <1>7, <1>8, <2>2
    <3>2. CASE k = e
      <4>1. disk[j].path < paths[1]
        BY <1>6, <1>7, <2>2, <3>1
      <4> QED BY <1>5, <3>1, <3>2, <4>1
    <3>3. CASE k \in watched
      BY <1>5, <1>6, <1>8, <3>1, <3>3
    <3> QED BY <1>5, <3>2, <3>3
  <2> QED BY <1>5, <2>1, <2>2
<1>9. \A k \in watched' : disk'[k].path <= paths[1]
  BY <1>5, <1>6, <1>7
<1>10. \A k \in 1..Len(disk') : disk'[k].path <= now
  BY <1>1, <1>4, <1>5, <1>6
<1>11. tail' = paths[1] \/ tail' = NoPath
  BY <1>1, <1>3 DEF watcher
<1>12. QueueInOrder'
  BY <1>2, <1>7, <1>11 DEF QInv, QueueInOrder
<1>13. Past'
  BY <1>2, <1>10 DEF QInv, Past
<1>14. Sorted'
  BY <1>2, <1>3, <1>5, <1>8, <1>9, <1>11 DEF Sorted
<1> QED BY <1>12, <1>13, <1>14 DEF QInv

\* Every step keeps the order.
LEMMA NextQueue == TInv /\ QInv /\ [Next]_vars => QInv'
BY RefreshQueue, StopWatcherQueue, StartWatcherQueue, NotifyQueue, EndQueue, RestartQueue,
   OutsideQueue DEF Next

\* With every fault, the queue is in the order of time and the tail watcher is
\* never ahead of it, also when the queue is filled from the position file and
\* from glob, up to any limit (Task::addPath, Manager::updateTaskPaths).
THEOREM QueueInOrderAlways == Spec => []QueueInOrder
<1>1. QInv => QueueInOrder
  BY DEF QInv
<1> QED BY <1>1, InitTypes, NextTypes, InitOrder, NextQueue, PTL DEF Spec
-----------------------------------------------------------------------------
\* The lines that a restart goes on from.
Lines == Range(kept) \cup {disk[k] : k \in watched}

\* Files that are not queued again.
Passed(p) ==
    IF paths # <<>> THEN p < paths[1] ELSE \E l \in Lines : p < l.path

\* What was handed over of a file is behind the position of its line, unless the
\* file is not queued again.
Held(p) ==
    \E l \in Lines : l.path = p /\ l.inode = p /\ \A n \in got[p] : n <= l.pos
Placed(p) == got[p] = {} \/ Passed(p) \/ Held(p)

\* A tail watcher that has opened its file goes on after what was handed over.
Reading ==
    opened => /\ fpos <= size[tail] /\ disk[entry].inode = tail
              /\ \A n \in got[tail] : n <= fpos

OInv ==
    /\ \A p \in Path : Placed(p)
    /\ \A l \in Lines : l.pos <= size[l.path]
    /\ Reading
    /\ NothingTwice

\* They are on disk, except between truncating the file and writing it again.
LEMMA LinesOf ==
    /\ TInv => /\ pc # "rewrite" => Lines = {disk[k] : k \in watched}
               /\ pc = "rewrite" => Lines = Range(kept)
               /\ \A l \in Lines : l \in Entry /\ l.path \in Nat /\ l.path \in Path /\ l.pos \in Nat
               /\ watched \subseteq 1..Len(disk)
    /\ TInv' => /\ pc' # "rewrite" => Lines' = {disk'[k] : k \in watched'}
                /\ pc' = "rewrite" => Lines' = Range(kept')
                /\ watched' \subseteq 1..Len(disk')
<1>1. Range(<<>>) = {}
  BY DEF Range
<1>2. ASSUME TInv
      PROVE  /\ pc # "rewrite" => Lines = {disk[k] : k \in watched}
             /\ pc = "rewrite" => Lines = Range(kept)
             /\ \A l \in Lines : l \in Entry /\ l.path \in Nat /\ l.path \in Path /\ l.pos \in Nat
             /\ watched \subseteq 1..Len(disk)
  <2>1. watched \subseteq 1..Len(disk)
    BY <1>2 DEF TInv, TypeOK, watched
  <2>2. pc # "rewrite" => Lines = {disk[k] : k \in watched}
    BY <1>1, <1>2 DEF TInv, Shapes, Lines
  <2>3. pc = "rewrite" => watched = {}
    BY <1>2 DEF TInv, Shapes, watched
  <2>4. pc = "rewrite" => Lines = Range(kept)
    BY <2>3 DEF Lines
  <2>5. \A l \in Lines : l \in Entry /\ l.pos # UNWATCHED_POSITION
    <3>1. \A k \in watched : disk[k] \in Entry /\ disk[k].pos # UNWATCHED_POSITION
      BY <1>2 DEF TInv, TypeOK, watched
    <3>2. \A k \in DOMAIN kept : kept[k] \in Entry /\ kept[k].pos # UNWATCHED_POSITION
      BY <1>2 DEF TInv, TypeOK, Mapped
    <3> QED BY <3>1, <3>2 DEF Lines, Range
  <2>6. \A l \in Lines : l.path \in Path /\ l.pos \in 0..MaxSize
    BY <2>5 DEF Entry
  <2>7. \A l \in Lines : l.path \in Nat /\ l.pos \in Nat
    <3>1. \A n \in 0..MaxSize : n \in Nat
      BY BoundsAssumption
    <3> QED BY <2>6, <3>1, PathIsNat
  <2> QED BY <2>1, <2>2, <2>4, <2>5, <2>6, <2>7
<1>3. ASSUME TInv'
      PROVE  /\ pc' # "rewrite" => Lines' = {disk'[k] : k \in watched'}
             /\ pc' = "rewrite" => Lines' = Range(kept')
             /\ watched' \subseteq 1..Len(disk')
  <2>1. watched' \subseteq 1..Len(disk')
    BY <1>3 DEF TInv, TypeOK, watched
  <2>2. pc' # "rewrite" => Lines' = {disk'[k] : k \in watched'}
    BY <1>1, <1>3 DEF TInv, Shapes, Lines
  <2>3. pc' = "rewrite" => watched' = {}
    BY <1>3 DEF TInv, Shapes, watched
  <2>4. pc' = "rewrite" => Lines' = Range(kept')
    BY <2>3 DEF Lines
  <2> QED BY <2>1, <2>2, <2>4
<1> QED BY <1>2, <1>3

\* Two lines that are watched have different paths.
LEMMA OneLine ==
    ASSUME TInv, QInv, NEW j \in watched, NEW k \in watched, disk[j].path = disk[k].path
    PROVE  j = k
<1>1. j \in Nat /\ k \in Nat
  BY DEF TInv, TypeOK, watched
<1>2. disk[j].path \in Nat
  <2>1. disk[j] \in Entry
    BY DEF TInv, TypeOK, watched
  <2> QED BY <2>1, PathIsNat DEF Entry
<1>3. ~(disk[j].path < disk[k].path) /\ ~(disk[k].path < disk[j].path)
  BY <1>2
<1> QED BY <1>1, <1>3 DEF QInv, Sorted

\* The first start: nothing was handed over.
LEMMA InitOnce == Init => OInv
<1> SUFFICES ASSUME Init PROVE OInv
  OBVIOUS
<1>1. TInv
  BY InitTypes
<1>2. \A p \in Path : Placed(p)
  BY DEF Init, Placed
<1>3. \A l \in Lines : l.pos = 0
  <2>1. Lines = {disk[k] : k \in watched} /\ watched \subseteq 1..Len(disk)
    BY <1>1, LinesOf DEF Init
  <2>2. \A k \in 1..Len(disk) : disk[k].pos = 0
    BY DEF Init
  <2> QED BY <2>1, <2>2
<1>4. \A l \in Lines : l.pos <= size[l.path]
  <2>1. \A l \in Lines : l.path \in Path
    BY <1>1, LinesOf
  <2> QED BY <1>3, <2>1 DEF Init
<1> QED BY <1>2, <1>4 DEF Init, OInv, Reading, NothingTwice

\* updateTaskPaths: a path that was passed stays behind the queue.
LEMMA RefreshOnce == ASSUME TInv, TInv', QInv, OInv, Refresh PROVE OInv'
<1>1. /\ pc = "idle" /\ kept' = kept /\ disk' = disk /\ got' = got /\ size' = size
      /\ tail' = tail /\ entry' = entry /\ opened' = opened /\ fpos' = fpos /\ twice' = twice
  BY DEF Refresh, files, posfile, watcher
<1>2. Lines' = Lines /\ watched' = watched
  BY <1>1 DEF Lines, watched
<1>3. paths' # <<>> /\ paths'[1] \in Nat /\ (paths # <<>> => paths[1] \in Nat)
  <2>1. paths' \in Seq(Path) /\ paths' # <<>> /\ paths \in Seq(Path)
    BY Refreshed DEF TInv, TypeOK
  <2>2. paths'[1] \in Path /\ (paths # <<>> => paths[1] \in Path)
    BY <2>1
  <2> QED BY <2>1, <2>2, PathIsNat
<1>4. /\ \A k \in watched : disk[k].path <= paths'[1]
      /\ paths # <<>> => paths[1] <= paths'[1]
  BY RefreshOrder
<1>5. \A l \in Lines : l.path <= paths'[1] /\ l.path \in Nat
  BY <1>1, <1>4, LinesOf
<1>6. ASSUME NEW p \in Path, Passed(p) PROVE Passed(p)'
  <2>1. p \in Nat
    BY PathIsNat
  <2>2. p < paths'[1]
    BY <1>3, <1>4, <1>5, <1>6, <2>1 DEF Passed
  <2> QED BY <1>3, <2>2 DEF Passed
<1>7. \A p \in Path : Held(p) => Held(p)'
  BY <1>1, <1>2 DEF Held
<1> QED BY <1>1, <1>2, <1>6, <1>7 DEF OInv, Placed, Reading, NothingTwice

\* The lines of other paths stay as they are, and those of their files too.
LEMMA OthersHeld ==
    ASSUME TInv, TInv', pc # "rewrite", pc' # "rewrite", NEW p \in Path, Held(p),
           got'[p] = got[p],
           \A k \in watched : disk[k].path = p => k \in watched' /\ disk'[k] = disk[k]
    PROVE  Held(p)'
<1>1. Lines = {disk[k] : k \in watched} /\ Lines' = {disk'[k] : k \in watched'}
  BY LinesOf
<1>2. PICK k \in watched : /\ disk[k].path = p /\ disk[k].inode = p
                           /\ \A n \in got[p] : n <= disk[k].pos
  BY <1>1 DEF Held
<1>3. disk'[k] \in Lines' /\ disk'[k] = disk[k]
  BY <1>1, <1>2
<1> QED BY <1>2, <1>3 DEF Held

\* What is read after the position of a file was not handed over before.
LEMMA ReadOnce ==
    ASSUME TInv, tail # NoPath, NEW from \in Nat, read(from), twice = {},
           \A n \in got[tail] : n <= from, from <= size[tail]
    PROVE  /\ twice' = {} /\ \A n \in got'[tail] : n <= size[tail]
           /\ \A p \in Path : p # tail => got'[p] = got[p]
<1>1. /\ got'[tail] = got[tail] \cup ((from + 1)..size[tail])
      /\ \A p \in Path : p # tail => got'[p] = got[p]
      /\ twice' = twice \cup ({tail} \X (((from + 1)..size[tail]) \cap got[tail]))
  BY ReadLines
<1>2. size[tail] \in Nat /\ got[tail] \subseteq Nat
  BY OwnEntry, BoundsAssumption
<1>3. ((from + 1)..size[tail]) \cap got[tail] = {}
  BY <1>2
<1>4. {tail} \X {} = {}
  OBVIOUS
<1> QED BY <1>1, <1>2, <1>3, <1>4

\* stopWatchers: the file is left behind the queue.
LEMMA StopWatcherOnce == ASSUME TInv, TInv', QInv, OInv, StopWatcher PROVE OInv'
<1>1. /\ pc = "stop" /\ tail # NoPath /\ watched' = watched \ {entry}
      /\ Written(entry, disk[entry].inode, UNWATCHED_POSITION)
      /\ opened => read(fpos)
      /\ ~opened => got' = got /\ twice' = twice
  BY StoppedLine
<1>2. pc' = "start" /\ opened' = FALSE /\ size' = size /\ paths' = paths
  BY DEF StopWatcher, files, task
<1>3. /\ tail \in Path /\ paths # <<>> /\ disk[entry].path = tail
  BY <1>1, OwnEntry
<1>4. twice' = {} /\ \A p \in Path : p # tail => got'[p] = got[p]
  <2>1. CASE opened
    <3>1. fpos \in Nat
      BY BoundsAssumption DEF TInv, TypeOK
    <3>2. /\ twice = {} /\ fpos <= size[tail] /\ \A n \in got[tail] : n <= fpos
      BY <2>1 DEF OInv, Reading, NothingTwice
    <3> QED BY <1>1, <2>1, <3>1, <3>2, ReadOnce
  <2>2. CASE ~opened
    BY <1>1, <2>2 DEF OInv, NothingTwice
  <2> QED BY <2>1, <2>2
<1>5. tail < paths[1]
  <2>1. tail <= paths[1] /\ tail # paths[1]
    BY <1>1, <1>3 DEF QInv, QueueInOrder, Sorted
  <2>2. paths[1] \in Path
    <3>1. paths \in Seq(Path)
      BY DEF TInv, TypeOK
    <3> QED BY <1>3, <3>1
  <2>3. tail \in Nat /\ paths[1] \in Nat
    BY <1>3, <2>2, PathIsNat
  <2> QED BY <2>1, <2>3
<1>6. \A p \in Path : Passed(p) => Passed(p)'
  BY <1>2, <1>3 DEF Passed
<1>8. \A k \in watched : k # entry => k \in watched' /\ disk'[k] = disk[k]
  BY <1>1, LinesOf DEF Written, OneLineDiffers
<1>9. ASSUME NEW p \in Path PROVE Placed(p)'
  <2>1. CASE p = tail
    <3>1. p < paths'[1] /\ paths' # <<>>
      BY <1>2, <1>3, <1>5, <2>1
    <3> QED BY <3>1 DEF Placed, Passed
  <2>2. CASE p # tail
    <3>1. got'[p] = got[p]
      BY <1>4, <2>2
    <3>2. \A k \in watched : disk[k].path = p => k \in watched' /\ disk'[k] = disk[k]
      BY <1>3, <1>8, <2>2
    <3>3. Held(p) => Held(p)'
      BY <1>1, <1>2, <3>1, <3>2, OthersHeld
    <3> QED BY <1>6, <3>1, <3>3 DEF OInv, Placed
  <2> QED BY <2>1, <2>2
<1>10. \A l \in Lines' : l.pos <= size'[l.path]
  <2>1. Lines = {disk[k] : k \in watched} /\ Lines' = {disk'[k] : k \in watched'}
    BY <1>1, <1>2, LinesOf
  <2>2. \A k \in watched' : k \in watched /\ disk'[k] = disk[k]
    BY <1>1, <1>8
  <2> QED BY <1>2, <2>1, <2>2 DEF OInv
<1> QED BY <1>2, <1>4, <1>9, <1>10 DEF OInv, Reading, NothingTwice

\* startWatchers: the line of a path that was collected before goes on, and a new
\* line is that of a path nothing was handed over of.
LEMMA StartWatcherOnce == ASSUME TInv, TInv', QInv, OInv, StartWatcher PROVE OInv'
<1>1. PICK e \in 1..Len(disk') :
         /\ disk' \in Seq(Entry)
         /\ StartedOld(e) \/ StartedNew(e)
         /\ \A k \in 1..Len(disk) : k # e => disk'[k] = disk[k]
         /\ opened' = opened
  BY StartedLine DEF watcher
<1>2. /\ pc = "start" /\ pc' = "idle" /\ paths' = paths /\ size' = size /\ got' = got
      /\ twice' = twice
  BY DEF StartWatcher, files, task
<1>3. TypeOK /\ running /\ paths # <<>> /\ tail = NoPath /\ ~opened
  BY <1>2 DEF TInv, Shapes, running
<1>4. paths[1] \in Path /\ paths[1] \in Nat /\ paths[1] # INO_NONE
  <2>1. paths \in Seq(Path)
    BY <1>3 DEF TypeOK
  <2>2. paths[1] \in Path
    BY <1>3, <2>1
  <2> QED BY <2>2, PathIsNat DEF INO_NONE, NoPath
<1>5. /\ watched' = watched \cup {e} /\ disk'[e].path = paths[1]
      /\ \A k \in 1..Len(disk') : k \in 1..Len(disk) \/ k = e
      /\ \A k \in watched : disk'[k].path = disk[k].path
  BY <1>1, <1>3, <1>4, StartedWatched
<1>6. /\ Lines = {disk[k] : k \in watched} /\ Lines' = {disk'[k] : k \in watched'}
      /\ watched \subseteq 1..Len(disk)
  BY <1>2, LinesOf
<1>7. ASSUME NEW p \in Path, Passed(p) PROVE Passed(p)'
  BY <1>2, <1>3, <1>7 DEF Passed
<1>8. ASSUME NEW p \in Path, p # paths[1], Held(p) PROVE Held(p)'
  <2>1. \A k \in watched : disk[k].path = p => k # e
    BY <1>5, <1>8
  <2>2. \A k \in watched : disk[k].path = p => k \in watched' /\ disk'[k] = disk[k]
    BY <1>1, <1>5, <1>6, <2>1
  <2> QED BY <1>2, <1>8, <2>2, OthersHeld
<1>9. ASSUME Held(paths[1]) PROVE Held(paths[1])'
  <2>1. PICK k \in watched : /\ disk[k].path = paths[1] /\ disk[k].inode = paths[1]
                             /\ \A n \in got[paths[1]] : n <= disk[k].pos
    BY <1>6, <1>9 DEF Held
  <2>2. StartedOld(e)
    <3>1. mapped = watched
      BY <1>3 DEF TInv, Mapped
    <3> QED BY <1>1, <2>1, <3>1 DEF StartedNew
  <2>3. e \in watched /\ disk[e].path = paths[1]
    BY <1>3, <2>2 DEF StartedOld, TInv, Mapped
  <2>4. k = e
    BY <2>1, <2>3, OneLine
  <2>5. disk'[e] = disk[e]
    BY <1>4, <2>1, <2>2, <2>4 DEF StartedOld
  <2>6. disk'[e] \in Lines'
    BY <1>5, <1>6
  <2> QED BY <1>2, <2>1, <2>4, <2>5, <2>6 DEF Held
<1>10. ASSUME NEW p \in Path PROVE Placed(p)'
  <2>1. Held(p) => Held(p)'
    <3>1. CASE p = paths[1]
      <4>1. Held(p) => \E l \in Lines' : l.path = p /\ l.inode = p /\ \A n \in got'[p] : n <= l.pos
        BY <1>2, <1>9, <3>1 DEF Held
      <4> QED BY <4>1 DEF Held
    <3>2. CASE p # paths[1]
      BY <1>8, <3>2
    <3> QED BY <3>1, <3>2
  <2> QED BY <1>2, <1>7, <2>1 DEF OInv, Placed
<1>11. \A l \in Lines' : l.pos <= size'[l.path]
  <2> SUFFICES ASSUME NEW k \in watched' PROVE disk'[k].pos <= size[disk'[k].path]
    BY <1>2, <1>6
  <2>1. CASE k \in watched /\ disk'[k] = disk[k]
    BY <1>6, <2>1 DEF OInv
  <2>2. CASE k = e /\ disk'[k] = NewLine(paths[1])
    <3>1. size[paths[1]] \in 0..MaxSize
      BY <1>3, <1>4 DEF TypeOK
    <3>2. NewLine(paths[1]).pos = 0 /\ NewLine(paths[1]).path = paths[1]
      BY DEF NewLine
    <3>3. 0 <= size[paths[1]]
      BY <3>1
    <3> QED BY <2>2, <3>2, <3>3
  <2>3. \/ k \in watched /\ disk'[k] = disk[k]
        \/ k = e /\ disk'[k] = NewLine(paths[1])
    <3>1. CASE k # e
      BY <1>1, <1>5, <1>6, <3>1
    <3>2. CASE k = e /\ StartedOld(e)
      BY <1>3, <3>2 DEF StartedOld, TInv, Mapped
    <3>3. CASE k = e /\ StartedNew(e)
      BY <3>3 DEF StartedNew
    <3> QED BY <1>1, <3>1, <3>2, <3>3
  <2> QED BY <2>1, <2>2, <2>3
<1> QED BY <1>1, <1>2, <1>3, <1>10, <1>11 DEF OInv, Reading, NothingTwice

\* Where a tail watcher goes on: not before what was handed over.
LEMMA GoesOn ==
    ASSUME TInv, QInv, OInv, tail # NoPath, pc = "idle"
    PROVE  LET from == IF opened THEN fpos ELSE openPos
           IN  from <= size[tail] /\ \A n \in got[tail] : n <= from
<1>1. CASE opened
  BY <1>1 DEF OInv, Reading
<1>2. CASE ~opened
  <2>1. /\ tail \in Path /\ entry \in watched /\ disk[entry].path = tail /\ paths # <<>>
        /\ size[tail] \in 0..MaxSize
    BY OwnEntry
  <2>2. Lines = {disk[k] : k \in watched}
    BY LinesOf
  <2>3. disk[entry].pos <= size[tail]
    BY <2>1, <2>2 DEF OInv
  <2>4. openPos <= size[tail]
    BY <2>1, <2>3 DEF openPos
  <2>5. tail = paths[1] /\ tail \in Nat
    BY <2>1, PathIsNat DEF QInv, Sorted
  <2>6. ~Passed(tail)
    BY <2>1, <2>5 DEF Passed
  <2>7. CASE got[tail] = {}
    BY <1>2, <2>4, <2>7
  <2>8. CASE Held(tail)
    <3>1. PICK k \in watched : /\ disk[k].path = tail /\ disk[k].inode = tail
                               /\ \A n \in got[tail] : n <= disk[k].pos
      BY <2>2, <2>8 DEF Held
    <3>2. k = entry
      BY <2>1, <3>1, OneLine
    <3>3. openPos = disk[entry].pos
      BY <3>1, <3>2 DEF openPos
    <3> QED BY <1>2, <2>4, <3>1, <3>2, <3>3
  <2> QED BY <2>1, <2>6, <2>7, <2>8 DEF OInv, Placed
<1> QED BY <1>1, <1>2

\* Reading up to the end of the file and recording it.
LEMMA WrittenOnce ==
    ASSUME TInv, TInv', QInv, OInv, pc = "idle", pc' # "rewrite", tail # NoPath,
           NEW from \in Nat, read(from), from <= size[tail], \A n \in got[tail] : n <= from,
           Written(entry, tail, size[tail]), size' = size
    PROVE  /\ twice' = {} /\ watched' = watched
           /\ \A p \in Path : p # tail => got'[p] = got[p]
           /\ \A p \in Path : Held(p) => Held(p)'
           /\ \E l \in Lines' : l.path = tail /\ l.inode = tail /\ \A n \in got'[tail] : n <= l.pos
           /\ \A l \in Lines' : l.pos <= size'[l.path]
           /\ \A l \in Lines : \E m \in Lines' : m.path = l.path
           /\ \A n \in got'[tail] : n <= size[tail]
<1>1. twice = {}
  BY DEF OInv, NothingTwice
<1>2. /\ twice' = {} /\ \A n \in got'[tail] : n <= size[tail]
      /\ \A p \in Path : p # tail => got'[p] = got[p]
  BY <1>1, ReadOnce
<1>3. /\ entry \in 1..Len(disk) /\ entry \in watched /\ disk[entry].path = tail
      /\ size[tail] \in 0..MaxSize /\ tail \in Path
  BY OwnEntry
<1>4. size[tail] \in Int /\ size[tail] # UNWATCHED_POSITION /\ disk \in Seq(Entry)
  BY <1>3 DEF UNWATCHED_POSITION, TInv, TypeOK
<1>5. /\ watched' = watched \cup {entry}
      /\ disk'[entry].path = tail /\ disk'[entry].pos = size[tail] /\ disk'[entry].inode = tail
      /\ \A k \in 1..Len(disk) : disk'[k].path = disk[k].path
  BY <1>3, <1>4, WrittenWatched
<1>6. watched' = watched
  BY <1>3, <1>5
<1>7. /\ Lines = {disk[k] : k \in watched} /\ Lines' = {disk'[k] : k \in watched}
      /\ watched \subseteq 1..Len(disk)
  BY <1>6, LinesOf
<1>8. \A k \in watched : k # entry => disk'[k] = disk[k]
  BY <1>7 DEF Written, OneLineDiffers
<1>9. disk'[entry] \in Lines'
  BY <1>3, <1>7
<1>10. \E l \in Lines' : l.path = tail /\ l.inode = tail /\ \A n \in got'[tail] : n <= l.pos
  BY <1>2, <1>5, <1>9
<1>11. ASSUME NEW p \in Path, Held(p) PROVE Held(p)'
  <2>1. CASE p = tail
    BY <1>10, <2>1 DEF Held
  <2>2. CASE p # tail
    <3>1. \A k \in watched : disk[k].path = p => k \in watched' /\ disk'[k] = disk[k]
      BY <1>3, <1>6, <1>8, <2>2
    <3>2. got'[p] = got[p]
      BY <1>2, <2>2
    <3> QED BY <1>11, <3>1, <3>2, OthersHeld
  <2> QED BY <2>1, <2>2
<1>12. \A l \in Lines' : l.pos <= size'[l.path]
  <2> SUFFICES ASSUME NEW k \in watched PROVE disk'[k].pos <= size[disk'[k].path]
    BY <1>7
  <2>1. CASE k = entry
    BY <1>3, <1>5, <2>1
  <2>2. CASE k # entry
    BY <1>7, <1>8, <2>2 DEF OInv
  <2> QED BY <2>1, <2>2
<1>13. \A l \in Lines : \E m \in Lines' : m.path = l.path
  BY <1>5, <1>7
<1> QED BY <1>2, <1>6, <1>10, <1>11, <1>12, <1>13

\* onNotify.
LEMMA NotifyOnce == ASSUME TInv, TInv', QInv, OInv, Notify PROVE OInv'
<1>1. /\ pc = "idle" /\ tail # NoPath
      /\ ~(opened \/ tail \in exists) =>
           disk' = disk /\ UNCHANGED <<got, twice, fpos, opened, silent>>
      /\ opened \/ tail \in exists =>
           /\ Written(entry, tail, size[tail]) /\ opened' /\ fpos' = size[tail]
           /\ read(IF opened THEN fpos ELSE openPos)
           /\ (IF opened THEN fpos ELSE openPos) \in Nat
  BY NotifiedLine
<1>2. /\ pc' = pc /\ size' = size /\ kept' = kept /\ paths' = paths
      /\ tail' = tail /\ entry' = entry
  BY DEF Notify, files, task
<1>3. tail \in Path /\ paths # <<>> /\ entry \in 1..Len(disk) /\ size[tail] \in 0..MaxSize
  BY <1>1, OwnEntry
<1>4. CASE ~(opened \/ tail \in exists)
  <2>1. disk' = disk /\ UNCHANGED <<got, twice, fpos, opened, silent>>
    BY <1>1, <1>4
  <2>2. Lines' = Lines
    BY <1>2, <2>1 DEF Lines, watched
  <2> QED BY <1>2, <2>1, <2>2 DEF OInv, Placed, Passed, Held, Reading, NothingTwice
<1>5. CASE opened \/ tail \in exists
  <2> DEFINE from == IF opened THEN fpos ELSE openPos
  <2>1. /\ Written(entry, tail, size[tail]) /\ opened' /\ fpos' = size[tail]
        /\ read(from) /\ from \in Nat
    BY <1>1, <1>5
  <2>2. from <= size[tail] /\ \A n \in got[tail] : n <= from
    BY <1>1, GoesOn
  <2> HIDE DEF from
  <2>3. /\ twice' = {} /\ \A p \in Path : p # tail => got'[p] = got[p]
        /\ \A p \in Path : Held(p) => Held(p)'
        /\ \E l \in Lines' : l.path = tail /\ l.inode = tail /\ \A n \in got'[tail] : n <= l.pos
        /\ \A l \in Lines' : l.pos <= size'[l.path]
        /\ \A n \in got'[tail] : n <= size[tail]
    BY <1>1, <1>2, <2>1, <2>2, WrittenOnce
  <2>4. \A p \in Path : Passed(p) => Passed(p)'
    BY <1>2, <1>3 DEF Passed
  <2>5. \A p \in Path : p = tail => Held(p)'
    BY <2>3 DEF Held
  <2>6. \A p \in Path : Placed(p)'
    BY <2>3, <2>4, <2>5 DEF OInv, Placed
  <2>7. disk'[entry].inode = tail /\ size[tail] <= size[tail]
    BY <1>3, <2>1 DEF Written, OneLineDiffers
  <2>8. Reading'
    BY <1>2, <2>1, <2>3, <2>7 DEF Reading
  <2> QED BY <2>3, <2>6, <2>8 DEF OInv, NothingTwice
<1> QED BY <1>4, <1>5

\* A path that the queue has passed is before a line that is watched.
LEMMA PassedOnDisk ==
    ASSUME TInv, QInv, pc = "idle", NEW p \in Path, Passed(p)
    PROVE  \E l \in Lines : p < l.path
<1>1. CASE paths = <<>>
  BY <1>1 DEF Passed
<1>2. CASE paths # <<>>
  <2>1. PICK k \in watched : disk[k].path = paths[1]
    BY <1>2 DEF QInv, Sorted
  <2>2. disk[k] \in Lines
    BY LinesOf
  <2> QED BY <1>2, <2>1, <2>2 DEF Passed
<1> QED BY <1>1, <1>2

\* The end of the process between two callbacks.
LEMMA EndOnce ==
    ASSUME TInv, TInv', QInv, OInv, Crash \/ Stop, "torn" \notin Faults
    PROVE  OInv'
<1>1. /\ pc = "idle" /\ pc' = "down" /\ kept' = <<>> /\ paths' = <<>> /\ opened' = FALSE
      /\ size' = size
  BY DEF Crash, Stop, forget, files
<1>2. Lines = {disk[k] : k \in watched} /\ Lines' = {disk'[k] : k \in watched'}
  BY <1>1, LinesOf
<1>3. Crash \/ (Stop /\ ~opened) => disk' = disk /\ got' = got /\ twice' = twice
  BY EndedLine DEF Crash
<1>4. CASE Crash \/ (Stop /\ ~opened)
  <2>1. watched' = watched
    BY <1>3, <1>4 DEF watched
  <2>2. Lines' = Lines
    BY <1>2, <1>3, <1>4, <2>1
  <2>3. \A p \in Path : Passed(p) => Passed(p)'
    BY <1>1, <2>2, PassedOnDisk DEF Passed
  <2>4. \A p \in Path : Held(p) => Held(p)'
    BY <1>3, <1>4, <2>2 DEF Held
  <2> QED BY <1>1, <1>3, <1>4, <2>2, <2>3, <2>4 DEF OInv, Placed, Reading, NothingTwice
<1>5. CASE Stop /\ opened
  <2>1. Written(entry, disk[entry].inode, size[tail]) /\ tail # NoPath /\ read(fpos)
    BY <1>5, EndedLine
  <2>2. fpos <= size[tail] /\ disk[entry].inode = tail /\ \A n \in got[tail] : n <= fpos
    BY <1>5 DEF OInv, Reading
  <2>3. fpos \in Nat
    BY BoundsAssumption DEF TInv, TypeOK
  <2>4. Written(entry, tail, size[tail])
    BY <2>1, <2>2
  <2>5. /\ twice' = {} /\ \A p \in Path : p # tail => got'[p] = got[p]
        /\ \A p \in Path : Held(p) => Held(p)'
        /\ \E l \in Lines' : l.path = tail /\ l.inode = tail /\ \A n \in got'[tail] : n <= l.pos
        /\ \A l \in Lines' : l.pos <= size'[l.path]
        /\ \A l \in Lines : \E m \in Lines' : m.path = l.path
    BY <1>1, <2>1, <2>2, <2>3, <2>4, WrittenOnce
  <2>6. ASSUME NEW p \in Path, Passed(p) PROVE Passed(p)'
    <3>1. PICK l \in Lines : p < l.path
      BY <1>1, <2>6, PassedOnDisk
    <3>2. PICK m \in Lines' : m.path = l.path
      BY <2>5
    <3> QED BY <1>1, <3>1, <3>2 DEF Passed
  <2>7. \A p \in Path : p = tail => Held(p)'
    BY <2>5 DEF Held
  <2>8. \A p \in Path : Placed(p)'
    BY <2>5, <2>6, <2>7 DEF OInv, Placed
  <2> QED BY <1>1, <2>5, <2>8 DEF OInv, Reading, NothingTwice
<1> QED BY <1>4, <1>5

\* compact keeps the line with the largest path, so a path whose line it drops
\* is passed.
LEMMA RestartOnce == ASSUME TInv, TInv', QInv, OInv, Compact \/ Rewrite PROVE OInv'
<1>1. /\ size' = size /\ got' = got /\ twice' = twice /\ paths' = paths /\ opened' = opened
  BY DEF Compact, Rewrite, files, task, watcher
<1>2. paths = <<>> /\ ~opened /\ TypeOK
  BY DEF Compact, Rewrite, TInv, Shapes, running
<1>3. CASE Compact
  <2>1. kept' = survivor /\ pc = "down" /\ pc' = "rewrite"
    BY <1>3 DEF Compact
  <2>2. Lines = {disk[k] : k \in watched} /\ Lines' = Range(survivor)
    BY <2>1, LinesOf
  <2>3. CASE watched = {}
    <3>1. Lines = {} /\ Lines' = {}
      BY <1>2, <2>2, <2>3, Survivor DEF Range
    <3> QED BY <1>1, <1>2, <3>1 DEF OInv, Placed, Passed, Held, Reading, NothingTwice
  <2>4. CASE watched # {}
    <3>1. PICK e \in watched : survivor = <<disk[e]>> /\ \A k \in watched : k <= e
      BY <1>2, <2>4, Survivor
    <3>2. Range(<<disk[e]>>) = {disk[e]}
      BY DEF Range
    <3>3. Lines' = {disk[e]} /\ disk[e] \in Lines
      BY <2>2, <3>1, <3>2
    <3>4. \A k \in watched : k \in Nat
      BY LinesOf
    <3>5. \A k \in watched : k = e \/ disk[k].path < disk[e].path
      BY <3>1, <3>4 DEF QInv, Sorted
    <3>6. \A l \in Lines : l.path \in Nat
      BY LinesOf
    <3>7. \A k \in watched : disk[k].path <= disk[e].path /\ disk[k].path \in Nat
      BY <2>2, <3>3, <3>5, <3>6
    <3>8. ASSUME NEW p \in Path, Passed(p) PROVE Passed(p)'
      <4>1. PICK k \in watched : p < disk[k].path
        BY <1>2, <2>2, <3>8 DEF Passed
      <4>2. p < disk[e].path
        BY <3>7, <4>1, PathIsNat
      <4> QED BY <1>1, <1>2, <3>3, <4>2 DEF Passed
    <3>9. ASSUME NEW p \in Path, Held(p) PROVE Held(p)' \/ Passed(p)'
      <4>1. PICK k \in watched : /\ disk[k].path = p /\ disk[k].inode = p
                                 /\ \A n \in got[p] : n <= disk[k].pos
        BY <2>2, <3>9 DEF Held
      <4>2. CASE k = e
        BY <1>1, <3>3, <4>1, <4>2 DEF Held
      <4>3. CASE disk[k].path < disk[e].path
        BY <1>1, <1>2, <3>3, <4>1, <4>3 DEF Passed
      <4> QED BY <3>5, <4>2, <4>3
    <3>10. \A p \in Path : Placed(p)'
      BY <1>1, <3>8, <3>9 DEF OInv, Placed
    <3> QED BY <1>1, <1>2, <3>3, <3>10 DEF OInv, Reading, NothingTwice
  <2> QED BY <2>3, <2>4
<1>4. CASE Rewrite
  <2>1. pc = "rewrite" /\ pc' = "idle" /\ disk' = kept
    BY <1>4 DEF Rewrite
  <2>2. watched' = DOMAIN kept
    <3>1. kept \in Seq(Entry) /\ DOMAIN kept = 1..Len(kept)
      BY DEF TInv, TypeOK
    <3>2. \A k \in 1..Len(kept) : kept[k].pos # UNWATCHED_POSITION
      BY <2>1 DEF TInv, Mapped
    <3> QED BY <2>1, <3>1, <3>2 DEF watched
  <2>3. Lines = Range(kept) /\ Lines' = {kept[k] : k \in DOMAIN kept}
    BY <2>1, <2>2, LinesOf
  <2>4. Lines' = Lines
    BY <2>3 DEF Range
  <2> QED BY <1>1, <1>2, <2>4 DEF OInv, Placed, Passed, Held, Reading, NothingTwice
<1> QED BY <1>3, <1>4

\* The files, the time and the silence.
LEMMA OutsideOnce ==
    ASSUME TInv, OInv, Write \/ Delete \/ NextPeriod \/ GoSilent \/ UNCHANGED vars PROVE OInv'
<1>1. /\ disk' = disk /\ kept' = kept /\ paths' = paths
      /\ tail' = tail /\ entry' = entry /\ opened' = opened /\ fpos' = fpos
      /\ got' = got /\ twice' = twice
  BY DEF Write, Delete, NextPeriod, GoSilent, vars, posfile, task, watcher
<1>2. Lines' = Lines
  BY <1>1 DEF Lines, watched
<1>3. \A p \in Path : size[p] \in Nat /\ size'[p] \in Nat /\ size[p] <= size'[p]
  <2>1. size \in [Path -> 0..MaxSize] /\ now \in Path
    BY DEF TInv, TypeOK
  <2>2. \A p \in Path : size[p] \in Nat
    BY <2>1, BoundsAssumption
  <2>3. size' = size \/ size' = [size EXCEPT ![now] = @ + 1]
    BY DEF Write, Delete, NextPeriod, GoSilent, vars, files
  <2> QED BY <2>1, <2>2, <2>3
<1>4. \A l \in Lines : l.path \in Path /\ l.pos \in Nat
  BY LinesOf
<1>5. \A l \in Lines : l.pos <= size'[l.path]
  BY <1>3, <1>4 DEF OInv
<1>6. Reading'
  <2>1. CASE opened
    <3>1. tail \in Path /\ fpos \in Nat
      BY <2>1, BoundsAssumption DEF TInv, Shapes, TypeOK
    <3>2. fpos <= size[tail] /\ disk[entry].inode = tail /\ \A n \in got[tail] : n <= fpos
      BY <2>1 DEF OInv, Reading
    <3> QED BY <1>1, <1>3, <3>1, <3>2 DEF Reading
  <2>2. CASE ~opened
    BY <1>1, <2>2 DEF Reading
  <2> QED BY <2>1, <2>2
<1> QED BY <1>1, <1>2, <1>5, <1>6 DEF OInv, Placed, Passed, Held, NothingTwice

\* Every step keeps what was handed over behind the positions, unless compact is
\* interrupted.
LEMMA NextOnce ==
    ASSUME "torn" \notin Faults
    PROVE  TInv /\ TInv' /\ QInv /\ OInv /\ [Next]_vars => OInv'
BY RefreshOnce, StopWatcherOnce, StartWatcherOnce, NotifyOnce, EndOnce, RestartOnce,
   OutsideOnce DEF Next

\* As long as the process is not killed in the middle of a callback or of compact,
\* no line is handed over twice, whatever else goes wrong: kills and stops
\* between callbacks, files deleted or late, watchers that could not be set up.
THEOREM NothingTwiceAlways ==
    ASSUME "torn" \notin Faults
    PROVE  Spec => []NothingTwice
<1>1. TInv /\ TInv' /\ QInv /\ OInv /\ [Next]_vars => OInv'
  BY NextOnce
<1>2. OInv => NothingTwice
  BY DEF OInv
<1> QED BY <1>1, <1>2, InitTypes, NextTypes, InitOrder, NextQueue, InitOnce, PTL DEF Spec
-----------------------------------------------------------------------------
\* Everything before a position was handed over.
Behind ==
    /\ \A l \in Lines : 1..l.pos \subseteq got[l.path]
    /\ opened => 1..fpos \subseteq got[tail]

\* The first start: the only position is 0.
LEMMA InitBehind == Init => Behind
<1> SUFFICES ASSUME Init PROVE Behind
  OBVIOUS
<1>1. TInv
  BY InitTypes
<1>2. Lines = {disk[k] : k \in watched} /\ watched \subseteq 1..Len(disk)
  BY <1>1, LinesOf DEF Init
<1>3. \A k \in 1..Len(disk) : disk[k].pos = 0
  BY DEF Init
<1>4. \A l \in Lines : 1..l.pos = {}
  BY <1>2, <1>3
<1> QED BY <1>4 DEF Init, Behind

\* What is read up to the end of a file completes it.
LEMMA ReadBehind ==
    ASSUME TInv, tail # NoPath, NEW from \in Nat, read(from), 1..from \subseteq got[tail]
    PROVE  /\ 1..size[tail] \subseteq got'[tail]
           /\ \A p \in Path : got[p] \subseteq got'[p]
<1>1. /\ got'[tail] = got[tail] \cup ((from + 1)..size[tail])
      /\ \A p \in Path : p # tail => got'[p] = got[p]
  BY ReadLines
<1>2. size[tail] \in Nat
  BY OwnEntry, BoundsAssumption
<1>3. \A n \in 1..size[tail] : n \in 1..from \/ n \in (from + 1)..size[tail]
  BY <1>2
<1> QED BY <1>1, <1>3

\* A step that records the end of the file it has read.
LEMMA WrittenBehind ==
    ASSUME TInv, TInv', Behind, pc # "rewrite", pc' # "rewrite", tail # NoPath,
           NEW ino, Written(entry, ino, size[tail]),
           NEW from \in Nat, read(from), 1..from \subseteq got[tail]
    PROVE  /\ \A l \in Lines' : 1..l.pos \subseteq got'[l.path]
           /\ 1..size[tail] \subseteq got'[tail]
<1>1. 1..size[tail] \subseteq got'[tail] /\ \A p \in Path : got[p] \subseteq got'[p]
  BY ReadBehind
<1>2. Lines = {disk[k] : k \in watched} /\ Lines' = {disk'[k] : k \in watched'}
  BY LinesOf
<1>3. /\ disk \in Seq(Entry) /\ entry \in 1..Len(disk) /\ entry \in watched /\ size[tail] \in Int
      /\ size[tail] # UNWATCHED_POSITION /\ disk[entry].path = tail /\ watched \subseteq 1..Len(disk)
  <2>1. /\ entry \in 1..Len(disk) /\ entry \in watched /\ size[tail] \in 0..MaxSize
        /\ disk[entry].path = tail
    BY OwnEntry
  <2>2. watched \subseteq 1..Len(disk)
    BY LinesOf
  <2>3. size[tail] \in Int /\ size[tail] # UNWATCHED_POSITION
    BY <2>1 DEF UNWATCHED_POSITION
  <2> QED BY <2>1, <2>2, <2>3 DEF TInv, TypeOK
<1>4. /\ watched' = watched \cup {entry} /\ disk'[entry].path = tail
      /\ disk'[entry].pos = size[tail]
  BY <1>3, WrittenWatched
<1>5. \A k \in watched : k # entry => disk'[k] = disk[k]
  BY <1>3 DEF Written, OneLineDiffers
<1>6. ASSUME NEW k \in watched' PROVE 1..disk'[k].pos \subseteq got'[disk'[k].path]
  <2>1. CASE k = entry
    BY <1>1, <1>4, <2>1
  <2>2. CASE k # entry
    <3>1. k \in watched /\ disk'[k] = disk[k] /\ disk[k] \in Lines
      BY <1>2, <1>4, <1>5, <2>2
    <3>2. 1..disk[k].pos \subseteq got[disk[k].path] /\ disk[k].path \in Path
      BY <3>1, LinesOf DEF Behind
    <3> QED BY <1>1, <3>1, <3>2
  <2> QED BY <2>1, <2>2
<1> QED BY <1>1, <1>2, <1>6

\* stopWatchers marks the line of the watcher, whose position does not count
\* any more.
LEMMA StopWatcherBehind == ASSUME TInv, TInv', Behind, StopWatcher PROVE Behind'
<1>1. /\ pc = "stop" /\ tail # NoPath /\ watched' = watched \ {entry}
      /\ Written(entry, disk[entry].inode, UNWATCHED_POSITION)
      /\ opened => read(fpos)
      /\ ~opened => got' = got /\ twice' = twice
  BY StoppedLine
<1>2. pc' = "start" /\ opened' = FALSE
  BY DEF StopWatcher
<1>3. \A p \in Path : got[p] \subseteq got'[p]
  <2>1. CASE opened
    <3>1. fpos \in Nat
      BY BoundsAssumption DEF TInv, TypeOK
    <3> QED BY <1>1, <2>1, <3>1, ReadBehind DEF Behind
  <2>2. CASE ~opened
    BY <1>1, <2>2
  <2> QED BY <2>1, <2>2
<1>4. Lines = {disk[k] : k \in watched} /\ Lines' = {disk'[k] : k \in watched'}
  BY <1>1, <1>2, LinesOf
<1>5. \A k \in watched' : k \in watched /\ disk'[k] = disk[k]
  BY <1>1, LinesOf DEF Written, OneLineDiffers
<1>6. ASSUME NEW l \in Lines' PROVE 1..l.pos \subseteq got'[l.path]
  <2>1. l \in Lines
    BY <1>4, <1>5
  <2> QED BY <1>3, <2>1, LinesOf DEF Behind
<1> QED BY <1>2, <1>6 DEF Behind

\* startWatchers: a new line has position 0.
LEMMA StartWatcherBehind == ASSUME TInv, TInv', Behind, StartWatcher PROVE Behind'
<1>1. PICK e \in 1..Len(disk') :
         /\ disk' \in Seq(Entry)
         /\ StartedOld(e) \/ StartedNew(e)
         /\ \A k \in 1..Len(disk) : k # e => disk'[k] = disk[k]
         /\ opened' = opened
  BY StartedLine DEF watcher
<1>2. pc = "start" /\ pc' = "idle" /\ got' = got
  BY DEF StartWatcher
<1>3. running /\ ~opened /\ paths \in Seq(Path) /\ paths # <<>>
  BY <1>2 DEF TInv, TypeOK, Shapes, running
<1>4. paths[1] \in Path
  BY <1>3
<1>5. watched' = watched \cup {e}
  BY <1>1, <1>3, <1>4, StartedWatched
<1>6. /\ Lines = {disk[k] : k \in watched} /\ Lines' = {disk'[k] : k \in watched'}
      /\ watched \subseteq 1..Len(disk)
  BY <1>2, LinesOf
<1>7. disk'[e].pos = 0 \/ (e \in watched /\ disk'[e] = disk[e])
  <2>1. NewLine(paths[1]).pos = 0
    BY DEF NewLine
  <2>2. mapped = watched
    BY <1>3 DEF TInv, Mapped
  <2> QED BY <1>1, <2>1, <2>2 DEF StartedOld, StartedNew
<1>8. ASSUME NEW k \in watched' PROVE 1..disk'[k].pos \subseteq got'[disk'[k].path]
  <2>1. CASE disk'[k].pos = 0
    BY <2>1
  <2>2. CASE k \in watched /\ disk'[k] = disk[k]
    BY <1>2, <1>6, <2>2 DEF Behind
  <2> QED BY <1>1, <1>5, <1>6, <1>7, <2>1, <2>2
<1> QED BY <1>1, <1>3, <1>6, <1>8 DEF Behind

\* onNotify: reading starts at the position of the line, or at 0.
LEMMA StartsBehind ==
    ASSUME TInv, Behind, pc = "idle", tail # NoPath
    PROVE  1..(IF opened THEN fpos ELSE openPos) \subseteq got[tail]
<1>1. entry \in watched /\ disk[entry].path = tail
  BY OwnEntry
<1>2. disk[entry] \in Lines
  BY <1>1, LinesOf
<1>3. 1..disk[entry].pos \subseteq got[tail] /\ 1..0 = {}
  BY <1>1, <1>2 DEF Behind
<1> QED BY <1>3 DEF openPos, Behind

LEMMA NotifyBehind == ASSUME TInv, TInv', Behind, Notify PROVE Behind'
<1>1. /\ pc = "idle" /\ tail # NoPath
      /\ ~(opened \/ tail \in exists) =>
           disk' = disk /\ UNCHANGED <<got, twice, fpos, opened, silent>>
      /\ opened \/ tail \in exists =>
           /\ Written(entry, tail, size[tail]) /\ fpos' = size[tail]
           /\ read(IF opened THEN fpos ELSE openPos)
           /\ (IF opened THEN fpos ELSE openPos) \in Nat
  BY NotifiedLine
<1>2. pc' = pc /\ kept' = kept /\ tail' = tail
  BY DEF Notify
<1>3. CASE ~(opened \/ tail \in exists)
  <2>1. disk' = disk /\ got' = got /\ fpos' = fpos /\ opened' = opened
    BY <1>1, <1>3
  <2> QED BY <1>2, <2>1 DEF Behind, Lines, watched
<1>4. CASE opened \/ tail \in exists
  <2> DEFINE from == IF opened THEN fpos ELSE openPos
  <2>1. /\ Written(entry, tail, size[tail]) /\ fpos' = size[tail] /\ read(from) /\ from \in Nat
    BY <1>1, <1>4
  <2>2. 1..from \subseteq got[tail]
    BY <1>1, StartsBehind
  <2> HIDE DEF from
  <2>3. /\ \A l \in Lines' : 1..l.pos \subseteq got'[l.path]
        /\ 1..size[tail] \subseteq got'[tail]
    BY <1>1, <1>2, <2>1, <2>2, WrittenBehind
  <2> QED BY <1>2, <2>1, <2>3 DEF Behind
<1> QED BY <1>3, <1>4

\* The process ends.
LEMMA EndBehind == ASSUME TInv, TInv', Behind, Crash \/ Stop PROVE Behind'
<1>1. pc' = "down" /\ kept' = <<>> /\ opened' = FALSE
  BY DEF Crash, Stop, forget
<1>2. Range(<<>>) = {}
  BY DEF Range
<1>3. CASE Crash \/ (Stop /\ ~opened)
  <2>1. disk' = disk /\ got' = got
    BY <1>3, EndedLine DEF Crash
  <2>2. Lines' \subseteq Lines
    BY <1>1, <1>2, <2>1 DEF Lines, watched
  <2> QED BY <1>1, <2>1, <2>2 DEF Behind
<1>4. CASE Stop /\ opened
  <2>1. /\ Written(entry, disk[entry].inode, size[tail]) /\ tail # NoPath /\ read(fpos)
        /\ pc = "idle"
    BY <1>4, EndedLine
  <2>2. fpos \in Nat
    BY BoundsAssumption DEF TInv, TypeOK
  <2>3. 1..fpos \subseteq got[tail]
    BY <1>4 DEF Behind
  <2>4. \A l \in Lines' : 1..l.pos \subseteq got'[l.path]
    BY <1>1, <2>1, <2>2, <2>3, WrittenBehind
  <2> QED BY <1>1, <2>4 DEF Behind
<1> QED BY <1>3, <1>4

\* compact keeps lines as they are.
LEMMA RestartLines ==
    ASSUME TInv, TInv', Compact \/ Rewrite
    PROVE  /\ Lines' \subseteq Lines /\ (Lines # {} => Lines' # {})
<1>1. CASE Compact
  <2>1. kept' = survivor /\ pc = "down" /\ pc' = "rewrite"
    BY <1>1 DEF Compact
  <2>2. Lines = {disk[k] : k \in watched} /\ Lines' = Range(survivor)
    BY <2>1, LinesOf
  <2>3. CASE watched = {}
    BY <2>2, <2>3, Survivor DEF Range, TInv
  <2>4. CASE watched # {}
    <3>1. PICK e \in watched : survivor = <<disk[e]>>
      BY <2>4, Survivor DEF TInv
    <3>2. Range(<<disk[e]>>) = {disk[e]}
      BY DEF Range
    <3> QED BY <2>2, <3>1, <3>2
  <2> QED BY <2>3, <2>4
<1>2. CASE Rewrite
  <2>1. pc = "rewrite" /\ pc' = "idle" /\ disk' = kept
    BY <1>2 DEF Rewrite
  <2>2. watched' = DOMAIN kept
    <3>1. kept \in Seq(Entry) /\ DOMAIN kept = 1..Len(kept)
      BY DEF TInv, TypeOK
    <3>2. \A k \in 1..Len(kept) : kept[k].pos # UNWATCHED_POSITION
      BY <2>1 DEF TInv, Mapped
    <3> QED BY <2>1, <3>1, <3>2 DEF watched
  <2>3. Lines = Range(kept) /\ Lines' = {kept[k] : k \in DOMAIN kept}
    BY <2>1, <2>2, LinesOf
  <2> QED BY <2>3 DEF Range
<1> QED BY <1>1, <1>2

\* Every step keeps what is before a position handed over.
LEMMA NextBehind == TInv /\ TInv' /\ Behind /\ [Next]_vars => Behind'
<1> SUFFICES ASSUME TInv, TInv', Behind, [Next]_vars PROVE Behind'
  OBVIOUS
<1>1. CASE Compact \/ Rewrite
  <2>1. Lines' \subseteq Lines
    BY <1>1, RestartLines
  <2>2. got' = got /\ opened' = opened /\ fpos' = fpos /\ tail' = tail
    BY <1>1 DEF Compact, Rewrite, watcher
  <2> QED BY <2>1, <2>2 DEF Behind
<1>2. CASE Refresh \/ Write \/ Delete \/ NextPeriod \/ GoSilent \/ UNCHANGED vars
  <2>1. /\ disk' = disk /\ kept' = kept /\ got' = got /\ opened' = opened /\ fpos' = fpos
        /\ tail' = tail
    BY <1>2 DEF Refresh, Write, Delete, NextPeriod, GoSilent, vars, posfile, watcher
  <2> QED BY <2>1 DEF Behind, Lines, watched
<1> QED BY <1>1, <1>2, StopWatcherBehind, StartWatcherBehind, NotifyBehind, EndBehind DEF Next
-----------------------------------------------------------------------------
\* The queue takes every path it is given: the files that glob finds in a first
\* update, and the path of a period before the next one begins.
NoneRefused ==
    /\ Cardinality(newer) < PathQueueMaxSize
    /\ running /\ refreshed /\ now < MaxTime => now \in Range(paths)

\* Where a file that has lines left is: with the tail watcher, in the queue, or
\* not before a line of the position file.
Waiting(p) ==
    IF paths # <<>> THEN p = tail \/ p \in Range(paths)
    ELSE \A l \in Lines : l.path <= p

\* There is a line to go on from, except while watchers are replaced; and a tail
\* watcher that has not opened its file in time has none to open.
FInv ==
    /\ pc \in {"idle", "down", "rewrite"} => Lines # {}
    /\ tail # NoPath /\ tail < now /\ ~fresh /\ ~opened => tail \notin exists
    /\ tail # NoPath /\ fresh => ~opened
    /\ \A p \in Path : p < now /\ unread(p) => Waiting(p)

LEMMA InitWaiting == Init => FInv
<1> SUFFICES ASSUME Init PROVE FInv
  OBVIOUS
<1> DEFINE l == [path |-> 1, pos |-> 0, inode |-> INO_NONE]
<1>1. disk = <<l>> /\ disk[1] = l /\ DOMAIN disk = 1..1 /\ l.pos = 0
  BY DEF Init
<1>2. 1 \in watched
  BY <1>1 DEF watched, UNWATCHED_POSITION
<1>3. disk[1] \in Lines
  BY <1>2 DEF Lines
<1>4. \A p \in Path : ~(p < now)
  BY DEF Init, Path
<1> QED BY <1>3, <1>4 DEF Init, FInv

\* A path of the queue that has not expired stays in it.
LEMMA StaysQueued ==
    ASSUME TypeOK, NEW q \in Seq(Path), NEW m \in 0..Len(q), Moved(q, m), paths' \in Seq(Path),
           NEW j \in 1..Len(q), ~expired(q[j])
    PROVE  q[j] \in Range(paths')
<1>0. Len(q) \in Nat /\ Len(paths') \in Nat /\ DOMAIN paths' = 1..Len(paths')
  OBVIOUS
<1>1. ~(j \in 1..m)
  BY DEF Moved
<1>2. j - m \in 1..(Len(q) - m) /\ (j - m) + m = j
  BY <1>0, <1>1
<1>3. paths'[j - m] = q[j]
  BY <1>2 DEF Moved
<1>4. j - m \in 1..Len(paths')
  BY <1>0, <1>2 DEF Moved
<1> QED BY <1>0, <1>3, <1>4 DEF Range

\* updateTaskPaths drops no path whose file is there, and the first update finds
\* every file that is not before the line it goes on from.
LEMMA RefreshWaiting ==
    ASSUME TInv, QInv, FInv, NoneRefused, Refresh
    PROVE  FInv'
<1>1. /\ pc = "idle" /\ now' = now /\ exists' = exists /\ size' = size /\ disk' = disk
      /\ kept' = kept /\ tail' = tail /\ fresh' = fresh /\ opened' = opened /\ got' = got
  BY DEF Refresh, files, posfile, watcher
<1>2. Lines' = Lines
  BY <1>1 DEF Lines, watched
<1>3. paths' \in Seq(Path) /\ paths' # <<>> /\ TypeOK /\ paths \in Seq(Path)
  BY Refreshed DEF TInv, TypeOK
<1>4. mapped = watched /\ Lines = {disk[k] : k \in watched} /\ Lines # {}
  BY <1>1, LinesOf DEF TInv, Mapped, FInv, running
<1>5. ASSUME NEW p \in Path, p < now, unread(p) PROVE p = tail \/ p \in Range(paths')
  <2>1. p # tail => ~expired(p)
    BY <1>5 DEF unread, expired
  <2>2. CASE ~(first_update_paths /\ lastPaths # {})
    <3>1. PICK m \in 0..Len(paths) : Moved(paths, m)
      BY <2>2, Refreshed
    <3>2. lastPaths # {}
      BY <1>4 DEF lastPaths
    <3>3. paths # <<>>
      BY <2>2, <3>2 DEF TInv, Shapes
    <3>4. p = tail \/ p \in Range(paths)
      BY <1>5, <3>3 DEF FInv, Waiting
    <3>5. ASSUME p # tail PROVE p \in Range(paths')
      <4>1. PICK j \in DOMAIN paths : p = paths[j]
        BY <3>4, <3>5 DEF Range
      <4>2. j \in 1..Len(paths) /\ ~expired(paths[j])
        BY <1>3, <2>1, <3>5, <4>1
      <4> QED BY <1>3, <3>1, <4>1, <4>2, StaysQueued
    <3> QED BY <3>5
  <2>3. CASE first_update_paths /\ lastPaths # {}
    <3>1. PICK q \in Seq(Path) : FirstQueue(q) /\ \E m \in 0..Len(q) : Moved(q, m)
      BY <2>3, Refreshed
    <3>2. PICK m \in 0..Len(q) : Moved(q, m)
      BY <3>1
    <3>3. paths = <<>> /\ tail = NoPath
      BY <2>3 DEF TInv, Shapes
    <3>4. \A l \in Lines : l.path <= p
      BY <1>5, <3>3 DEF FInv, Waiting
    <3>5. Max(lastPaths) <= p /\ Max(lastPaths) \in Path
      <4>1. PICK k \in mapped : disk[k].path = Max(lastPaths)
        BY <1>3, <2>3, LastPath
      <4>2. disk[k] \in Lines
        BY <1>4
      <4> QED BY <1>3, <2>3, <3>4, <4>1, <4>2, LastPath
    <3>6. p # Max(lastPaths) => p \in newer
      <4>1. p \in Nat /\ Max(lastPaths) \in Nat
        BY <3>5, PathIsNat
      <4>2. p \in exists
        BY <1>5 DEF unread
      <4> QED BY <1>5, <2>3, <3>5, <4>1, <4>2 DEF newer, globed
    <3>7. PICK j \in 1..Len(q) : q[j] = p
      <4>1. Len(q) >= 1 /\ q[1] = Max(lastPaths) /\ 1 \in 1..Len(q)
        BY <3>1 DEF FirstQueue
      <4>2. p # Max(lastPaths) => \E j \in 1..Len(q) : q[j] = p
        BY <3>1, <3>6 DEF FirstQueue, NoneRefused
      <4> QED BY <4>1, <4>2
    <3>8. p # tail
      BY <3>3, PathIsNat
    <3>9. ~expired(q[j])
      BY <2>1, <3>7, <3>8
    <3> QED BY <1>3, <3>2, <3>7, <3>9, StaysQueued
  <2> QED BY <2>2, <2>3
<1>6. \A p \in Path : p < now' /\ unread(p)' => Waiting(p)'
  BY <1>1, <1>3, <1>5 DEF unread, Waiting
<1> QED BY <1>1, <1>2, <1>4, <1>6 DEF FInv

\* A file that is read stays read, and what is read of one file is read to its
\* end.
LEMMA ReadsMore ==
    ASSUME TInv, Behind, size' = size, exists' = exists,
           \/ got' = got
           \/ /\ tail # NoPath
              /\ \E from \in Nat : read(from) /\ 1..from \subseteq got[tail]
    PROVE  \A p \in Path : unread(p)' => unread(p)
<1>1. \A p \in Path : got[p] \subseteq got'[p]
  BY ReadBehind
<1> QED BY <1>1 DEF unread

\* stopWatchers: a last read completes the file, if it was there in time.
LEMMA StopWatcherWaiting ==
    ASSUME TInv, TInv', Behind, FInv, StopWatcher
    PROVE  FInv'
<1>1. /\ pc = "stop" /\ tail # NoPath /\ (opened => read(fpos)) /\ (~opened => got' = got)
  BY StoppedLine
<1>2. /\ pc' = "start" /\ tail' = NoPath /\ now' = now /\ exists' = exists /\ size' = size
      /\ paths' = paths
  BY DEF StopWatcher, files, task
<1>3. fpos \in Nat /\ (opened => 1..fpos \subseteq got[tail])
  BY BoundsAssumption DEF TInv, TypeOK, Behind
<1>4. paths # <<>> /\ ~fresh /\ tail \in Path
  BY <1>1, OwnEntry DEF TInv, Shapes
<1>5. \A p \in Path : unread(p)' => unread(p)
  BY <1>1, <1>2, <1>3, ReadsMore
<1>6. ASSUME NEW p \in Path, p = tail, p < now, unread(p)' PROVE FALSE
  <2>1. CASE opened
    <3>1. 1..size[tail] \subseteq got'[tail]
      BY <1>1, <1>3, <2>1, ReadBehind
    <3> QED BY <1>2, <1>6, <3>1 DEF unread
  <2>2. CASE ~opened
    <3>1. tail \notin exists
      BY <1>1, <1>4, <1>6, <2>2 DEF FInv
    <3> QED BY <1>2, <1>6, <3>1 DEF unread
  <2> QED BY <2>1, <2>2
<1>7. ASSUME NEW p \in Path, p < now', unread(p)' PROVE Waiting(p)'
  <2>1. p = tail \/ p \in Range(paths)
    BY <1>2, <1>4, <1>5, <1>7 DEF FInv, Waiting
  <2>2. p # tail
    BY <1>2, <1>6, <1>7
  <2> QED BY <1>2, <1>4, <2>1, <2>2 DEF Waiting
<1> QED BY <1>2, <1>7 DEF FInv

\* startWatchers: there is a line for the first path of the queue.
LEMMA StartWatcherWaiting ==
    ASSUME TInv, TInv', FInv, StartWatcher
    PROVE  FInv'
<1>1. PICK e \in 1..Len(disk') :
         /\ disk' \in Seq(Entry)
         /\ StartedOld(e) \/ StartedNew(e)
         /\ \A k \in 1..Len(disk) : k # e => disk'[k] = disk[k]
         /\ opened' = opened
         /\ fresh' = TRUE \/ tail' = tail
  BY StartedLine DEF watcher
<1>2. /\ pc = "start" /\ pc' = "idle" /\ now' = now /\ exists' = exists /\ size' = size
      /\ paths' = paths /\ got' = got
  BY DEF StartWatcher, files, task
<1>3. running /\ ~opened /\ tail = NoPath /\ paths \in Seq(Path) /\ paths # <<>>
  BY <1>2 DEF TInv, TypeOK, Shapes, running
<1>4. paths[1] \in Path
  BY <1>3
<1>5. watched' = watched \cup {e}
  BY <1>1, <1>3, <1>4, StartedWatched
<1>6. disk'[e] \in Lines'
  BY <1>2, <1>5, LinesOf
<1>7. ASSUME NEW p \in Path, p < now, unread(p) PROVE p \in Range(paths)
  <2>1. p = tail \/ p \in Range(paths)
    BY <1>3, <1>7 DEF FInv, Waiting
  <2> QED BY <1>3, <2>1, PathIsNat
<1>8. \A p \in Path : p < now' /\ unread(p)' => Waiting(p)'
  BY <1>2, <1>3, <1>7 DEF unread, Waiting
<1> QED BY <1>1, <1>3, <1>6, <1>8 DEF FInv

\* onNotify: a file that is there is opened.
LEMMA NotifyWaiting ==
    ASSUME TInv, TInv', Behind, FInv, Notify
    PROVE  FInv'
<1>1. /\ pc = "idle" /\ tail # NoPath /\ ~fresh' /\ watched' = watched
      /\ ~(opened \/ tail \in exists) => disk' = disk /\ got' = got /\ opened' = opened
      /\ opened \/ tail \in exists =>
           /\ opened' /\ read(IF opened THEN fpos ELSE openPos)
           /\ (IF opened THEN fpos ELSE openPos) \in Nat
  BY NotifiedLine
<1>2. /\ pc' = pc /\ now' = now /\ exists' = exists /\ size' = size /\ tail' = tail
      /\ paths' = paths
  BY DEF Notify, files, task
<1>3. Lines = {disk[k] : k \in watched} /\ Lines' = {disk'[k] : k \in watched'} /\ Lines # {}
  BY <1>1, <1>2, LinesOf DEF FInv
<1>4. Lines' # {}
  BY <1>1, <1>3
<1>5. \A p \in Path : unread(p)' => unread(p)
  <2>1. 1..(IF opened THEN fpos ELSE openPos) \subseteq got[tail]
    BY <1>1, StartsBehind
  <2>2. \/ got' = got
        \/ tail # NoPath /\ \E from \in Nat : read(from) /\ 1..from \subseteq got[tail]
    BY <1>1, <2>1
  <2> QED BY <1>2, <2>2, ReadsMore
<1>6. paths # <<>>
  BY <1>1, OwnEntry
<1>7. \A p \in Path : p < now' /\ unread(p)' => Waiting(p)'
  BY <1>2, <1>5, <1>6 DEF FInv, Waiting
<1> QED BY <1>1, <1>2, <1>4, <1>7 DEF FInv

\* The process ends between two callbacks: what waits in the queue is not before
\* a line of the position file.
LEMMA EndWaiting ==
    ASSUME TInv, TInv', QInv, Behind, FInv, Crash \/ Stop, "torn" \notin Faults
    PROVE  FInv'
<1>1. /\ pc = "idle" /\ pc' = "down" /\ paths' = <<>> /\ tail' = NoPath
      /\ now' = now /\ exists' = exists /\ size' = size
  BY DEF Crash, Stop, forget, files
<1>2. /\ Lines = {disk[k] : k \in watched} /\ Lines' = {disk'[k] : k \in watched'}
      /\ Lines # {} /\ watched \subseteq 1..Len(disk)
  BY <1>1, LinesOf DEF FInv
<1>3. /\ watched' = watched /\ \A k \in watched : disk'[k].path = disk[k].path
      /\ \/ got' = got
         \/ tail # NoPath /\ \E from \in Nat : read(from) /\ 1..from \subseteq got[tail]
  <2>1. CASE Crash \/ (Stop /\ ~opened)
    <3>1. disk' = disk /\ got' = got
      BY <2>1, EndedLine DEF Crash
    <3> QED BY <3>1 DEF watched
  <2>2. CASE Stop /\ opened
    <3>1. /\ Written(entry, disk[entry].inode, size[tail]) /\ tail # NoPath /\ read(fpos)
          /\ watched' = watched
      BY <2>2, EndedLine
    <3>2. fpos \in Nat /\ 1..fpos \subseteq got[tail]
      BY <2>2, BoundsAssumption DEF TInv, TypeOK, Behind
    <3>3. disk \in Seq(Entry) /\ entry \in 1..Len(disk) /\ size[tail] \in Int
      BY <3>1, OwnEntry DEF TInv, TypeOK
    <3>4. \A k \in 1..Len(disk) : disk'[k].path = disk[k].path
      BY <3>1, <3>3, WrittenWatched
    <3> QED BY <1>2, <3>1, <3>2, <3>4
  <2> QED BY <2>1, <2>2
<1>4. \A p \in Path : unread(p)' => unread(p)
  BY <1>1, <1>3, ReadsMore
<1>5. Lines' # {}
  BY <1>2, <1>3
<1>6. ASSUME NEW p \in Path, p < now, unread(p), NEW k \in watched PROVE disk[k].path <= p
  <2>1. CASE paths = <<>>
    BY <1>2, <1>6, <2>1 DEF FInv, Waiting
  <2>2. CASE paths # <<>>
    <3>1. p = tail \/ p \in Range(paths)
      BY <1>6, <2>2 DEF FInv, Waiting
    <3>2. paths \in Seq(Path) /\ 1 \in DOMAIN paths /\ DOMAIN paths = 1..Len(paths)
      BY <2>2 DEF TInv, TypeOK
    <3>3. p = tail => p = paths[1]
      BY <1>1, PathIsNat DEF QInv, Sorted
    <3>4. PICK j \in DOMAIN paths : p = paths[j]
      BY <3>1, <3>2, <3>3 DEF Range
    <3>5. paths[1] \in Path /\ disk[k].path <= paths[1] /\ disk[k].path \in Nat
      BY <1>2, <2>2, <3>2, LinesOf DEF QInv, Sorted
    <3>6. j = 1 \/ paths[1] < paths[j]
      BY <3>2 DEF QInv, QueueInOrder
    <3>7. paths[1] \in Nat /\ p \in Nat
      BY <3>5, PathIsNat
    <3> QED BY <3>4, <3>5, <3>6, <3>7
  <2> QED BY <2>1, <2>2
<1>7. \A p \in Path : p < now' /\ unread(p)' => Waiting(p)'
  <2>1. ASSUME NEW p \in Path, p < now', unread(p)', NEW l \in Lines' PROVE l.path <= p
    <3>1. PICK k \in watched : l = disk'[k]
      BY <1>2, <1>3
    <3>2. disk[k].path <= p
      BY <1>1, <1>4, <1>6, <2>1
    <3> QED BY <1>3, <3>1, <3>2
  <2> QED BY <1>1, <2>1 DEF Waiting
<1> QED BY <1>1, <1>5, <1>7 DEF FInv

\* compact and parse: the line that is kept is one of those there were.
LEMMA RestartWaiting == ASSUME TInv, TInv', FInv, Compact \/ Rewrite PROVE FInv'
<1>1. /\ now' = now /\ exists' = exists /\ size' = size /\ got' = got /\ paths' = paths
      /\ tail' = tail /\ pc \in {"down", "rewrite"}
  BY DEF Compact, Rewrite, files, task, watcher
<1>2. paths = <<>> /\ tail = NoPath
  BY <1>1 DEF TInv, Shapes, running
<1>3. Lines' \subseteq Lines /\ Lines' # {}
  BY <1>1, RestartLines DEF FInv
<1>4. \A p \in Path : p < now' /\ unread(p)' => Waiting(p)'
  BY <1>1, <1>2, <1>3 DEF FInv, Waiting, unread
<1> QED BY <1>1, <1>2, <1>3, <1>4 DEF FInv

\* The files, and the silence: a file of an earlier period is not written to.
LEMMA FilesWaiting ==
    ASSUME TInv, FInv, Write \/ Delete \/ GoSilent \/ UNCHANGED vars
    PROVE  FInv'
<1>1. /\ disk' = disk /\ kept' = kept /\ paths' = paths /\ now' = now /\ pc' = pc
      /\ tail' = tail /\ fresh' = fresh /\ opened' = opened /\ got' = got
  BY DEF Write, Delete, GoSilent, vars, posfile, task, watcher
<1>2. Lines' = Lines
  BY <1>1 DEF Lines, watched
<1>3. now \in Path /\ size \in [Path -> 0..MaxSize]
  BY DEF TInv, TypeOK
<1>4. \A p \in Path : p < now => p # now
  BY <1>3, PathIsNat
<1>5. /\ exists' \subseteq exists \cup {now}
      /\ size' = size \/ size' = [size EXCEPT ![now] = @ + 1]
  BY DEF Write, Delete, GoSilent, vars, files
<1>6. \A p \in Path : p < now => size'[p] = size[p] /\ (p \in exists' => p \in exists)
  BY <1>3, <1>4, <1>5
<1>7. \A p \in Path : p < now' /\ unread(p)' => Waiting(p)'
  BY <1>1, <1>2, <1>6 DEF FInv, Waiting, unread
<1>8. tail # NoPath => tail \in Path
  BY DEF TInv, TypeOK
<1> QED BY <1>1, <1>2, <1>6, <1>7, <1>8 DEF FInv

\* A period ends: its path was queued, or the process does not run and will find
\* the file, because no line is of a later period.
LEMMA PeriodWaiting ==
    ASSUME TInv, QInv, FInv, NoneRefused, NextPeriod, "late" \notin Faults
    PROVE  FInv'
<1>1. /\ disk' = disk /\ kept' = kept /\ paths' = paths /\ now' = now + 1 /\ pc' = pc
      /\ tail' = tail /\ fresh' = fresh /\ opened' = opened /\ got' = got
      /\ exists' = exists /\ size' = size /\ now < MaxTime
      /\ running => refreshed
      /\ tail = now /\ now \in exists => opened
  BY DEF NextPeriod, posfile, task, watcher, files
<1>2. Lines' = Lines
  BY <1>1 DEF Lines, watched
<1>3. now \in Nat /\ now \in Path /\ (tail # NoPath => tail \in Path)
  BY PathIsNat DEF TInv, TypeOK
<1>4. \A p \in Path : p < now + 1 => p < now \/ p = now
  BY <1>3, PathIsNat
<1>5. Waiting(now)
  <2>1. CASE running
    <3>1. now \in Range(paths)
      BY <1>1, <2>1 DEF NoneRefused
    <3>2. paths # <<>>
      BY <1>1, <2>1 DEF TInv, Shapes
    <3> QED BY <3>1, <3>2 DEF Waiting
  <2>2. CASE ~running
    <3>1. paths = <<>>
      BY <2>2 DEF TInv, Shapes
    <3>2. \A k \in DOMAIN kept : kept[k].path <= now
      <4>1. DOMAIN kept = 1..Len(kept)
        BY DEF TInv, TypeOK
      <4> QED BY <4>1 DEF QInv, Past
    <3>3. \A k \in watched : disk[k].path <= now
      BY LinesOf DEF QInv, Past
    <3>4. \A l \in Lines : l.path <= now
      BY <3>2, <3>3 DEF Lines, Range
    <3> QED BY <3>1, <3>4 DEF Waiting
  <2> QED BY <2>1, <2>2
<1>6. \A p \in Path : p < now' /\ unread(p)' => Waiting(p)
  BY <1>1, <1>4, <1>5 DEF FInv, unread
<1>7. \A p \in Path : Waiting(p) => Waiting(p)'
  BY <1>1, <1>2 DEF Waiting
<1>8. tail # NoPath /\ tail < now' /\ ~fresh' /\ ~opened' => tail \notin exists
  BY <1>1, <1>3, <1>4 DEF FInv
<1> QED BY <1>1, <1>2, <1>6, <1>7, <1>8 DEF FInv

\* Every step keeps the files that have lines left waiting.
LEMMA NextWaiting ==
    ASSUME "torn" \notin Faults, "late" \notin Faults
    PROVE  TInv /\ TInv' /\ QInv /\ Behind /\ FInv /\ NoneRefused /\ [Next]_vars => FInv'
BY RefreshWaiting, StopWatcherWaiting, StartWatcherWaiting, NotifyWaiting, EndWaiting,
   RestartWaiting, FilesWaiting, PeriodWaiting DEF Next

\* What waits is in the queue of a process that has updated its paths, and
\* found again by one that has not.
LEMMA WaitingIsFound == TInv /\ FInv => NoFileForgotten
<1> SUFFICES ASSUME TInv, FInv, NEW p \in Path, p < now, unread(p)
             PROVE  IF running /\ ~first_update_paths
                      THEN p = tail \/ p \in Range(paths) ELSE p \in recoverable
  BY DEF NoFileForgotten
<1>1. CASE running /\ ~first_update_paths
  <2>1. paths # <<>>
    BY <1>1 DEF TInv, Shapes
  <2> QED BY <1>1, <2>1 DEF FInv, Waiting
<1>2. CASE ~(running /\ ~first_update_paths)
  <2>1. paths = <<>> /\ pc \in {"idle", "down", "rewrite"}
    BY <1>2 DEF TInv, TypeOK, Shapes, running
  <2>2. PICK l \in Lines : l.path <= p
    BY <2>1 DEF FInv, Waiting
  <2>3. CASE pc = "rewrite"
    <3>1. l \in Range(kept)
      BY <2>3, LinesOf
    <3>2. PICK k \in DOMAIN kept : l = kept[k]
      BY <3>1 DEF Range
    <3>3. p \in recoverable
      BY <2>2, <3>2 DEF recoverable
    <3> QED BY <1>2, <3>3
  <2>4. CASE pc # "rewrite"
    <3>1. PICK k \in watched : l = disk[k]
      BY <2>4, LinesOf
    <3>2. p \in recoverable
      BY <2>2, <2>4, <3>1 DEF recoverable
    <3> QED BY <1>2, <3>2
  <2> QED BY <2>3, <2>4
<1> QED BY <1>1, <1>2

\* As long as the queue takes every path it is given, no file of an earlier
\* period that has lines left is forgotten: kills and stops between callbacks,
\* restarts, deleted files and watchers that cannot be set up included, for every
\* number of periods, lines and restarts.  A file so late in its period that no
\* notification finds it, and a kill in the middle of compact, are left out: the
\* code forgets files then (Manager::updateTaskPaths, PositionFile::compact).
THEOREM NoFileForgottenAlways ==
    ASSUME "torn" \notin Faults, "late" \notin Faults
    PROVE  Spec /\ []NoneRefused => []NoFileForgotten
<1>1. TInv /\ TInv' /\ QInv /\ Behind /\ FInv /\ NoneRefused /\ [Next]_vars => FInv'
  BY NextWaiting
<1> QED BY <1>1, WaitingIsFound, InitTypes, NextTypes, InitOrder, NextQueue, InitBehind,
           NextBehind, InitWaiting, PTL DEF Spec

\* A step hands over lines of the file that is watched only.
LEMMA OnlyTail ==
    ASSUME TInv, [Next]_vars
    PROVE  \/ got' = got
           \/ tail # NoPath /\ tail \in Path /\ \A p \in Path : p # tail => got'[p] = got[p]
<1>1. ASSUME tail # NoPath, NEW from \in Nat, read(from)
      PROVE  tail \in Path /\ \A p \in Path : p # tail => got'[p] = got[p]
  BY <1>1, OwnEntry, ReadLines
<1>2. fpos \in Nat
  BY BoundsAssumption DEF TInv, TypeOK
<1>3. CASE StopWatcher
  BY <1>1, <1>2, <1>3, StoppedLine
<1>4. CASE Notify
  BY <1>1, <1>4, NotifiedLine
<1>5. CASE Stop
  BY <1>1, <1>2, <1>5, EndedLine
<1>6. CASE ~StopWatcher /\ ~Notify /\ ~Stop
  BY <1>6 DEF Next, Refresh, StartWatcher, Crash, Compact, Rewrite, Write, Delete, NextPeriod,
              GoSilent, vars
<1> QED BY <1>3, <1>4, <1>5, <1>6

\* Under the same conditions the files are collected one after the other: no line
\* of a file is handed over while an earlier file has lines left.
THEOREM ChronologicalAlways ==
    ASSUME "torn" \notin Faults, "late" \notin Faults
    PROVE  Spec /\ []NoneRefused => Chronological
<1> DEFINE InTurn == \A p \in Path : got'[p] # got[p] => \A q \in Path : q < p => ~unread(q)
<1>1. TInv /\ TInv' /\ QInv /\ Behind /\ FInv /\ NoneRefused /\ [Next]_vars => FInv'
  BY NextWaiting
<1>2. TInv /\ QInv /\ FInv /\ [Next]_vars => InTurn
  <2> SUFFICES ASSUME TInv, QInv, FInv, [Next]_vars, NEW p \in Path, got'[p] # got[p],
                      NEW q \in Path, q < p, unread(q)
               PROVE  FALSE
    BY DEF InTurn
  <2>1. p = tail /\ tail # NoPath
    BY OnlyTail
  <2>2. paths # <<>> /\ paths \in Seq(Path)
    BY <2>1, OwnEntry DEF TInv, TypeOK
  <2>3. DOMAIN paths = 1..Len(paths) /\ 1 \in DOMAIN paths /\ paths[1] \in Path
    BY <2>2
  <2>4. /\ p \in Nat /\ q \in Nat /\ now \in Nat /\ paths[1] \in Nat
        /\ \A j \in DOMAIN paths : paths[j] \in Nat
    <3>1. now \in Path /\ \A j \in DOMAIN paths : paths[j] \in Path
      BY <2>2 DEF TInv, TypeOK
    <3> QED BY <2>3, <3>1, PathIsNat
  <2>5. tail <= paths[1] /\ paths[1] <= now
    BY <2>1, <2>2, <2>3 DEF QInv, QueueInOrder, Past
  <2>6. q < now
    BY <2>1, <2>4, <2>5
  <2>7. PICK j \in DOMAIN paths : q = paths[j]
    <3>1. q = tail \/ q \in Range(paths)
      BY <2>2, <2>6 DEF FInv, Waiting
    <3>2. q # tail
      BY <2>1, <2>4
    <3> QED BY <3>1, <3>2 DEF Range
  <2>8. j = 1 \/ paths[1] < paths[j]
    BY <2>3 DEF QInv, QueueInOrder
  <2> QED BY <2>1, <2>4, <2>5, <2>7, <2>8
<1> HIDE DEF InTurn
<1>3. Spec /\ []NoneRefused => [][InTurn]_vars
  BY <1>1, <1>2, InitTypes, NextTypes, InitOrder, NextQueue, InitBehind, NextBehind, InitWaiting,
     PTL DEF Spec
<1> QED BY <1>3 DEF Chronological, InTurn
-----------------------------------------------------------------------------
\* An update takes the current path unless the queue is full.
LEMMA Taken ==
    ASSUME TInv, Refresh
    PROVE  now \in Range(paths') \/ Len(paths') = PathQueueMaxSize
<1>1. PICK sorted \in inOrder(newer) : paths' = addPath(removeExpired(firstPaths(sorted)), now)
  BY DEF Refresh
<1> DEFINE q == firstPaths(sorted)
           r == removeExpired(q)
<1>2. q \in Seq(Path) /\ Len(q) <= PathQueueMaxSize
  BY FirstPaths
<1> HIDE DEF q
<1>3. r \in Seq(Path)
  BY <1>2, Removed
<1> HIDE DEF r
<1>4. paths' = addPath(r, now) /\ now \in Path
  BY <1>1 DEF q, r, TInv, TypeOK
<1>5. CASE r = <<>> \/ (now # Last(r) /\ Len(r) < PathQueueMaxSize)
  <2>1. paths' = Append(r, now)
    BY <1>4, <1>5 DEF addPath
  <2>2. Len(r) + 1 \in DOMAIN Append(r, now) /\ Append(r, now)[Len(r) + 1] = now
    BY <1>3
  <2> QED BY <2>1, <2>2 DEF Range
<1>6. CASE r # <<>> /\ now = Last(r)
  <2>1. paths' = r
    BY <1>4, <1>6 DEF addPath
  <2>2. Len(r) \in DOMAIN r /\ r[Len(r)] = now
    BY <1>3, <1>6 DEF Last
  <2> QED BY <2>1, <2>2 DEF Range
<1>7. CASE r # <<>> /\ now # Last(r) /\ ~(Len(r) < PathQueueMaxSize)
  <2>1. paths' = r
    BY <1>4, <1>7 DEF addPath
  <2>2. Len(paths') <= PathQueueMaxSize /\ Len(r) \in Nat
    BY <1>3, Refreshed
  <2> QED BY <1>7, <2>1, <2>2, BoundsAssumption
<1> QED BY <1>5, <1>6, <1>7

\* A queue of different paths from before a period is not longer than the number
\* of these periods.
LEMMA FewPaths ==
    ASSUME NEW q \in Seq(Path), NEW n \in Nat, n >= 1,
           \A a, b \in 1..Len(q) : a < b => q[a] < q[b],
           \A k \in 1..Len(q) : q[k] < n
    PROVE  Len(q) <= n - 1
<1>1. Len(q) \in Nat /\ DOMAIN q = 1..Len(q) /\ \A k \in 1..Len(q) : q[k] \in Path
  OBVIOUS
<1>2. \A k \in 1..Len(q) : q[k] \in Nat /\ q[k] \in 1..(n - 1)
  <2>1. \A k \in 1..Len(q) : q[k] >= 1 /\ q[k] \in Nat
    BY <1>1, BoundsAssumption DEF Path
  <2> QED BY <2>1
<1>3. q \in [1..Len(q) -> 1..(n - 1)]
  <2>1. q = [k \in 1..Len(q) |-> q[k]]
    BY <1>1
  <2> QED BY <1>2, <2>1
<1>4. /\ IsFiniteSet(1..Len(q)) /\ Cardinality(1..Len(q)) = Len(q)
      /\ IsFiniteSet(1..(n - 1)) /\ Cardinality(1..(n - 1)) = n - 1
  <2>1. 1 \in Int /\ Len(q) \in Int /\ n - 1 \in Int
    BY <1>1
  <2>2. /\ IsFiniteSet(1..Len(q))
        /\ Cardinality(1..Len(q)) = IF 1 > Len(q) THEN 0 ELSE Len(q) - 1 + 1
        /\ IsFiniteSet(1..(n - 1))
        /\ Cardinality(1..(n - 1)) = IF 1 > n - 1 THEN 0 ELSE n - 1 - 1 + 1
    BY <2>1, FS_Interval
  <2> QED BY <1>1, <2>2
<1>5. \A x, y \in 1..Len(q) : x # y => q[x] # q[y]
  <2> SUFFICES ASSUME NEW x \in 1..Len(q), NEW y \in 1..Len(q), x # y, q[x] = q[y] PROVE FALSE
    OBVIOUS
  <2>1. x < y \/ y < x
    BY <1>1
  <2> QED BY <1>2, <2>1
<1>6. ~(n - 1 < Len(q))
  BY <1>3, <1>4, <1>5, FS_PigeonHole
<1> QED BY <1>1, <1>6

\* With a queue that is long enough for the periods there are, none is refused.
LEMMA RefreshTaken ==
    ASSUME MaxTime <= PathQueueMaxSize + 1, TInv, QInv, Refresh, now < MaxTime
    PROVE  now \in Range(paths')
<1> SUFFICES ASSUME now \notin Range(paths') PROVE FALSE
  OBVIOUS
<1>1. Len(paths') = PathQueueMaxSize
  BY Taken
<1>2. paths' \in Seq(Path) /\ DOMAIN paths' = 1..Len(paths')
  BY Refreshed
<1>3. /\ \A a, b \in 1..Len(paths') : a < b => paths'[a] < paths'[b]
      /\ \A k \in 1..Len(paths') : paths'[k] <= now
  BY RefreshOrder
<1>4. now \in Nat /\ now >= 1 /\ \A k \in 1..Len(paths') : paths'[k] \in Nat
  <2>1. now \in Path /\ \A k \in 1..Len(paths') : paths'[k] \in Path
    BY <1>2 DEF TInv, TypeOK
  <2> QED BY <2>1, BoundsAssumption DEF Path
<1>5. \A k \in 1..Len(paths') : paths'[k] < now
  <2>1. \A k \in 1..Len(paths') : paths'[k] # now
    BY <1>2 DEF Range
  <2> QED BY <1>3, <1>4, <2>1
<1> DEFINE q == paths'
<1>6. Len(q) <= now - 1
  <2>1. q \in Seq(Path) /\ (\A a, b \in 1..Len(q) : a < b => q[a] < q[b]) /\ \A k \in 1..Len(q) : q[k] < now
    BY <1>2, <1>3, <1>5
  <2> HIDE DEF q
  <2> QED BY <1>4, <2>1, FewPaths
<1> QED BY <1>1, <1>4, <1>6, BoundsAssumption

\* The files that glob finds are from periods between the first and the current.
LEMMA FewNewer ==
    ASSUME MaxTime <= PathQueueMaxSize + 1, TInv
    PROVE  Cardinality(newer) < PathQueueMaxSize
<1>1. newer \subseteq 2..(MaxTime - 1)
  <2> SUFFICES ASSUME NEW p \in newer PROVE p \in 2..(MaxTime - 1)
    OBVIOUS
  <2>1. lastPaths # {} /\ p \in exists /\ Max(lastPaths) < p /\ p < now
    BY DEF newer, globed
  <2>2. Max(lastPaths) \in Path /\ p \in Path /\ now \in Path
    BY <2>1, LastPath DEF TInv, TypeOK
  <2> QED BY <2>1, <2>2, BoundsAssumption DEF Path
<1>2. /\ IsFiniteSet(2..(MaxTime - 1))
      /\ Cardinality(2..(MaxTime - 1)) = IF 2 > MaxTime - 1 THEN 0 ELSE MaxTime - 1 - 2 + 1
  <2>1. 2 \in Int /\ MaxTime - 1 \in Int
    BY BoundsAssumption
  <2> QED BY <2>1, FS_Interval
<1>3. IsFiniteSet(newer) /\ Cardinality(newer) <= Cardinality(2..(MaxTime - 1))
  BY <1>1, <1>2, FS_Subset
<1>4. Cardinality(newer) \in Nat
  BY <1>3, FS_CardinalityType
<1> QED BY <1>2, <1>3, <1>4, BoundsAssumption

\* As many periods as the queue holds, and one more, are collected without any
\* condition on the behaviour.
THEOREM NoneRefusedAlways ==
    ASSUME MaxTime <= PathQueueMaxSize + 1
    PROVE  Spec => []NoneRefused
<1> DEFINE Queued == running /\ refreshed /\ now < MaxTime => now \in Range(paths)
<1>1. Init => Queued
  <2> SUFFICES ASSUME Init PROVE Queued
    OBVIOUS
  <2>1. paths = <<1>> /\ now = 1
    BY DEF Init
  <2> QED BY <2>1 DEF Range
<1>2. TInv /\ QInv /\ Queued /\ [Next]_vars => Queued'
  <2> SUFFICES ASSUME TInv, QInv, Queued, [Next]_vars, running', refreshed', now' < MaxTime
               PROVE  now' \in Range(paths')
    OBVIOUS
  <2>1. CASE Refresh
    <3>1. now' = now
      BY <2>1 DEF Refresh
    <3> QED BY <2>1, <3>1, RefreshTaken
  <2>2. CASE NextPeriod \/ Crash \/ Stop
    BY <2>2 DEF NextPeriod, Crash, Stop, forget
  <2>3. CASE Compact \/ Rewrite
    <3>1. refreshed' = refreshed /\ ~running
      BY <2>3 DEF Compact, Rewrite, running
    <3> QED BY <3>1 DEF TInv, Shapes
  <2>4. CASE \/ StopWatcher \/ StartWatcher \/ Notify \/ Write \/ Delete \/ GoSilent
             \/ UNCHANGED vars
    <3>1. paths' = paths /\ now' = now /\ refreshed' = refreshed
      BY <2>4 DEF StopWatcher, StartWatcher, Notify, Write, Delete, GoSilent, vars, task
    <3>2. running
      BY <2>4 DEF StopWatcher, StartWatcher, Notify, Write, Delete, GoSilent, vars, running
    <3> QED BY <3>1, <3>2
  <2> QED BY <2>1, <2>2, <2>3, <2>4 DEF Next
<1>3. TInv /\ Queued => NoneRefused
  BY FewNewer DEF NoneRefused
<1> HIDE DEF Queued
<1> QED BY <1>1, <1>2, <1>3, InitTypes, NextTypes, InitOrder, NextQueue, PTL DEF Spec
=============================================================================
