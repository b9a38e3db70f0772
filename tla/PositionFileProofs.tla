------------------------- MODULE PositionFileProofs -------------------------
(***************************************************************************)
(* PositionFile for every number of patterns, paths, lines and restarts:   *)
(* the entries are well typed and no two share a line; as long as inodes   *)
(* fit into a line a restart finds what was recorded last; and as long as  *)
(* positions fit into an int as well, reading goes on there.               *)
(***************************************************************************)
EXTENDS PositionFile, FiniteSetTheorems, WellFoundedInduction, TLAPS

\* What is recorded of a pattern, before it is cut to the width of a line.
Said(p) == [pattern : {p}, path : Path, pos : 0..MaxSize, inode : Nat]

\* Only a process that was killed leaves a torn line, the last one; a process
\* that does not run has nothing in memory.
Shapes ==
    /\ DOMAIN tails = Pattern /\ DOMAIN said = Pattern
    /\ up => disk \in Seq(Line) /\ Len(disk) <= MaxLines
    /\ \A k \in 1..Len(disk) : disk[k] = Torn \/ k <= MaxLines
    /\ ~up => /\ DOMAIN m_pe_map = {}
              /\ \A p \in Pattern : tails[p] = None /\ path[p] = NoPath
    /\ \A p \in Pattern : said[p] # None => said[p] \in Said(p)
    /\ \A p \in Pattern : tails[p] # None => said[p] # None

\* A line that compact does not drop.
isWatched(l) == l.pos # UNWATCHED_POSITION

\* The lines that are watched are those that have an entry.
Mapped ==
    up => /\ \A k \in 1..Len(disk) :
                isWatched(disk[k]) =>
                    /\ <<disk[k].pattern, disk[k].path>> \in DOMAIN m_pe_map
                    /\ m_pe_map[<<disk[k].pattern, disk[k].path>>] = k
          /\ \A key \in DOMAIN m_pe_map :
                isWatched(disk[m_pe_map[key]])

TInv == TypeOK /\ Shapes /\ Mapped

\* The last line of a pattern that is watched says what was recorded last, and
\* no earlier one has its path or a later one.
Recorded(p) ==
    IF said[p] = None
      THEN watched(disk, p) = {}
      ELSE \E e \in watched(disk, p) :
             /\ disk[e] = said[p]
             /\ \A k \in watched(disk, p) :
                  k # e => k < e /\ disk[k].path < said[p].path

\* A tail watcher has that line and its path, and so has a task that waits for
\* its tail watcher.
Owned(p) ==
    /\ tails[p] # None => /\ tails[p].path = said[p].path
                          /\ disk[tails[p].entry] = said[p]
    /\ path[p] # NoPath /\ said[p] # None => path[p] = said[p].path

RInv == \A p \in Pattern \ odd : Recorded(p) /\ Owned(p)

\* What is recorded fits into an int.
Fits ==
    /\ \A q \in Path : size[q] <= IntMax
    /\ \A p \in Pattern : said[p] # None => said[p].pos <= IntMax
-----------------------------------------------------------------------------
\* Lines, tail watchers and what is recorded are told apart from none of them.
LEMMA Distinct ==
    /\ Torn \notin Line /\ None \notin Line /\ None \notin TailWatcher
    /\ \A p \in Pattern : None \notin Said(p)
<1>1. \A l \in Line : DOMAIN l = {"pattern", "path", "pos", "inode"}
  BY DEF Line
<1>2. \A w \in TailWatcher : DOMAIN w = {"path", "entry", "open", "fpos"}
  BY DEF TailWatcher
<1>3. \A p \in Pattern : \A s \in Said(p) : DOMAIN s = {"pattern", "path", "pos", "inode"}
  BY DEF Said
<1>4. DOMAIN None = {"none"} /\ DOMAIN Torn = {"torn"}
  BY DEF None, Torn
<1>5. "none" \notin {"pattern", "path", "pos", "inode"} /\ "torn" \notin {"pattern", "path", "pos", "inode"}
      /\ "none" \notin {"path", "entry", "open", "fpos"}
  OBVIOUS
<1> QED BY <1>1, <1>2, <1>3, <1>4, <1>5

\* A set of line numbers, or of paths, has a largest one.
LEMMA MaxIsLast ==
    ASSUME NEW n \in Nat, NEW S \in SUBSET (1..n), S # {}
    PROVE  Max(S) \in S /\ \A k \in S : k <= Max(S)
<1> DEFINE R == {ss \in Nat \X Nat : ss[1] < ss[2]}
<1> DEFINE T == {n - k : k \in S}
<1>1. IsWellFoundedOn(R, Nat)
  BY NatLessThanWellFounded DEF OpToRel
<1>2. T \subseteq Nat /\ T # {}
  <2>1. PICK k \in S : TRUE
    OBVIOUS
  <2>2. n - k \in T
    OBVIOUS
  <2>3. \A j \in S : n - j \in Nat
    OBVIOUS
  <2> QED BY <2>2, <2>3
<1> HIDE DEF R, T
<1>3. PICK x \in T : \A y \in T : ~(<<y, x>> \in R)
  BY <1>1, <1>2, WFMin
<1>4. PICK m \in S : x = n - m
  BY DEF T
<1>5. ASSUME NEW k \in S PROVE k <= m
  <2>1. n - k \in T
    BY DEF T
  <2>2. ~(n - k < x)
    BY <1>2, <1>3, <2>1 DEF R
  <2> QED BY <2>2, <1>4
<1> QED BY <1>5 DEF Max

\* FilePositionEntry writes one line in place and leaves its pattern and path.
LEMMA Updates ==
    ASSUME NEW d \in Seq(Line), NEW e \in 1..Len(d), NEW ino \in Nat,
           NEW pos \in {UNWATCHED_POSITION} \cup (0..MaxSize)
    PROVE  /\ update(d, e, ino, pos) \in Seq(Line) /\ updatePos(d, e, pos) \in Seq(Line)
           /\ Len(update(d, e, ino, pos)) = Len(d) /\ Len(updatePos(d, e, pos)) = Len(d)
           /\ \A k \in 1..Len(d) : k # e => /\ update(d, e, ino, pos)[k] = d[k]
                                           /\ updatePos(d, e, pos)[k] = d[k]
           /\ update(d, e, ino, pos)[e] = [pattern |-> d[e].pattern, path |-> d[e].path,
                                           pos |-> pos, inode |-> ino % InoLimit]
           /\ updatePos(d, e, pos)[e] = [pattern |-> d[e].pattern, path |-> d[e].path,
                                         pos |-> pos, inode |-> d[e].inode]
<1>1. d[e] \in Line
  OBVIOUS
<1>2. ino % InoLimit \in 0..(InoLimit - 1)
  BY PositionFileAssumption
<1>3. /\ [[d[e] EXCEPT !.inode = ino % InoLimit] EXCEPT !.pos = pos] =
             [pattern |-> d[e].pattern, path |-> d[e].path, pos |-> pos, inode |-> ino % InoLimit]
      /\ [d[e] EXCEPT !.pos = pos] =
             [pattern |-> d[e].pattern, path |-> d[e].path, pos |-> pos, inode |-> d[e].inode]
  <2> DEFINE m == [d[e] EXCEPT !.inode = ino % InoLimit]
  <2>1. m \in Line /\ m.pattern = d[e].pattern /\ m.path = d[e].path /\ m.inode = ino % InoLimit
    BY <1>1, <1>2 DEF Line
  <2> HIDE DEF m
  <2>2. ASSUME NEW l \in Line
        PROVE  [l EXCEPT !.pos = pos] =
                   [pattern |-> l.pattern, path |-> l.path, pos |-> pos, inode |-> l.inode]
    BY DEF Line
  <2>3. [m EXCEPT !.pos = pos] =
            [pattern |-> d[e].pattern, path |-> d[e].path, pos |-> pos, inode |-> ino % InoLimit]
    BY <2>1, <2>2
  <2> QED BY <1>1, <2>2, <2>3 DEF m
<1>4. /\ [pattern |-> d[e].pattern, path |-> d[e].path, pos |-> pos, inode |-> ino % InoLimit] \in Line
      /\ [pattern |-> d[e].pattern, path |-> d[e].path, pos |-> pos, inode |-> d[e].inode] \in Line
  BY <1>1, <1>2 DEF Line
<1>5. /\ update(d, e, ino, pos) =
             [d EXCEPT ![e] = [pattern |-> d[e].pattern, path |-> d[e].path,
                               pos |-> pos, inode |-> ino % InoLimit]]
      /\ updatePos(d, e, pos) =
             [d EXCEPT ![e] = [pattern |-> d[e].pattern, path |-> d[e].path,
                               pos |-> pos, inode |-> d[e].inode]]
  BY <1>1, <1>3 DEF update, updatePos
<1> HIDE DEF update, updatePos
<1> QED BY <1>4, <1>5

\* The line that operator[] appends.
NewLine(p, q) == [pattern |-> p, path |-> q, pos |-> 0, inode |-> INO_NONE]

\* operator[]: the entry is the line of its pattern and path, an old one that is
\* watched or a new one behind all the others.
LEMMA Entered ==
    ASSUME TInv, up, NEW p \in Pattern, NEW q \in Path, line(p, q) <= MaxLines
    PROVE  /\ appended(p, q) \in Seq(Line) /\ Len(appended(p, q)) <= MaxLines
           /\ Len(disk) <= Len(appended(p, q)) /\ Len(disk) \in Nat
           /\ line(p, q) \in 1..Len(appended(p, q))
           /\ \A k \in 1..Len(disk) : appended(p, q)[k] = disk[k]
           /\ \A k \in 1..Len(appended(p, q)) : k \in 1..Len(disk) \/ k = line(p, q)
           /\ appended(p, q)[line(p, q)].pattern = p
           /\ appended(p, q)[line(p, q)].path = q
           /\ isWatched(appended(p, q)[line(p, q)])
           /\ <<p, q>> \in DOMAIN m_pe_map => /\ line(p, q) = m_pe_map[<<p, q>>]
                                              /\ appended(p, q) = disk
           /\ <<p, q>> \notin DOMAIN m_pe_map =>
                 /\ line(p, q) = Len(disk) + 1
                 /\ Len(appended(p, q)) = Len(disk) + 1
                 /\ appended(p, q)[line(p, q)] = NewLine(p, q)
<1> DEFINE new == NewLine(p, q)
<1>1. disk \in Seq(Line) /\ Len(disk) \in Nat /\ DOMAIN disk = 1..Len(disk) /\ Len(disk) <= MaxLines
  BY DEF TInv, Shapes
<1>2. new \in Line /\ new.pattern = p /\ new.path = q /\ isWatched(new)
  BY PositionFileAssumption DEF isWatched, NewLine, Line, INO_NONE, UNWATCHED_POSITION
<1>3. CASE <<p, q>> \in DOMAIN m_pe_map
  <2>1. /\ m_pe_map[<<p, q>>] \in DOMAIN disk
        /\ disk[m_pe_map[<<p, q>>]].pattern = p /\ disk[m_pe_map[<<p, q>>]].path = q
        /\ isWatched(disk[m_pe_map[<<p, q>>]])
    BY <1>3 DEF TInv, TypeOK, Mapped
  <2>2. line(p, q) = m_pe_map[<<p, q>>] /\ appended(p, q) = disk
    BY <1>3, <2>1 DEF line, appended
  <2>3. disk \in Seq(Line) /\ m_pe_map[<<p, q>>] \in 1..Len(disk) /\ Len(disk) <= MaxLines
    BY <1>1, <2>1
  <2>4. \A k \in 1..Len(disk) : k \in 1..Len(disk) \/ k = line(p, q)
    OBVIOUS
  <2>5. Len(disk) <= Len(disk) /\ Len(disk) \in Nat
    BY <1>1
  <2> QED BY <1>3, <2>1, <2>2, <2>3, <2>4, <2>5, Zenon
<1>4. CASE <<p, q>> \notin DOMAIN m_pe_map
  <2>1. line(p, q) = Len(disk) + 1
    BY <1>4 DEF line
  <2>2. appended(p, q) = Append(disk, new)
    BY <1>1, <2>1 DEF appended, NewLine
  <2>3. /\ Append(disk, new) \in Seq(Line) /\ Len(Append(disk, new)) = Len(disk) + 1
        /\ Append(disk, new)[Len(disk) + 1] = new
        /\ \A k \in 1..Len(disk) : Append(disk, new)[k] = disk[k]
    BY <1>1, <1>2
  <2> HIDE DEF new
  <2>4. \A k \in 1..Len(appended(p, q)) : k \in 1..Len(disk) \/ k = line(p, q)
    BY <1>1, <2>1, <2>2, <2>3
  <2>5. appended(p, q)[line(p, q)] = new
    BY <2>1, <2>2, <2>3
  <2>6. line(p, q) \in 1..Len(appended(p, q)) /\ Len(appended(p, q)) = Len(disk) + 1
    BY <1>1, <2>1, <2>2, <2>3
  <2>7. appended(p, q)[line(p, q)] = NewLine(p, q)
    BY <2>5 DEF new
  <2>8. /\ appended(p, q)[line(p, q)].pattern = p /\ appended(p, q)[line(p, q)].path = q
        /\ isWatched(appended(p, q)[line(p, q)])
    BY <1>2, <2>5
  <2>9. /\ appended(p, q) \in Seq(Line) /\ \A k \in 1..Len(disk) : appended(p, q)[k] = disk[k]
        /\ Len(disk) <= Len(appended(p, q)) /\ Len(appended(p, q)) <= MaxLines
    BY <1>1, <2>1, <2>2, <2>3
  <2> QED BY <1>1, <1>4, <2>1, <2>4, <2>6, <2>7, <2>8, <2>9
<1> QED BY <1>3, <1>4
-----------------------------------------------------------------------------
\* The parts of TypeOK about the entries and about the tail watchers.
Keyed ==
    /\ DOMAIN m_pe_map \subseteq Key
    /\ \A k \in DOMAIN m_pe_map :
          /\ m_pe_map[k] \in DOMAIN disk
          /\ disk[m_pe_map[k]] \in Line
          /\ <<disk[m_pe_map[k]].pattern, disk[m_pe_map[k]].path>> = k
Tailed(p) ==
    tails[p] # None => /\ tails[p] \in TailWatcher
                       /\ \E k \in DOMAIN m_pe_map : k[1] = p /\ m_pe_map[k] = tails[p].entry

\* A position file that has the lines of another one with other positions and
\* inodes, the same ones watched.
SameLines(d, b) ==
    /\ d \in Seq(Line) /\ Len(d) = Len(b)
    /\ \A k \in 1..Len(b) :
         /\ d[k].pattern = b[k].pattern /\ d[k].path = b[k].path
         /\ isWatched(d[k]) <=> isWatched(b[k])

\* Lines that are written to in place keep their entries.
LEMMA InPlace ==
    ASSUME TInv, up, SameLines(disk', disk), m_pe_map' = m_pe_map
    PROVE  Keyed' /\ Mapped'
<1>0. /\ disk \in Seq(Line) /\ DOMAIN disk = 1..Len(disk)
      /\ disk' \in Seq(Line) /\ DOMAIN disk' = 1..Len(disk') /\ Len(disk') = Len(disk)
  BY DEF TInv, Shapes, SameLines
<1>1. ASSUME NEW k \in DOMAIN m_pe_map
      PROVE  /\ m_pe_map[k] \in DOMAIN disk' /\ disk'[m_pe_map[k]] \in Line
             /\ <<disk'[m_pe_map[k]].pattern, disk'[m_pe_map[k]].path>> = k
             /\ isWatched(disk'[m_pe_map[k]])
  <2>1. /\ m_pe_map[k] \in 1..Len(disk) /\ isWatched(disk[m_pe_map[k]])
        /\ <<disk[m_pe_map[k]].pattern, disk[m_pe_map[k]].path>> = k
    BY <1>0 DEF TInv, TypeOK, Mapped
  <2>2. /\ disk'[m_pe_map[k]].pattern = disk[m_pe_map[k]].pattern
        /\ disk'[m_pe_map[k]].path = disk[m_pe_map[k]].path
        /\ isWatched(disk'[m_pe_map[k]])
    BY <2>1 DEF SameLines
  <2> QED BY <1>0, <2>1, <2>2
<1>2. Keyed'
  BY <1>1 DEF Keyed, TInv, TypeOK
<1>3. ASSUME NEW k \in 1..Len(disk'), isWatched(disk'[k])
      PROVE  /\ <<disk'[k].pattern, disk'[k].path>> \in DOMAIN m_pe_map
             /\ m_pe_map[<<disk'[k].pattern, disk'[k].path>>] = k
  <2>1. /\ disk'[k].pattern = disk[k].pattern /\ disk'[k].path = disk[k].path
        /\ isWatched(disk[k]) /\ k \in 1..Len(disk)
    BY <1>0, <1>3 DEF SameLines
  <2> QED BY <2>1 DEF TInv, Mapped
<1>4. Mapped'
  BY <1>1, <1>3 DEF Mapped
<1> QED BY <1>2, <1>4

\* operator[] makes an entry for the line that it returns.
LEMMA WithEntry ==
    ASSUME TInv, up, NEW p \in Pattern, NEW q \in Path, line(p, q) <= MaxLines,
           SameLines(disk', appended(p, q)), m_pe_map' = entered(p, q)
    PROVE  /\ Keyed' /\ Mapped'
           /\ \A k \in DOMAIN m_pe_map : k \in DOMAIN m_pe_map' /\ m_pe_map'[k] = m_pe_map[k]
           /\ <<p, q>> \in DOMAIN m_pe_map' /\ m_pe_map'[<<p, q>>] = line(p, q)
<1> DEFINE d == appended(p, q)
           e == line(p, q)
<1>0. /\ disk \in Seq(Line) /\ DOMAIN disk = 1..Len(disk) /\ Len(disk) \in Nat
      /\ disk' \in Seq(Line) /\ DOMAIN disk' = 1..Len(disk') /\ Len(disk') = Len(d)
  BY DEF TInv, Shapes, SameLines
<1>1. /\ d \in Seq(Line) /\ Len(disk) <= Len(d) /\ e \in 1..Len(d)
      /\ \A k \in 1..Len(disk) : d[k] = disk[k]
      /\ \A k \in 1..Len(d) : k \in 1..Len(disk) \/ k = e
      /\ d[e].pattern = p /\ d[e].path = q /\ isWatched(d[e])
      /\ <<p, q>> \in DOMAIN m_pe_map => e = m_pe_map[<<p, q>>]
      /\ <<p, q>> \notin DOMAIN m_pe_map => e = Len(disk) + 1
  <2>1. /\ d \in Seq(Line) /\ Len(disk) <= Len(d) /\ e \in 1..Len(d)
        /\ \A k \in 1..Len(disk) : d[k] = disk[k]
    BY Entered
  <2>2. \A k \in 1..Len(d) : k \in 1..Len(disk) \/ k = e
    BY Entered
  <2>3. d[e].pattern = p /\ d[e].path = q /\ isWatched(d[e])
    BY Entered
  <2>4. /\ <<p, q>> \in DOMAIN m_pe_map => e = m_pe_map[<<p, q>>]
        /\ <<p, q>> \notin DOMAIN m_pe_map => e = Len(disk) + 1
    BY Entered
  <2> QED BY <2>1, <2>2, <2>3, <2>4
<1>2. /\ DOMAIN m_pe_map' = DOMAIN m_pe_map \cup {<<p, q>>}
      /\ m_pe_map'[<<p, q>>] = e
      /\ \A k \in DOMAIN m_pe_map : m_pe_map'[k] = m_pe_map[k]
  <2>1. \A k \in DOMAIN m_pe_map : k = <<p, q>> => e = m_pe_map[k]
    BY <1>1
  <2> QED BY <2>1 DEF entered
<1> HIDE DEF d, e
<1>3. ASSUME NEW k \in DOMAIN m_pe_map'
      PROVE  /\ m_pe_map'[k] \in DOMAIN disk' /\ disk'[m_pe_map'[k]] \in Line
             /\ <<disk'[m_pe_map'[k]].pattern, disk'[m_pe_map'[k]].path>> = k
             /\ isWatched(disk'[m_pe_map'[k]])
  <2>1. /\ m_pe_map'[k] \in 1..Len(d) /\ isWatched(d[m_pe_map'[k]])
        /\ <<d[m_pe_map'[k]].pattern, d[m_pe_map'[k]].path>> = k
    <3>1. CASE k = <<p, q>>
      BY <1>1, <1>2, <3>1
    <3>2. CASE k \in DOMAIN m_pe_map
      <4>1. /\ m_pe_map[k] \in 1..Len(disk) /\ isWatched(disk[m_pe_map[k]])
            /\ <<disk[m_pe_map[k]].pattern, disk[m_pe_map[k]].path>> = k
        BY <1>0, <3>2 DEF TInv, TypeOK, Mapped
      <4>2. m_pe_map[k] \in 1..Len(d) /\ d[m_pe_map[k]] = disk[m_pe_map[k]]
        BY <1>0, <1>1, <4>1
      <4> QED BY <1>2, <3>2, <4>1, <4>2
    <3> QED BY <1>2, <3>1, <3>2
  <2>2. /\ disk'[m_pe_map'[k]].pattern = d[m_pe_map'[k]].pattern
        /\ disk'[m_pe_map'[k]].path = d[m_pe_map'[k]].path
        /\ isWatched(disk'[m_pe_map'[k]])
    BY <2>1 DEF SameLines, d
  <2> QED BY <1>0, <2>1, <2>2
<1>4. Keyed'
  BY <1>2, <1>3 DEF Keyed, TInv, TypeOK, Key
<1>5. ASSUME NEW k \in 1..Len(disk'), isWatched(disk'[k])
      PROVE  /\ <<disk'[k].pattern, disk'[k].path>> \in DOMAIN m_pe_map'
             /\ m_pe_map'[<<disk'[k].pattern, disk'[k].path>>] = k
  <2>1. /\ disk'[k].pattern = d[k].pattern /\ disk'[k].path = d[k].path
        /\ isWatched(d[k]) /\ k \in 1..Len(d)
    BY <1>0, <1>5 DEF SameLines, d
  <2>2. CASE k = e
    BY <1>1, <1>2, <2>1, <2>2
  <2>3. CASE k \in 1..Len(disk)
    <3>1. d[k] = disk[k]
      BY <1>1, <2>3
    <3>2. /\ <<disk[k].pattern, disk[k].path>> \in DOMAIN m_pe_map
          /\ m_pe_map[<<disk[k].pattern, disk[k].path>>] = k
      BY <2>1, <2>3, <3>1 DEF TInv, Mapped
    <3> QED BY <1>2, <2>1, <3>1, <3>2
  <2> QED BY <1>1, <2>1, <2>2, <2>3
<1>6. Mapped'
  BY <1>3, <1>5 DEF Mapped
<1> QED BY <1>2, <1>4, <1>6 DEF e
-----------------------------------------------------------------------------
\* An entry that is updated stays watched.
LEMMA UpdatesSame ==
    ASSUME NEW d \in Seq(Line), NEW e \in 1..Len(d), NEW ino \in Nat, NEW pos \in 0..MaxSize,
           isWatched(d[e])
    PROVE  SameLines(update(d, e, ino, pos), d) /\ SameLines(updatePos(d, e, pos), d)
<1>1. pos # UNWATCHED_POSITION /\ pos \in {UNWATCHED_POSITION} \cup (0..MaxSize)
  BY DEF UNWATCHED_POSITION
<1>2. /\ update(d, e, ino, pos) \in Seq(Line) /\ updatePos(d, e, pos) \in Seq(Line)
      /\ Len(update(d, e, ino, pos)) = Len(d) /\ Len(updatePos(d, e, pos)) = Len(d)
      /\ \A k \in 1..Len(d) : k # e => /\ update(d, e, ino, pos)[k] = d[k]
                                      /\ updatePos(d, e, pos)[k] = d[k]
  BY <1>1, Updates
<1>3. /\ update(d, e, ino, pos)[e] = [pattern |-> d[e].pattern, path |-> d[e].path,
                                      pos |-> pos, inode |-> ino % InoLimit]
      /\ updatePos(d, e, pos)[e] = [pattern |-> d[e].pattern, path |-> d[e].path,
                                    pos |-> pos, inode |-> d[e].inode]
  BY <1>1, Updates
<1>4. /\ update(d, e, ino, pos)[e].pattern = d[e].pattern /\ update(d, e, ino, pos)[e].path = d[e].path
      /\ isWatched(update(d, e, ino, pos)[e])
      /\ updatePos(d, e, pos)[e].pattern = d[e].pattern /\ updatePos(d, e, pos)[e].path = d[e].path
      /\ isWatched(updatePos(d, e, pos)[e])
  BY <1>1, <1>3 DEF isWatched
<1> QED BY <1>2, <1>4 DEF SameLines

\* The entry of a tail watcher is a watched line of its pattern.
LEMMA OwnEntry ==
    ASSUME TInv, up, NEW p \in Pattern, tails[p] # None
    PROVE  /\ tails[p] \in TailWatcher /\ tails[p].entry \in 1..Len(disk)
           /\ tails[p].path \in Path /\ size[tails[p].path] \in 0..MaxSize
           /\ disk[tails[p].entry].pattern = p /\ isWatched(disk[tails[p].entry])
           /\ disk[tails[p].entry] \in Line
<1>1. tails[p] \in TailWatcher
  BY DEF TInv, TypeOK
<1>2. PICK k \in DOMAIN m_pe_map : k[1] = p /\ m_pe_map[k] = tails[p].entry
  BY DEF TInv, TypeOK
<1>3. /\ m_pe_map[k] \in DOMAIN disk /\ disk[m_pe_map[k]] \in Line
      /\ <<disk[m_pe_map[k]].pattern, disk[m_pe_map[k]].path>> = k
      /\ isWatched(disk[m_pe_map[k]])
  BY DEF TInv, TypeOK, Mapped
<1>4. disk[m_pe_map[k]].pattern = k[1]
  BY <1>3
<1>5. DOMAIN disk = 1..Len(disk)
  BY DEF TInv, Shapes
<1>6. tails[p].path \in Path /\ size[tails[p].path] \in 0..MaxSize
  BY <1>1 DEF TailWatcher, TInv, TypeOK
<1> QED BY <1>1, <1>2, <1>3, <1>4, <1>5, <1>6

\* A notification records the size of the file in the entry and nowhere else.
LEMMA RecordedLines ==
    ASSUME TInv, up, NEW p \in Pattern, tails[p] # None, NEW d \in Seq(Line),
           Len(disk) <= Len(d), \A k \in 1..Len(disk) : d[k] = disk[k]
    PROVE  /\ SameLines(recorded(d, p), d)
           /\ \A k \in 1..Len(d) : k # tails[p].entry => recorded(d, p)[k] = d[k]
           /\ ~tails[p].open => recorded(d, p) = d
           /\ tails[p].open =>
                recorded(d, p)[tails[p].entry] =
                    [pattern |-> p, path |-> disk[tails[p].entry].path,
                     pos |-> size[tails[p].path], inode |-> disk[tails[p].entry].inode]
<1> DEFINE e == tails[p].entry
           s == size[tails[p].path]
<1>1. /\ e \in 1..Len(disk) /\ s \in 0..MaxSize
      /\ disk[e].pattern = p /\ isWatched(disk[e]) /\ disk[e] \in Line
  BY OwnEntry
<1>2. Len(disk) \in Nat /\ Len(d) \in Nat
  BY DEF TInv, Shapes
<1>3. e \in 1..Len(d) /\ d[e] = disk[e]
  BY <1>1, <1>2
<1> HIDE DEF e, s
<1>4. CASE tails[p].open
  <2>1. recorded(d, p) = updatePos(d, e, s)
    BY <1>4 DEF recorded, e, s
  <2>2. SameLines(updatePos(d, e, s), d)
    BY <1>1, <1>3, UpdatesSame
  <2>3. /\ \A k \in 1..Len(d) : k # e => updatePos(d, e, s)[k] = d[k]
        /\ updatePos(d, e, s)[e] = [pattern |-> d[e].pattern, path |-> d[e].path,
                                    pos |-> s, inode |-> d[e].inode]
    <3>1. s \in {UNWATCHED_POSITION} \cup (0..MaxSize) /\ 0 \in Nat
      BY <1>1
    <3> QED BY <1>3, <3>1, Updates
  <2>4. updatePos(d, e, s)[e] = [pattern |-> p, path |-> disk[e].path,
                                 pos |-> s, inode |-> disk[e].inode]
    BY <1>1, <1>3, <2>3
  <2> QED BY <1>4, <2>1, <2>2, <2>3, <2>4 DEF e, s
<1>5. CASE ~tails[p].open
  <2>1. recorded(d, p) = d
    BY <1>5 DEF recorded
  <2>2. SameLines(d, d)
    BY DEF SameLines
  <2> QED BY <1>5, <2>1, <2>2
<1> QED BY <1>4, <1>5

\* What a notification records is well typed.
LEMMA SaidType ==
    ASSUME TInv, up, NEW p \in Pattern, tails[p] # None
    PROVE  /\ said[p] \in Said(p) /\ saidOf(p) \in Said(p) /\ said[p] # None /\ saidOf(p) # None
           /\ saidOf(p).path = said[p].path /\ saidOf(p).inode = said[p].inode
           /\ ~tails[p].open => saidOf(p) = said[p]
           /\ tails[p].open =>
                saidOf(p) = [pattern |-> p, path |-> said[p].path,
                             pos |-> size[tails[p].path], inode |-> said[p].inode]
<1>1. said[p] \in Said(p) /\ size[tails[p].path] \in 0..MaxSize
  BY OwnEntry DEF TInv, Shapes
<1> DEFINE x == size[tails[p].path]
<1>2. ASSUME NEW v \in Said(p), NEW y \in 0..MaxSize
      PROVE  [v EXCEPT !.pos = y] = [pattern |-> p, path |-> v.path, pos |-> y, inode |-> v.inode]
  BY DEF Said
<1>3. tails[p].open => saidOf(p) = [pattern |-> p, path |-> said[p].path,
                                    pos |-> x, inode |-> said[p].inode]
  BY <1>1, <1>2 DEF saidOf
<1>4. [pattern |-> p, path |-> said[p].path, pos |-> x, inode |-> said[p].inode] \in Said(p)
  BY <1>1 DEF Said
<1>5. ~tails[p].open => saidOf(p) = said[p]
  BY DEF saidOf
<1>6. saidOf(p) \in Said(p) /\ saidOf(p).path = said[p].path /\ saidOf(p).inode = said[p].inode
  <2>1. CASE tails[p].open
    BY <1>3, <1>4, <2>1
  <2>2. CASE ~tails[p].open
    BY <1>1, <1>5, <2>2
  <2> QED BY <2>1, <2>2
<1> QED BY <1>1, <1>3, <1>5, <1>6, Distinct
-----------------------------------------------------------------------------
\* The parts of the invariant of a process that runs.
LEMMA Together ==
    ASSUME up' = TRUE, disk' \in Seq(Line), Len(disk') <= MaxLines, Keyed', Mapped',
           \A p \in Pattern : Tailed(p)',
           path' \in [Pattern -> Path \cup {NoPath}], size' \in [Path -> 0..MaxSize],
           ends' \in 0..MaxEnds, odd' \subseteq Pattern,
           DOMAIN tails' = Pattern, DOMAIN said' = Pattern,
           \A p \in Pattern : /\ said'[p] # None => said'[p] \in Said(p)
                              /\ tails'[p] # None => said'[p] # None
    PROVE  TInv'
<1>1. Len(disk') \in Nat /\ MaxLines \in Nat
  BY PositionFileAssumption
<1>2. disk' \in Seq(Line \cup {Torn})
  OBVIOUS
<1>3. TypeOK'
  BY <1>1, <1>2 DEF TypeOK, Keyed, Tailed
<1>4. \A k \in 1..Len(disk') : k <= MaxLines
  BY <1>1
<1>5. Shapes'
  BY <1>1, <1>4 DEF Shapes, Said
<1> QED BY <1>3, <1>5 DEF TInv

\* An inode is a number.
LEMMA InodeType ==
    ASSUME TypeOK, NEW q \in Path
    PROVE  inode(q) \in Nat
BY PositionFileAssumption DEF inode, TypeOK, INO_NONE, Path

\* A process that starts for the first time.
LEMMA InitTypes == Init => TInv
<1> SUFFICES ASSUME Init PROVE TInv
  OBVIOUS
<1>1. DOMAIN m_pe_map = {}
  BY DEF Init
<1>2. disk = <<>> /\ Len(disk) = 0 /\ disk \in Seq(Line) /\ disk \in Seq(Line \cup {Torn})
  BY DEF Init
<1>3. TypeOK
  BY <1>1, <1>2, PositionFileAssumption DEF Init, TypeOK, NoPath
<1>4. Shapes
  BY <1>1, <1>2, PositionFileAssumption DEF Init, Shapes
<1>5. Mapped
  BY <1>1, <1>2 DEF Mapped
<1> QED BY <1>3, <1>4, <1>5 DEF TInv

\* The line of the entry that startWatchers sees, with the inode of the file.
LEMMA StartedLines ==
    ASSUME TInv, up, NEW p \in Pattern, NEW q \in Path, StartWatcher(p, q)
    PROVE  /\ SameLines(disk', appended(p, q))
           /\ \A k \in 1..Len(disk) : k # line(p, q) => disk'[k] = disk[k]
           /\ appended(p, q)[line(p, q)].inode # INO_NONE => disk' = appended(p, q)
           /\ appended(p, q)[line(p, q)].inode = INO_NONE =>
                 disk'[line(p, q)] = [pattern |-> p, path |-> q, pos |-> 0,
                                      inode |-> inode(q) % InoLimit]
<1> DEFINE d == appended(p, q)
           e == line(p, q)
<1>1. /\ e <= MaxLines
      /\ disk' = IF d[e].inode = INO_NONE THEN update(d, e, inode(q), 0) ELSE d
  BY DEF StartWatcher
<1>2. d \in Seq(Line) /\ e \in 1..Len(d) /\ Len(disk) <= Len(d) /\ Len(disk) \in Nat
  BY <1>1, Entered
<1>3. d[e].pattern = p /\ d[e].path = q /\ isWatched(d[e])
  BY <1>1, Entered
<1>4. \A k \in 1..Len(disk) : d[k] = disk[k]
  BY <1>1, Entered
<1>5. inode(q) \in Nat /\ 0 \in 0..MaxSize /\ 0 \in {UNWATCHED_POSITION} \cup (0..MaxSize)
  BY InodeType, PositionFileAssumption DEF TInv
<1> HIDE DEF d, e
<1>6. CASE d[e].inode = INO_NONE
  <2>1. disk' = update(d, e, inode(q), 0)
    BY <1>1, <1>6
  <2>2. SameLines(update(d, e, inode(q), 0), d)
    BY <1>2, <1>3, <1>5, UpdatesSame
  <2>3. /\ \A k \in 1..Len(d) : k # e => update(d, e, inode(q), 0)[k] = d[k]
        /\ update(d, e, inode(q), 0)[e] = [pattern |-> d[e].pattern, path |-> d[e].path,
                                           pos |-> 0, inode |-> inode(q) % InoLimit]
    BY <1>2, <1>5, Updates
  <2>4. Len(d) \in Nat
    BY <1>2
  <2>5. \A k \in 1..Len(disk) : k # e => disk'[k] = disk[k]
    BY <1>2, <1>4, <2>1, <2>3, <2>4
  <2>6. disk'[e] = [pattern |-> p, path |-> q, pos |-> 0, inode |-> inode(q) % InoLimit]
    BY <1>3, <2>1, <2>3
  <2> QED BY <1>6, <2>1, <2>2, <2>5, <2>6 DEF d, e
<1>7. CASE d[e].inode # INO_NONE
  <2>1. disk' = d
    BY <1>1, <1>7
  <2>2. SameLines(d, d)
    BY <1>2 DEF SameLines
  <2> QED BY <1>4, <1>7, <2>1, <2>2 DEF d, e
<1> QED BY <1>6, <1>7

\* startWatchers.
LEMMA StartTypes ==
    ASSUME TInv, NEW p \in Pattern, NEW q \in Path, StartWatcher(p, q)
    PROVE  TInv'
<1>1. up /\ up' = TRUE /\ line(p, q) <= MaxLines
  BY DEF StartWatcher, TInv, TypeOK
<1>2. SameLines(disk', appended(p, q))
  BY <1>1, StartedLines
<1>3. appended(p, q) \in Seq(Line) /\ Len(appended(p, q)) <= MaxLines /\ line(p, q) \in 1..Len(appended(p, q))
  BY <1>1, Entered
<1>4. /\ Keyed' /\ Mapped'
      /\ \A k \in DOMAIN m_pe_map : k \in DOMAIN m_pe_map' /\ m_pe_map'[k] = m_pe_map[k]
      /\ <<p, q>> \in DOMAIN m_pe_map' /\ m_pe_map'[<<p, q>>] = line(p, q)
  BY <1>1, <1>2, WithEntry DEF StartWatcher
<1>5. disk' \in Seq(Line) /\ Len(disk') <= MaxLines
  BY <1>2, <1>3 DEF SameLines
<1>6. /\ DOMAIN tails' = Pattern
      /\ \A r \in Pattern : r # p => tails'[r] = tails[r]
      /\ \/ tails'[p] = None
         \/ tails'[p] = [path |-> q, entry |-> line(p, q), open |-> FALSE, fpos |-> 0]
  BY DEF StartWatcher, TInv, Shapes
<1>7. ASSUME NEW r \in Pattern PROVE Tailed(r)'
  <2>1. CASE r # p
    <3>1. Tailed(r)
      BY DEF TInv, TypeOK, Tailed
    <3> QED BY <1>4, <1>6, <2>1, <3>1 DEF Tailed
  <2>2. CASE r = p
    <3>1. line(p, q) \in 1..MaxLines
      BY <1>1, <1>3
    <3>2. [path |-> q, entry |-> line(p, q), open |-> FALSE, fpos |-> 0] \in TailWatcher
      BY <3>1 DEF TailWatcher
    <3>3. <<p, q>>[1] = p
      OBVIOUS
    <3>4. [path |-> q, entry |-> line(p, q), open |-> FALSE, fpos |-> 0].entry = line(p, q)
      OBVIOUS
    <3> QED BY <1>4, <1>6, <2>2, <3>2, <3>3, <3>4 DEF Tailed
  <2> QED BY <2>1, <2>2
<1>8. inode(q) \in Nat /\ 0 \in 0..MaxSize
  BY InodeType, PositionFileAssumption DEF TInv
<1>9. /\ DOMAIN said' = Pattern
      /\ \A r \in Pattern : r # p => said'[r] = said[r]
      /\ \/ said'[p] = said[p] /\ said[p] # None
         \/ said'[p] = [pattern |-> p, path |-> q, pos |-> 0, inode |-> inode(q)]
  BY DEF StartWatcher, TInv, Shapes
<1>10. [pattern |-> p, path |-> q, pos |-> 0, inode |-> inode(q)] \in Said(p)
  BY <1>8 DEF Said
<1>11. ASSUME NEW r \in Pattern
       PROVE  /\ said'[r] # None => said'[r] \in Said(r)
              /\ tails'[r] # None => said'[r] # None
  <2>1. said[r] # None => said[r] \in Said(r)
    BY DEF TInv, Shapes
  <2>2. tails[r] # None => said[r] # None
    BY DEF TInv, Shapes
  <2> QED BY <1>6, <1>9, <1>10, <2>1, <2>2, Distinct
<1>12. /\ path' \in [Pattern -> Path \cup {NoPath}] /\ size' \in [Path -> 0..MaxSize]
       /\ ends' \in 0..MaxEnds /\ odd' \subseteq Pattern
  BY DEF StartWatcher, TInv, TypeOK
<1> QED BY <1>1, <1>4, <1>5, <1>6, <1>7, <1>9, <1>11, <1>12, Together
-----------------------------------------------------------------------------
\* onRotate writes the inode of a file that the entry does not have yet.
LEMMA OpenedLines ==
    ASSUME TInv, NEW p \in Pattern, Open(p)
    PROVE  /\ up /\ SameLines(disk', disk)
           /\ \A k \in 1..Len(disk) : k # tails[p].entry => disk'[k] = disk[k]
           /\ disk[tails[p].entry].inode = inode(tails[p].path) =>
                disk' = disk /\ said' = said
           /\ disk[tails[p].entry].inode # inode(tails[p].path) =>
                /\ disk'[tails[p].entry] =
                      [pattern |-> p, path |-> disk[tails[p].entry].path, pos |-> 0,
                       inode |-> inode(tails[p].path) % InoLimit]
                /\ said'[p] = [pattern |-> p, path |-> said[p].path, pos |-> 0,
                               inode |-> inode(tails[p].path)]
           /\ DOMAIN said' = Pattern /\ said'[p] \in Said(p)
           /\ \A r \in Pattern : r # p => said'[r] = said[r]
<1> DEFINE e == tails[p].entry
           ino == inode(tails[p].path)
<1>1. /\ up /\ tails[p] # None
      /\ IF disk[e].inode = ino THEN disk' = disk /\ said' = said
         ELSE /\ disk' = update(disk, e, ino, 0)
              /\ said' = [said EXCEPT ![p].inode = ino, ![p].pos = 0]
  BY DEF Open
<1>2. /\ e \in 1..Len(disk) /\ disk[e].pattern = p /\ isWatched(disk[e])
      /\ tails[p].path \in Path /\ disk \in Seq(Line)
  BY <1>1, OwnEntry DEF TInv, Shapes
<1>3. ino \in Nat /\ 0 \in 0..MaxSize /\ 0 \in {UNWATCHED_POSITION} \cup (0..MaxSize)
  BY <1>2, InodeType, PositionFileAssumption DEF TInv
<1>4. said[p] \in Said(p) /\ DOMAIN said = Pattern
  BY <1>1 DEF TInv, Shapes
<1> HIDE DEF e, ino
<1>5. CASE disk[e].inode = ino
  <2>1. disk' = disk /\ said' = said
    BY <1>1, <1>5
  <2>2. SameLines(disk, disk)
    BY <1>2 DEF SameLines
  <2> QED BY <1>1, <1>4, <1>5, <2>1, <2>2 DEF e, ino
<1>6. CASE disk[e].inode # ino
  <2>1. disk' = update(disk, e, ino, 0) /\ said' = [said EXCEPT ![p].inode = ino, ![p].pos = 0]
    BY <1>1, <1>6
  <2>2. SameLines(update(disk, e, ino, 0), disk)
    BY <1>2, <1>3, UpdatesSame
  <2>3. /\ \A k \in 1..Len(disk) : k # e => update(disk, e, ino, 0)[k] = disk[k]
        /\ update(disk, e, ino, 0)[e] = [pattern |-> disk[e].pattern, path |-> disk[e].path,
                                         pos |-> 0, inode |-> ino % InoLimit]
    BY <1>2, <1>3, Updates
  <2>4. disk'[e] = [pattern |-> p, path |-> disk[e].path, pos |-> 0, inode |-> ino % InoLimit]
    BY <1>2, <2>1, <2>3
  <2>5. said'[p] = [pattern |-> p, path |-> said[p].path, pos |-> 0, inode |-> ino]
    <3> DEFINE m == [said[p] EXCEPT !.inode = ino]
    <3>1. m \in Said(p) /\ m.path = said[p].path /\ m.inode = ino
      BY <1>3, <1>4 DEF Said
    <3>2. said'[p] = [m EXCEPT !.pos = 0]
      BY <1>4, <2>1
    <3> HIDE DEF m
    <3>3. [m EXCEPT !.pos = 0] = [pattern |-> p, path |-> m.path, pos |-> 0, inode |-> m.inode]
      BY <3>1 DEF Said
    <3> QED BY <3>1, <3>2, <3>3
  <2>6. [pattern |-> p, path |-> said[p].path, pos |-> 0, inode |-> ino] \in Said(p)
    BY <1>3, <1>4 DEF Said
  <2>7. DOMAIN said' = Pattern /\ \A r \in Pattern : r # p => said'[r] = said[r]
    BY <1>4, <2>1
  <2> QED BY <1>1, <1>6, <2>1, <2>2, <2>3, <2>4, <2>5, <2>6, <2>7 DEF e, ino
<1> QED BY <1>5, <1>6

\* onRotate, without a handler.
LEMMA OpenTypes ==
    ASSUME TInv, NEW p \in Pattern, Open(p)
    PROVE  TInv'
<1>1. up /\ up' = TRUE /\ m_pe_map' = m_pe_map /\ tails[p] # None
  BY DEF Open, TInv, TypeOK
<1>2. SameLines(disk', disk) /\ DOMAIN said' = Pattern /\ said'[p] \in Said(p)
  BY OpenedLines
<1>3. \A r \in Pattern : r # p => said'[r] = said[r]
  BY OpenedLines
<1>4. disk \in Seq(Line) /\ Len(disk) <= MaxLines
  BY <1>1 DEF TInv, Shapes
<1>5. Keyed' /\ Mapped' /\ disk' \in Seq(Line) /\ Len(disk') <= MaxLines
  BY <1>1, <1>2, <1>4, InPlace DEF SameLines
<1>6. openPos(p) \in Int
  <2>1. disk[tails[p].entry].pos \in Int
    BY <1>1, OwnEntry DEF Line, UNWATCHED_POSITION
  <2>2. toInt(disk[tails[p].entry].pos) \in Int
    BY <2>1, PositionFileAssumption DEF toInt
  <2> QED BY <2>2 DEF openPos
<1>7. /\ DOMAIN tails' = Pattern
      /\ \A r \in Pattern : r # p => tails'[r] = tails[r]
      /\ tails'[p] \in TailWatcher /\ tails'[p].entry = tails[p].entry
  <2>1. tails[p] \in TailWatcher /\ DOMAIN tails = Pattern
    BY <1>1, OwnEntry DEF TInv, Shapes
  <2>2. tails' = [tails EXCEPT ![p].open = TRUE, ![p].fpos = openPos(p)]
    BY DEF Open
  <2>3. tails'[p] = [[tails[p] EXCEPT !.open = TRUE] EXCEPT !.fpos = openPos(p)]
    BY <2>1, <2>2
  <2>4. [[tails[p] EXCEPT !.open = TRUE] EXCEPT !.fpos = openPos(p)] \in TailWatcher
    BY <2>1, <1>6 DEF TailWatcher
  <2>5. [[tails[p] EXCEPT !.open = TRUE] EXCEPT !.fpos = openPos(p)].entry = tails[p].entry
    BY <2>1 DEF TailWatcher
  <2> QED BY <2>1, <2>2, <2>3, <2>4, <2>5
<1>8. ASSUME NEW r \in Pattern PROVE Tailed(r)'
  <2>1. Tailed(r) /\ Tailed(p)
    BY DEF TInv, TypeOK, Tailed
  <2> QED BY <1>1, <1>7, <2>1 DEF Tailed
<1>9. ASSUME NEW r \in Pattern
      PROVE  /\ said'[r] # None => said'[r] \in Said(r)
             /\ tails'[r] # None => said'[r] # None
  <2>1. /\ said[r] # None => said[r] \in Said(r)
        /\ tails[r] # None => said[r] # None
    BY DEF TInv, Shapes
  <2> QED BY <1>2, <1>3, <1>7, <2>1, Distinct
<1>10. /\ path' \in [Pattern -> Path \cup {NoPath}] /\ size' \in [Path -> 0..MaxSize]
       /\ ends' \in 0..MaxEnds /\ odd' \subseteq Pattern
  BY DEF Open, TInv, TypeOK
<1> QED BY <1>1, <1>2, <1>5, <1>7, <1>8, <1>9, <1>10, Together

\* onNotify.
LEMMA NotifyTypes ==
    ASSUME TInv, NEW p \in Pattern, Notify(p)
    PROVE  TInv'
<1>1. up /\ up' = TRUE /\ m_pe_map' = m_pe_map /\ tails[p] # None /\ disk' = recorded(disk, p)
  BY DEF Notify, TInv, TypeOK
<1>2. disk \in Seq(Line) /\ Len(disk) <= MaxLines /\ Len(disk) \in Nat
  BY <1>1 DEF TInv, Shapes
<1>3. SameLines(disk', disk)
  <2>1. Len(disk) <= Len(disk) /\ \A k \in 1..Len(disk) : disk[k] = disk[k]
    BY <1>2
  <2>2. SameLines(recorded(disk, p), disk)
    BY <1>1, <1>2, <2>1, RecordedLines
  <2> QED BY <1>1, <2>2
<1>4. Keyed' /\ Mapped' /\ disk' \in Seq(Line) /\ Len(disk') <= MaxLines
  BY <1>1, <1>2, <1>3, InPlace DEF SameLines
<1>5. /\ DOMAIN tails' = Pattern
      /\ \A r \in Pattern : r # p => tails'[r] = tails[r]
      /\ tails'[p] \in TailWatcher /\ tails'[p].entry = tails[p].entry
  <2>1. tails[p] \in TailWatcher /\ DOMAIN tails = Pattern /\ size[tails[p].path] \in Int
    BY <1>1, OwnEntry DEF TInv, Shapes
  <2>2. tails' = [tails EXCEPT ![p].fpos = size[tails[p].path]]
    BY DEF Notify
  <2>3. tails'[p] = [tails[p] EXCEPT !.fpos = size[tails[p].path]]
    BY <2>1, <2>2
  <2>4. /\ [tails[p] EXCEPT !.fpos = size[tails[p].path]] \in TailWatcher
        /\ [tails[p] EXCEPT !.fpos = size[tails[p].path]].entry = tails[p].entry
    BY <2>1 DEF TailWatcher
  <2> QED BY <2>1, <2>2, <2>3, <2>4
<1>6. ASSUME NEW r \in Pattern PROVE Tailed(r)'
  <2>1. Tailed(r) /\ Tailed(p)
    BY DEF TInv, TypeOK, Tailed
  <2> QED BY <1>1, <1>5, <2>1 DEF Tailed
<1>7. /\ DOMAIN said' = Pattern /\ said'[p] = saidOf(p) /\ saidOf(p) \in Said(p)
      /\ \A r \in Pattern : r # p => said'[r] = said[r]
  BY <1>1, SaidType DEF Notify, TInv, Shapes
<1>8. ASSUME NEW r \in Pattern
      PROVE  /\ said'[r] # None => said'[r] \in Said(r)
             /\ tails'[r] # None => said'[r] # None
  <2>1. /\ said[r] # None => said[r] \in Said(r)
        /\ tails[r] # None => said[r] # None
    BY DEF TInv, Shapes
  <2> QED BY <1>5, <1>7, <2>1, Distinct
<1>9. /\ path' \in [Pattern -> Path \cup {NoPath}] /\ size' \in [Path -> 0..MaxSize]
      /\ ends' \in 0..MaxEnds /\ odd' \subseteq Pattern
  BY DEF Notify, TInv, TypeOK
<1> QED BY <1>1, <1>4, <1>5, <1>6, <1>7, <1>8, <1>9, Together

\* deleteTasks and the program that writes: nothing of the position file.
LEMMA OtherTypes ==
    ASSUME TInv, (\E p \in Pattern : DeleteTask(p)) \/ (\E q \in Path : Grow(q))
    PROVE  TInv'
<1>1. UNCHANGED <<up, disk, m_pe_map, tails, ends, said, odd>>
  BY DEF DeleteTask, Grow
<1>2. path' \in [Pattern -> Path \cup {NoPath}] /\ size' \in [Path -> 0..MaxSize]
  <2>1. ASSUME NEW p \in Pattern, DeleteTask(p)
        PROVE  path' \in [Pattern -> Path \cup {NoPath}] /\ size' \in [Path -> 0..MaxSize]
    BY <2>1 DEF DeleteTask, TInv, TypeOK
  <2>2. ASSUME NEW q \in Path, Grow(q)
        PROVE  path' \in [Pattern -> Path \cup {NoPath}] /\ size' \in [Path -> 0..MaxSize]
    <3>1. size[q] < MaxSize /\ size' = [size EXCEPT ![q] = @ + 1] /\ path' = path
      BY <2>2 DEF Grow
    <3> QED BY <3>1, PositionFileAssumption DEF TInv, TypeOK
  <2> QED BY <2>1, <2>2
<1>3. ~up => \A r \in Pattern : path'[r] = NoPath
  BY DEF DeleteTask, Grow, TInv, Shapes
<1>4. TypeOK'
  BY <1>1, <1>2 DEF TInv, TypeOK
<1>5. Shapes'
  BY <1>1, <1>3 DEF TInv, Shapes
<1>6. Mapped'
  BY <1>1 DEF TInv, Mapped
<1> QED BY <1>4, <1>5, <1>6 DEF TInv
-----------------------------------------------------------------------------
\* closeWatcher marks the entry of the pattern and the path.
LEMMA StoppedLines ==
    ASSUME TInv, NEW p \in Pattern, NEW next, StopWatcher(p, next)
    PROVE  LET d == appended(p, tails[p].path)
               e == line(p, tails[p].path)
           IN  /\ up /\ tails[p] # None /\ tails[p].path \in Path /\ e <= MaxLines
               /\ disk' \in Seq(Line) /\ Len(disk') = Len(d)
               /\ \A k \in 1..Len(d) : disk'[k].pattern = d[k].pattern /\ disk'[k].path = d[k].path
               /\ \A k \in 1..Len(d) : k # e => (isWatched(disk'[k]) <=> isWatched(d[k]))
               /\ ~isWatched(disk'[e])
               /\ \A k \in 1..Len(d) : k # e /\ k # tails[p].entry => disk'[k] = d[k]
<1> DEFINE q == tails[p].path
           d == appended(p, q)
           e == line(p, q)
           b == recorded(d, p)
<1>1. /\ up /\ tails[p] # None /\ e <= MaxLines /\ disk' = updatePos(b, e, UNWATCHED_POSITION)
  BY DEF StopWatcher, unwatched
<1>2. q \in Path
  BY <1>1, OwnEntry
<1>3. d \in Seq(Line) /\ e \in 1..Len(d) /\ Len(disk) <= Len(d) /\ \A k \in 1..Len(disk) : d[k] = disk[k]
  BY <1>1, <1>2, Entered
<1>4. SameLines(b, d)
  BY <1>1, <1>3, RecordedLines
<1>5. \A k \in 1..Len(d) : k # tails[p].entry => b[k] = d[k]
  BY <1>1, <1>3, RecordedLines
<1> HIDE DEF b, d, e, q
<1>6. b \in Seq(Line) /\ Len(b) = Len(d) /\ e \in 1..Len(b)
  BY <1>3, <1>4 DEF SameLines
<1>7. UNWATCHED_POSITION \in {UNWATCHED_POSITION} \cup (0..MaxSize) /\ 0 \in Nat
  OBVIOUS
<1>8. /\ disk' \in Seq(Line) /\ Len(disk') = Len(b)
      /\ \A k \in 1..Len(b) : k # e => disk'[k] = b[k]
      /\ disk'[e] = [pattern |-> b[e].pattern, path |-> b[e].path,
                     pos |-> UNWATCHED_POSITION, inode |-> b[e].inode]
  BY <1>1, <1>6, <1>7, Updates
<1>9. disk'[e].pattern = b[e].pattern /\ disk'[e].path = b[e].path /\ ~isWatched(disk'[e])
  BY <1>8 DEF isWatched
<1>10. \A k \in 1..Len(d) : disk'[k].pattern = d[k].pattern /\ disk'[k].path = d[k].path
  BY <1>4, <1>6, <1>8, <1>9 DEF SameLines
<1>11. \A k \in 1..Len(d) : k # e => (isWatched(disk'[k]) <=> isWatched(d[k]))
  BY <1>4, <1>6, <1>8 DEF SameLines
<1>12. \A k \in 1..Len(d) : k # e /\ k # tails[p].entry => disk'[k] = d[k]
  BY <1>5, <1>6, <1>8
<1> QED BY <1>1, <1>2, <1>6, <1>8, <1>9, <1>10, <1>11, <1>12 DEF d, e, q

\* stopWatchers and closeWatcher.
LEMMA StopWatcherTypes ==
    ASSUME TInv, NEW p \in Pattern, NEW next \in Path \cup {NoPath}, StopWatcher(p, next)
    PROVE  TInv'
<1> DEFINE q == tails[p].path
           d == appended(p, q)
           e == line(p, q)
<1>1. up /\ up' = TRUE /\ tails[p] # None /\ q \in Path /\ e <= MaxLines
  BY StoppedLines DEF StopWatcher, TInv, TypeOK
<1>2. /\ disk' \in Seq(Line) /\ Len(disk') = Len(d)
      /\ \A k \in 1..Len(d) : disk'[k].pattern = d[k].pattern /\ disk'[k].path = d[k].path
      /\ \A k \in 1..Len(d) : k # e => (isWatched(disk'[k]) <=> isWatched(d[k]))
      /\ ~isWatched(disk'[e])
  BY StoppedLines
<1>3. /\ d \in Seq(Line) /\ Len(d) <= MaxLines /\ Len(disk) <= Len(d) /\ e \in 1..Len(d)
      /\ \A k \in 1..Len(disk) : d[k] = disk[k]
      /\ \A k \in 1..Len(d) : k \in 1..Len(disk) \/ k = e
  BY <1>1, Entered
<1>4. /\ d[e].pattern = p /\ d[e].path = q
      /\ <<p, q>> \in DOMAIN m_pe_map => e = m_pe_map[<<p, q>>]
  BY <1>1, Entered
<1>5. m_pe_map' = [j \in DOMAIN m_pe_map \ {<<p, q>>} |-> m_pe_map[j]]
  BY DEF StopWatcher, removed
<1>6. /\ DOMAIN m_pe_map' = DOMAIN m_pe_map \ {<<p, q>>}
      /\ \A k \in DOMAIN m_pe_map' : k \in DOMAIN m_pe_map /\ m_pe_map'[k] = m_pe_map[k]
  BY <1>5
<1>7. disk \in Seq(Line) /\ DOMAIN disk = 1..Len(disk) /\ Len(disk) \in Nat /\ DOMAIN disk' = 1..Len(disk')
  BY <1>1, <1>2 DEF TInv, Shapes
<1> HIDE DEF d, e, q
<1>8. ASSUME NEW k \in DOMAIN m_pe_map'
      PROVE  /\ m_pe_map'[k] \in DOMAIN disk' /\ disk'[m_pe_map'[k]] \in Line
             /\ <<disk'[m_pe_map'[k]].pattern, disk'[m_pe_map'[k]].path>> = k
             /\ isWatched(disk'[m_pe_map'[k]])
  <2>1. /\ k \in DOMAIN m_pe_map /\ k # <<p, q>> /\ m_pe_map'[k] = m_pe_map[k]
    BY <1>6
  <2>2. /\ m_pe_map[k] \in 1..Len(disk) /\ isWatched(disk[m_pe_map[k]])
        /\ <<disk[m_pe_map[k]].pattern, disk[m_pe_map[k]].path>> = k
    BY <1>1, <1>7, <2>1 DEF TInv, TypeOK, Mapped
  <2>3. m_pe_map[k] \in 1..Len(d) /\ d[m_pe_map[k]] = disk[m_pe_map[k]]
    BY <1>3, <1>7, <2>2
  <2>4. m_pe_map[k] # e
    BY <1>4, <2>1, <2>2, <2>3
  <2> QED BY <1>2, <1>7, <2>1, <2>2, <2>3, <2>4
<1>9. Keyed'
  BY <1>6, <1>8 DEF Keyed, TInv, TypeOK
<1>10. ASSUME NEW k \in 1..Len(disk'), isWatched(disk'[k])
       PROVE  /\ <<disk'[k].pattern, disk'[k].path>> \in DOMAIN m_pe_map'
              /\ m_pe_map'[<<disk'[k].pattern, disk'[k].path>>] = k
  <2>1. k # e /\ k \in 1..Len(d)
    BY <1>2, <1>10
  <2>2. k \in 1..Len(disk) /\ d[k] = disk[k]
    BY <1>3, <2>1
  <2>3. disk'[k].pattern = disk[k].pattern /\ disk'[k].path = disk[k].path /\ isWatched(disk[k])
    BY <1>2, <1>10, <2>1, <2>2
  <2>4. /\ <<disk[k].pattern, disk[k].path>> \in DOMAIN m_pe_map
        /\ m_pe_map[<<disk[k].pattern, disk[k].path>>] = k
    BY <1>1, <2>2, <2>3 DEF TInv, Mapped
  <2>5. <<disk[k].pattern, disk[k].path>> # <<p, q>>
    BY <1>4, <2>1, <2>4
  <2> QED BY <1>6, <2>3, <2>4, <2>5
<1>11. Mapped'
  BY <1>8, <1>10 DEF Mapped
<1>12. tails' = [tails EXCEPT ![p] = None] /\ said' = [said EXCEPT ![p] = None]
       /\ DOMAIN tails = Pattern /\ DOMAIN said = Pattern
  BY DEF StopWatcher, TInv, Shapes
<1>13. ASSUME NEW r \in Pattern PROVE Tailed(r)'
  <2>1. CASE r = p
    BY <1>12, <2>1 DEF Tailed
  <2>2. CASE r # p /\ tails[r] # None
    <3>1. tails[r] \in TailWatcher /\ \E k \in DOMAIN m_pe_map : k[1] = r /\ m_pe_map[k] = tails[r].entry
      BY <2>2 DEF TInv, TypeOK
    <3>2. PICK k \in DOMAIN m_pe_map : k[1] = r /\ m_pe_map[k] = tails[r].entry
      BY <3>1
    <3>3. k # <<p, q>>
      BY <2>2, <3>2
    <3>4. k \in DOMAIN m_pe_map' /\ m_pe_map'[k] = m_pe_map[k]
      BY <1>6, <3>3
    <3> QED BY <1>12, <2>2, <3>1, <3>2, <3>4 DEF Tailed
  <2>3. CASE r # p /\ tails[r] = None
    BY <1>12, <2>3 DEF Tailed
  <2> QED BY <2>1, <2>2, <2>3
<1>14. ASSUME NEW r \in Pattern
       PROVE  /\ said'[r] # None => said'[r] \in Said(r)
              /\ tails'[r] # None => said'[r] # None
  <2>1. /\ said[r] # None => said[r] \in Said(r)
        /\ tails[r] # None => said[r] # None
    BY DEF TInv, Shapes
  <2> QED BY <1>12, <2>1
<1>15. /\ path' \in [Pattern -> Path \cup {NoPath}] /\ size' \in [Path -> 0..MaxSize]
       /\ ends' \in 0..MaxEnds /\ odd' \subseteq Pattern
  BY DEF StopWatcher, TInv, TypeOK
<1>16. Len(disk') <= MaxLines /\ DOMAIN tails' = Pattern /\ DOMAIN said' = Pattern
  BY <1>2, <1>3, <1>12
<1> QED BY <1>1, <1>2, <1>9, <1>11, <1>13, <1>14, <1>15, <1>16, Together

\* updateWatchers writes to the entry of the old tail watcher.
LEMMA ReconfiguredLines ==
    ASSUME TInv, NEW p \in Pattern, NEW q \in Path, Reconfigure(p, q)
    PROVE  /\ up /\ tails[p] # None /\ tails[p].path \in Path /\ line(p, tails[p].path) <= MaxLines
           /\ SameLines(disk', appended(p, tails[p].path))
           /\ \A k \in 1..Len(appended(p, tails[p].path)) :
                k # tails[p].entry => disk'[k] = appended(p, tails[p].path)[k]
           /\ ~tails[p].open => disk' = appended(p, tails[p].path)
           /\ tails[p].open =>
                disk'[tails[p].entry] =
                    [pattern |-> p, path |-> disk[tails[p].entry].path,
                     pos |-> size[tails[p].path], inode |-> disk[tails[p].entry].inode]
<1> DEFINE d == appended(p, tails[p].path)
<1>1. /\ up /\ tails[p] # None /\ line(p, tails[p].path) <= MaxLines /\ disk' = recorded(d, p)
  BY DEF Reconfigure
<1>2. tails[p].path \in Path
  BY <1>1, OwnEntry
<1>3. d \in Seq(Line) /\ Len(disk) <= Len(d) /\ \A k \in 1..Len(disk) : d[k] = disk[k]
  <2>1. up /\ tails[p].path \in Path /\ line(p, tails[p].path) <= MaxLines
    BY <1>1, <1>2
  <2>2. ASSUME NEW o \in Path, line(p, o) <= MaxLines
        PROVE  /\ appended(p, o) \in Seq(Line) /\ Len(disk) <= Len(appended(p, o))
               /\ \A k \in 1..Len(disk) : appended(p, o)[k] = disk[k]
    BY <2>1, <2>2, Entered
  <2> QED BY <2>1, <2>2
<1> HIDE DEF d
<1>4. /\ SameLines(recorded(d, p), d)
      /\ \A k \in 1..Len(d) : k # tails[p].entry => recorded(d, p)[k] = d[k]
      /\ ~tails[p].open => recorded(d, p) = d
  BY <1>1, <1>3, RecordedLines
<1>5. tails[p].open => recorded(d, p)[tails[p].entry] =
          [pattern |-> p, path |-> disk[tails[p].entry].path,
           pos |-> size[tails[p].path], inode |-> disk[tails[p].entry].inode]
  BY <1>1, <1>3, RecordedLines
<1> QED BY <1>1, <1>2, <1>4, <1>5 DEF d

\* updateWatchers.
LEMMA ReconfigureTypes ==
    ASSUME TInv, NEW p \in Pattern, NEW q \in Path, Reconfigure(p, q)
    PROVE  TInv'
<1> DEFINE o == tails[p].path
           e == line(p, o)
<1>1. /\ up /\ up' = TRUE /\ tails[p] # None /\ o \in Path /\ e <= MaxLines
      /\ SameLines(disk', appended(p, o)) /\ m_pe_map' = entered(p, o)
  BY ReconfiguredLines DEF Reconfigure, TInv, TypeOK
<1>2. appended(p, o) \in Seq(Line) /\ Len(appended(p, o)) <= MaxLines /\ e \in 1..Len(appended(p, o))
  BY <1>1, Entered
<1>3. /\ Keyed' /\ Mapped'
      /\ \A k \in DOMAIN m_pe_map : k \in DOMAIN m_pe_map' /\ m_pe_map'[k] = m_pe_map[k]
      /\ <<p, o>> \in DOMAIN m_pe_map' /\ m_pe_map'[<<p, o>>] = e
  BY <1>1, WithEntry
<1>4. disk' \in Seq(Line) /\ Len(disk') <= MaxLines
  BY <1>1, <1>2 DEF SameLines
<1>5. /\ DOMAIN tails' = Pattern
      /\ \A r \in Pattern : r # p => tails'[r] = tails[r]
      /\ tails'[p] = [path |-> q, entry |-> e, open |-> FALSE, fpos |-> 0]
  BY DEF Reconfigure, TInv, Shapes
<1> HIDE DEF o, e
<1>6. ASSUME NEW r \in Pattern PROVE Tailed(r)'
  <2>1. CASE r # p
    <3>1. Tailed(r)
      BY DEF TInv, TypeOK, Tailed
    <3> QED BY <1>3, <1>5, <2>1, <3>1 DEF Tailed
  <2>2. CASE r = p
    <3>1. e \in 1..MaxLines
      BY <1>1, <1>2
    <3>2. [path |-> q, entry |-> e, open |-> FALSE, fpos |-> 0] \in TailWatcher
      BY <3>1 DEF TailWatcher
    <3>3. <<p, o>>[1] = p /\ [path |-> q, entry |-> e, open |-> FALSE, fpos |-> 0].entry = e
      OBVIOUS
    <3> QED BY <1>3, <1>5, <2>2, <3>2, <3>3 DEF Tailed
  <2> QED BY <2>1, <2>2
<1>7. /\ DOMAIN said' = Pattern /\ said'[p] = saidOf(p) /\ saidOf(p) \in Said(p)
      /\ \A r \in Pattern : r # p => said'[r] = said[r]
  BY <1>1, SaidType DEF Reconfigure, TInv, Shapes
<1>8. ASSUME NEW r \in Pattern
      PROVE  /\ said'[r] # None => said'[r] \in Said(r)
             /\ tails'[r] # None => said'[r] # None
  <2>1. /\ said[r] # None => said[r] \in Said(r)
        /\ tails[r] # None => said[r] # None
    BY DEF TInv, Shapes
  <2> QED BY <1>5, <1>7, <2>1, Distinct
<1>9. /\ path' \in [Pattern -> Path \cup {NoPath}] /\ size' \in [Path -> 0..MaxSize]
      /\ ends' \in 0..MaxEnds /\ odd' \subseteq Pattern
  BY DEF Reconfigure, TInv, TypeOK
<1> QED BY <1>1, <1>3, <1>4, <1>5, <1>6, <1>7, <1>8, <1>9, Together
-----------------------------------------------------------------------------
\* Manager::stop records what each tail watcher has read in its own entry.
LEMMA StopLines ==
    ASSUME TInv, Stop
    PROVE  /\ up /\ SameLines(disk', disk)
           /\ \A r \in Pattern : tails[r] # None =>
                disk'[tails[r].entry] = recorded(disk, r)[tails[r].entry]
           /\ \A k \in 1..Len(disk) :
                (\A r \in Pattern : tails[r] # None => tails[r].entry # k) => disk'[k] = disk[k]
<1> DEFINE own(k) == {r \in Pattern : tails[r] # None /\ tails[r].entry = k}
<1>1. up /\ disk' = [k \in DOMAIN disk |-> IF own(k) = {} THEN disk[k]
                                        ELSE recorded(disk, CHOOSE r \in own(k) : TRUE)[k]]
  BY DEF Stop, forget
<1>2. disk \in Seq(Line) /\ DOMAIN disk = 1..Len(disk) /\ Len(disk) \in Nat
  BY <1>1 DEF TInv, Shapes
<1>3. ASSUME NEW r \in Pattern, tails[r] # None
      PROVE  /\ SameLines(recorded(disk, r), disk) /\ disk[tails[r].entry].pattern = r
             /\ tails[r].entry \in 1..Len(disk)
  <2>1. Len(disk) <= Len(disk) /\ \A k \in 1..Len(disk) : disk[k] = disk[k]
    BY <1>2
  <2>2. SameLines(recorded(disk, r), disk)
    BY <1>1, <1>2, <1>3, <2>1, RecordedLines
  <2> QED BY <1>1, <1>3, <2>2, OwnEntry
<1>4. ASSUME NEW k \in 1..Len(disk), NEW r \in own(k)
      PROVE  disk'[k] = recorded(disk, r)[k] /\ SameLines(recorded(disk, r), disk)
  <2>1. \A t \in own(k) : disk[k].pattern = t
    BY <1>3
  <2>2. (CHOOSE t \in own(k) : TRUE) = r
    BY <2>1
  <2> QED BY <1>1, <1>2, <1>3, <2>2
<1>5. ASSUME NEW k \in 1..Len(disk), own(k) = {}
      PROVE  disk'[k] = disk[k]
  BY <1>1, <1>2, <1>5
<1>6. DOMAIN disk' = 1..Len(disk)
  BY <1>1, <1>2
<1> HIDE DEF own
<1>7. ASSUME NEW k \in 1..Len(disk)
      PROVE  /\ disk'[k] \in Line /\ disk'[k].pattern = disk[k].pattern /\ disk'[k].path = disk[k].path
             /\ isWatched(disk'[k]) <=> isWatched(disk[k])
  <2>1. CASE own(k) = {}
    BY <1>2, <1>5, <2>1
  <2>2. CASE own(k) # {}
    <3>1. PICK r \in own(k) : TRUE
      BY <2>2
    <3>2. disk'[k] = recorded(disk, r)[k] /\ SameLines(recorded(disk, r), disk)
      BY <1>4
    <3> QED BY <1>2, <3>2 DEF SameLines
  <2> QED BY <2>1, <2>2
<1>8. disk' \in Seq(Line) /\ Len(disk') = Len(disk)
  <2>1. disk' = [k \in 1..Len(disk) |-> disk'[k]]
    BY <1>1, <1>2
  <2>2. [k \in 1..Len(disk) |-> disk'[k]] \in Seq(Line) /\ Len([k \in 1..Len(disk) |-> disk'[k]]) = Len(disk)
    BY <1>2, <1>7
  <2> QED BY <2>1, <2>2
<1>9. SameLines(disk', disk)
  BY <1>7, <1>8 DEF SameLines
<1>10. ASSUME NEW r \in Pattern, tails[r] # None
       PROVE  disk'[tails[r].entry] = recorded(disk, r)[tails[r].entry]
  <2>1. r \in own(tails[r].entry) /\ tails[r].entry \in 1..Len(disk)
    BY <1>3, <1>10 DEF own
  <2> QED BY <1>4, <2>1
<1>11. ASSUME NEW k \in 1..Len(disk), \A r \in Pattern : tails[r] # None => tails[r].entry # k
       PROVE  disk'[k] = disk[k]
  <2>1. own(k) = {}
    BY <1>11 DEF own
  <2> QED BY <1>5, <2>1
<1> QED BY <1>1, <1>9, <1>10, <1>11

\* The process ends.
LEMMA EndTypes ==
    ASSUME TInv, Stop \/ Crash
    PROVE  TInv'
<1>1. /\ up /\ up' = FALSE /\ DOMAIN m_pe_map' = {}
      /\ path' = [p \in Pattern |-> NoPath] /\ tails' = [p \in Pattern |-> None]
      /\ size' = size /\ odd' = odd /\ ends < MaxEnds /\ ends' = ends + 1
  BY DEF Stop, Crash, forget
<1>2. disk \in Seq(Line) /\ Len(disk) \in Nat /\ Len(disk) <= MaxLines /\ MaxLines \in Nat
  BY <1>1, PositionFileAssumption DEF TInv, Shapes
<1>3. /\ disk' \in Seq(Line \cup {Torn}) /\ Len(disk') <= MaxLines + 1
      /\ \A k \in 1..Len(disk') : disk'[k] = Torn \/ k <= MaxLines
  <2>1. CASE Stop
    <3>1. disk' \in Seq(Line) /\ Len(disk') = Len(disk)
      BY <2>1, StopLines DEF SameLines
    <3> QED BY <1>2, <3>1
  <2>2. CASE Crash /\ disk' = disk
    BY <1>2, <2>2
  <2>3. CASE Crash /\ disk' = Append(disk, Torn)
    <3>1. /\ disk \in Seq(Line \cup {Torn}) /\ Append(disk, Torn) \in Seq(Line \cup {Torn})
          /\ Len(Append(disk, Torn)) = Len(disk) + 1 /\ Append(disk, Torn)[Len(disk) + 1] = Torn
      BY <1>2
    <3> QED BY <1>2, <2>3, <3>1
  <2> QED BY <2>1, <2>2, <2>3 DEF Crash
<1>4. /\ DOMAIN said' = Pattern
      /\ \A p \in Pattern : said'[p] # None => said'[p] \in Said(p)
  <2>1. DOMAIN said = Pattern /\ \A p \in Pattern : said[p] # None => said[p] \in Said(p)
    BY DEF TInv, Shapes
  <2>2. CASE Crash
    BY <2>1, <2>2 DEF Crash
  <2>3. CASE Stop
    <3>1. said' = [p \in Pattern |-> IF tails[p] = None THEN said[p] ELSE saidOf(p)]
      BY <2>3 DEF Stop
    <3>2. \A p \in Pattern : tails[p] # None => saidOf(p) \in Said(p)
      BY <1>1, SaidType
    <3> QED BY <2>1, <3>1, <3>2
  <2> QED BY <2>2, <2>3
<1>5. \A p \in Pattern : tails'[p] = None /\ path'[p] = NoPath
  BY <1>1
<1>6. TypeOK'
  <2>1. ends' \in 0..MaxEnds /\ path' \in [Pattern -> Path \cup {NoPath}]
    BY <1>1, PositionFileAssumption DEF TInv, TypeOK
  <2>2. size' \in [Path -> 0..MaxSize] /\ odd' \subseteq Pattern
    BY <1>1 DEF TInv, TypeOK
  <2> QED BY <1>1, <1>3, <1>5, <2>1, <2>2 DEF TypeOK
<1>7. Shapes'
  BY <1>1, <1>3, <1>4, <1>5 DEF Shapes, Said
<1>8. Mapped'
  BY <1>1 DEF Mapped
<1> QED BY <1>6, <1>7, <1>8 DEF TInv
-----------------------------------------------------------------------------
\* The line that compact keeps for a pattern is the last one that is watched.
LEMMA SurvivorIsLast ==
    ASSUME TInv, NEW p \in Pattern, watched(disk, p) # {}
    PROVE  /\ Max(watched(disk, p)) \in watched(disk, p)
           /\ \A k \in watched(disk, p) : k <= Max(watched(disk, p))
           /\ Max(watched(disk, p)) \in 1..MaxLines
           /\ survivor(p) \in Line /\ survivor(p).pattern = p /\ isWatched(survivor(p))
<1>1. disk \in Seq(Line \cup {Torn}) /\ DOMAIN disk = 1..Len(disk) /\ Len(disk) \in Nat
  BY DEF TInv, TypeOK
<1>2. watched(disk, p) \in SUBSET (1..Len(disk))
  BY <1>1 DEF watched
<1>3. /\ Max(watched(disk, p)) \in watched(disk, p)
      /\ \A k \in watched(disk, p) : k <= Max(watched(disk, p))
  BY <1>1, <1>2, MaxIsLast
<1>4. ASSUME NEW k \in watched(disk, p)
      PROVE  k \in 1..MaxLines /\ disk[k] \in Line /\ disk[k].pattern = p /\ isWatched(disk[k])
  <2>1. k \in 1..Len(disk) /\ disk[k] # Torn /\ disk[k].pattern = p /\ isWatched(disk[k])
    BY <1>1 DEF watched, isWatched
  <2>2. disk[k] \in Line
    BY <1>1, <2>1
  <2>3. k <= MaxLines
    BY <2>1 DEF TInv, Shapes
  <2> QED BY <1>1, <2>1, <2>2, <2>3, PositionFileAssumption
<1> QED BY <1>3, <1>4 DEF survivor

\* compact leaves one line for each pattern that has a watched one.
LEMMA RestartedLines ==
    ASSUME TInv, Restart
    PROVE  /\ disk' \in Seq(Line) /\ Len(disk') <= MaxLines
           /\ \A i \in 1..Len(disk') :
                LET p == disk'[i].pattern
                IN  /\ p \in Pattern /\ watched(disk, p) # {} /\ disk'[i] = survivor(p)
                    /\ isWatched(disk'[i])
           /\ \A i, j \in 1..Len(disk') : disk'[i].pattern = disk'[j].pattern => i = j
           /\ \A p \in Pattern : watched(disk, p) # {} =>
                \E i \in 1..Len(disk') : disk'[i].pattern = p
           /\ m_pe_map' = [k \in {<<disk'[i].pattern, disk'[i].path>> : i \in DOMAIN disk'}
                             |-> CHOOSE i \in DOMAIN disk' : disk'[i].pattern = k[1]]
<1> DEFINE S == {p \in Pattern : watched(disk, p) # {}}
           n == Cardinality(S)
<1>1. PICK kept \in inOrder(S) :
         /\ disk' = [i \in DOMAIN kept |-> survivor(kept[i])]
         /\ m_pe_map' = [k \in {<<disk'[i].pattern, disk'[i].path>> : i \in DOMAIN disk'}
                           |-> CHOOSE i \in DOMAIN disk' : disk'[i].pattern = k[1]]
  BY DEF Restart
<1>2. IsFiniteSet(S) /\ n \in Nat
  <2>1. IsFiniteSet(Pattern)
    BY FS_Interval, PositionFileAssumption DEF Pattern
  <2>2. S \in SUBSET Pattern
    OBVIOUS
  <2> QED BY <2>1, <2>2, FS_Subset, FS_CardinalityType
<1>3. /\ kept \in [1..n -> S] /\ Range(kept) = S
      /\ \A i, j \in 1..n : i < j => kept[i] < kept[j]
  BY DEF inOrder
<1>4. \A p \in S : /\ p \in Pattern /\ watched(disk, p) # {}
                   /\ survivor(p) \in Line /\ survivor(p).pattern = p /\ isWatched(survivor(p))
  BY SurvivorIsLast
<1>5. n <= MaxLines
  <2>1. MaxLines \in Nat /\ IsFiniteSet(1..MaxLines) /\ Cardinality(1..MaxLines) = MaxLines
    BY FS_Interval, PositionFileAssumption
  <2> DEFINE f == [p \in S |-> Max(watched(disk, p))]
  <2>2. f \in [S -> 1..MaxLines]
    BY SurvivorIsLast
  <2>3. \A p \in S : disk[f[p]].pattern = p
    BY <1>4 DEF survivor
  <2>4. SUFFICES ASSUME MaxLines < n PROVE FALSE
    BY <1>2, <2>1
  <2> HIDE DEF f, S, n
  <2>5. \E x, y \in S : x # y /\ f[x] = f[y]
    BY <1>2, <2>1, <2>2, <2>4, FS_PigeonHole DEF n
  <2> QED BY <2>3, <2>5
<1>6. \A p \in S : \E i \in 1..n : kept[i] = p
  BY <1>3 DEF Range
<1>7. \A i, j \in 1..n : kept[i] = kept[j] => i = j
  <2>1. ASSUME NEW i \in 1..n, NEW j \in 1..n, kept[i] = kept[j], i # j PROVE FALSE
    <3>1. kept[i] \in Int /\ kept[j] \in Int
      BY <1>3, <1>4, PositionFileAssumption DEF Pattern
    <3>2. i < j \/ j < i
      BY <1>2, <2>1
    <3>3. kept[i] < kept[j] \/ kept[j] < kept[i]
      BY <1>3, <3>2
    <3> QED BY <2>1, <3>1, <3>3
  <2> QED BY <2>1
<1> HIDE DEF S, n
<1>8. DOMAIN kept = 1..n /\ \A i \in 1..n : kept[i] \in S
  BY <1>3
<1>9. \A i \in 1..n : disk'[i] = survivor(kept[i])
  BY <1>1, <1>8
<1>10. disk' \in Seq(Line) /\ Len(disk') = n
  <2>1. disk' = [i \in 1..n |-> survivor(kept[i])]
    BY <1>1, <1>8
  <2>2. \A i \in 1..n : survivor(kept[i]) \in Line
    BY <1>4, <1>8
  <2>3. [i \in 1..n |-> survivor(kept[i])] \in Seq(Line) /\ Len([i \in 1..n |-> survivor(kept[i])]) = n
    BY <1>2, <2>2
  <2> QED BY <2>1, <2>3
<1>11. \A i \in 1..n : disk'[i].pattern = kept[i]
  BY <1>4, <1>8, <1>9
<1>12. \A i \in 1..n : /\ disk'[i].pattern \in Pattern /\ watched(disk, disk'[i].pattern) # {}
                       /\ disk'[i] = survivor(disk'[i].pattern) /\ isWatched(disk'[i])
  BY <1>4, <1>8, <1>9, <1>11
<1>13. \A i, j \in 1..n : disk'[i].pattern = disk'[j].pattern => i = j
  BY <1>7, <1>11
<1>14. \A p \in Pattern : watched(disk, p) # {} => \E i \in 1..n : disk'[i].pattern = p
  BY <1>6, <1>11 DEF S
<1> QED BY <1>1, <1>5, <1>10, <1>12, <1>13, <1>14

\* Manager::start.
LEMMA RestartTypes ==
    ASSUME TInv, Restart
    PROVE  TInv'
<1>1. ~up /\ up' = TRUE /\ UNCHANGED <<path, tails, size, ends, said, odd>>
  BY DEF Restart
<1>2. /\ disk' \in Seq(Line) /\ Len(disk') <= MaxLines
      /\ \A i \in 1..Len(disk') : disk'[i].pattern \in Pattern /\ isWatched(disk'[i])
      /\ \A i, j \in 1..Len(disk') : disk'[i].pattern = disk'[j].pattern => i = j
  BY RestartedLines
<1>3. m_pe_map' = [k \in {<<disk'[i].pattern, disk'[i].path>> : i \in DOMAIN disk'}
                     |-> CHOOSE i \in DOMAIN disk' : disk'[i].pattern = k[1]]
  BY RestartedLines
<1>4. DOMAIN disk' = 1..Len(disk') /\ \A i \in 1..Len(disk') : disk'[i] \in Line
  BY <1>2
<1>5. ASSUME NEW i \in 1..Len(disk')
      PROVE  /\ <<disk'[i].pattern, disk'[i].path>> \in DOMAIN m_pe_map'
             /\ m_pe_map'[<<disk'[i].pattern, disk'[i].path>>] = i
  <2>1. <<disk'[i].pattern, disk'[i].path>> \in DOMAIN m_pe_map'
    BY <1>3, <1>4
  <2>2. m_pe_map'[<<disk'[i].pattern, disk'[i].path>>] =
            CHOOSE j \in DOMAIN disk' : disk'[j].pattern = disk'[i].pattern
    BY <1>3, <1>4
  <2>3. (CHOOSE j \in DOMAIN disk' : disk'[j].pattern = disk'[i].pattern) = i
    BY <1>2, <1>4
  <2> QED BY <2>1, <2>2, <2>3
<1>6. ASSUME NEW k \in DOMAIN m_pe_map'
      PROVE  \E i \in 1..Len(disk') : k = <<disk'[i].pattern, disk'[i].path>>
  BY <1>3, <1>4
<1>7. ASSUME NEW k \in DOMAIN m_pe_map'
      PROVE  /\ m_pe_map'[k] \in DOMAIN disk' /\ disk'[m_pe_map'[k]] \in Line
             /\ <<disk'[m_pe_map'[k]].pattern, disk'[m_pe_map'[k]].path>> = k
             /\ isWatched(disk'[m_pe_map'[k]]) /\ k \in Key
  <2>1. PICK i \in 1..Len(disk') : k = <<disk'[i].pattern, disk'[i].path>>
    BY <1>6
  <2>2. m_pe_map'[k] = i
    BY <1>5, <2>1
  <2>3. disk'[i].pattern \in Pattern /\ disk'[i].path \in Path
    BY <1>4 DEF Line
  <2> QED BY <1>2, <1>4, <2>1, <2>2, <2>3 DEF Key
<1>8. Keyed'
  BY <1>7 DEF Keyed
<1>9. Mapped'
  BY <1>5, <1>7 DEF Mapped
<1>10. \A p \in Pattern : tails'[p] = None
  BY <1>1 DEF TInv, Shapes
<1>11. \A p \in Pattern : Tailed(p)'
  BY <1>10 DEF Tailed
<1>12. /\ path' \in [Pattern -> Path \cup {NoPath}] /\ size' \in [Path -> 0..MaxSize]
       /\ ends' \in 0..MaxEnds /\ odd' \subseteq Pattern
  BY <1>1 DEF TInv, TypeOK
<1>13. /\ DOMAIN tails' = Pattern /\ DOMAIN said' = Pattern
       /\ \A p \in Pattern : /\ said'[p] # None => said'[p] \in Said(p)
                             /\ tails'[p] # None => said'[p] # None
  BY <1>1, <1>10 DEF TInv, Shapes
<1> QED BY <1>1, <1>2, <1>8, <1>9, <1>11, <1>12, <1>13, Together

\* Every step keeps the entries apart and the state well typed.
LEMMA NextTypes == TInv /\ [Next]_vars => TInv'
<1> SUFFICES ASSUME TInv, [Next]_vars PROVE TInv'
  OBVIOUS
<1>1. ASSUME NEW p \in Pattern, NEW q \in Path, StartWatcher(p, q) PROVE TInv'
  BY <1>1, StartTypes
<1>2. ASSUME NEW p \in Pattern, NEW q \in Path, Reconfigure(p, q) PROVE TInv'
  BY <1>2, ReconfigureTypes
<1>3. ASSUME NEW p \in Pattern, NEW next \in Path \cup {NoPath}, StopWatcher(p, next) PROVE TInv'
  BY <1>3, StopWatcherTypes
<1>4. ASSUME NEW p \in Pattern, Open(p) PROVE TInv'
  BY <1>4, OpenTypes
<1>5. ASSUME NEW p \in Pattern, Notify(p) PROVE TInv'
  BY <1>5, NotifyTypes
<1>6. ASSUME NEW p \in Pattern, DeleteTask(p) PROVE TInv'
  BY <1>6, OtherTypes
<1>7. CASE Stop \/ Crash
  BY <1>7, EndTypes
<1>8. CASE Restart
  BY <1>8, RestartTypes
<1>9. ASSUME NEW q \in Path, Grow(q) PROVE TInv'
  BY <1>9, OtherTypes
<1>10. CASE UNCHANGED vars
  BY <1>10 DEF vars, TInv, TypeOK, Shapes, Mapped
<1> QED BY <1>1, <1>2, <1>3, <1>4, <1>5, <1>6, <1>7, <1>8, <1>9, <1>10 DEF Next

\* Spec => []TypeOK: for any number of patterns, paths and lines, and with every
\* fault, each entry is the line of its own pattern and path, so that no two of
\* them share a line, and each tail watcher has an entry of its pattern
\* (operator[], parse, remove, compact).
THEOREM TypeCorrect == Spec => []TypeOK
<1>1. TInv => TypeOK
  BY DEF TInv
<1> QED BY <1>1, InitTypes, NextTypes, PTL DEF Spec
-----------------------------------------------------------------------------
\* A number below the modulus is its own remainder.
LEMMA SmallModulo ==
    ASSUME NEW n \in Nat, NEW m \in Nat, m < n
    PROVE  m % n = m
OBVIOUS

\* An inode of the width that a line has is not cut.
LEMMA InodeFits ==
    ASSUME TypeOK, "wide" \notin Faults, NEW q \in Path
    PROVE  inode(q) % InoLimit = inode(q)
<1>1. inode(q) \in 0..Paths
  BY PositionFileAssumption DEF inode, INO_NONE, Path
<1>2. inode(q) \in Nat /\ inode(q) < InoLimit
  BY <1>1, PositionFileAssumption
<1> QED BY <1>2, SmallModulo, PositionFileAssumption

\* The lines of a running process that are watched.
LEMMA WatchedLines ==
    ASSUME TInv, up, NEW p \in Pattern
    PROVE  /\ watched(disk, p) =
                {k \in 1..Len(disk) : disk[k].pattern = p /\ isWatched(disk[k])}
           /\ \A k \in watched(disk, p) :
                /\ <<p, disk[k].path>> \in DOMAIN m_pe_map
                /\ m_pe_map[<<p, disk[k].path>>] = k
                /\ disk[k] \in Line /\ disk[k].path \in Path
           /\ \A q : <<p, q>> \in DOMAIN m_pe_map =>
                /\ m_pe_map[<<p, q>>] \in watched(disk, p)
                /\ disk[m_pe_map[<<p, q>>]].path = q /\ q \in Path
<1>1. disk \in Seq(Line) /\ DOMAIN disk = 1..Len(disk) /\ \A k \in 1..Len(disk) : disk[k] \in Line
  BY DEF TInv, Shapes
<1>2. watched(disk, p) = {k \in 1..Len(disk) : disk[k].pattern = p /\ isWatched(disk[k])}
  BY <1>1, Distinct DEF watched, isWatched
<1>3. ASSUME NEW k \in watched(disk, p)
      PROVE  /\ <<p, disk[k].path>> \in DOMAIN m_pe_map
             /\ m_pe_map[<<p, disk[k].path>>] = k
             /\ disk[k] \in Line /\ disk[k].path \in Path
  <2>1. k \in 1..Len(disk) /\ disk[k].pattern = p /\ isWatched(disk[k])
    BY <1>2
  <2>2. /\ <<disk[k].pattern, disk[k].path>> \in DOMAIN m_pe_map
        /\ m_pe_map[<<disk[k].pattern, disk[k].path>>] = k
    BY <2>1 DEF TInv, Mapped
  <2>3. disk[k] \in Line /\ disk[k].path \in Path
    BY <1>1, <2>1 DEF Line
  <2> QED BY <2>1, <2>2, <2>3
<1>4. ASSUME NEW q, <<p, q>> \in DOMAIN m_pe_map
      PROVE  /\ m_pe_map[<<p, q>>] \in watched(disk, p)
             /\ disk[m_pe_map[<<p, q>>]].path = q /\ q \in Path
  <2>1. /\ m_pe_map[<<p, q>>] \in DOMAIN disk
        /\ <<disk[m_pe_map[<<p, q>>]].pattern, disk[m_pe_map[<<p, q>>]].path>> = <<p, q>>
    BY <1>4 DEF TInv, TypeOK
  <2>2. isWatched(disk[m_pe_map[<<p, q>>]])
    BY <1>4 DEF TInv, Mapped
  <2>3. disk[m_pe_map[<<p, q>>]].pattern = p /\ disk[m_pe_map[<<p, q>>]].path = q
    BY <2>1
  <2>4. <<p, q>> \in Key
    BY <1>4 DEF TInv, TypeOK
  <2> QED BY <1>1, <1>2, <2>1, <2>2, <2>3, <2>4 DEF Key
<1> QED BY <1>2, <1>3, <1>4

\* What getPath and operator[] find for a pattern.
LEMMA Found ==
    ASSUME TInv, up, NEW p \in Pattern, Recorded(p)
    PROVE  /\ said[p] = None => lastPaths(p) = {} /\ \A q : <<p, q>> \notin DOMAIN m_pe_map
           /\ said[p] # None =>
                /\ said[p].path \in lastPaths(p) /\ Max(lastPaths(p)) = said[p].path
                /\ <<p, said[p].path>> \in DOMAIN m_pe_map
                /\ disk[m_pe_map[<<p, said[p].path>>]] = said[p]
                /\ \A q : <<p, q>> \in DOMAIN m_pe_map => q \in Path /\ q <= said[p].path
<1>1. \A q : q \in lastPaths(p) <=> <<p, q>> \in DOMAIN m_pe_map
  <2>1. DOMAIN m_pe_map \subseteq Pattern \X Path
    BY DEF TInv, TypeOK, Key
  <2>2. ASSUME NEW q, q \in lastPaths(p) PROVE <<p, q>> \in DOMAIN m_pe_map
    <3>1. PICK k \in DOMAIN m_pe_map : k[1] = p /\ k[2] = q
      BY <2>2 DEF lastPaths
    <3> QED BY <2>1, <3>1
  <2>3. ASSUME NEW q, <<p, q>> \in DOMAIN m_pe_map PROVE q \in lastPaths(p)
    <3>1. <<p, q>>[1] = p /\ <<p, q>>[2] = q
      OBVIOUS
    <3> QED BY <2>3, <3>1 DEF lastPaths
  <2> QED BY <2>2, <2>3
<1>2. CASE said[p] = None
  <2>1. watched(disk, p) = {}
    BY <1>2 DEF Recorded
  <2>2. \A q : <<p, q>> \notin DOMAIN m_pe_map
    BY <2>1, WatchedLines
  <2> QED BY <1>1, <1>2, <2>2
<1>3. CASE said[p] # None
  <2>1. PICK e \in watched(disk, p) :
           /\ disk[e] = said[p]
           /\ \A k \in watched(disk, p) : k # e => k < e /\ disk[k].path < said[p].path
    BY <1>3 DEF Recorded
  <2>2. /\ <<p, said[p].path>> \in DOMAIN m_pe_map /\ m_pe_map[<<p, said[p].path>>] = e
        /\ said[p].path \in Path
    BY <2>1, WatchedLines
  <2>3. ASSUME NEW q, <<p, q>> \in DOMAIN m_pe_map
        PROVE  q \in Path /\ q <= said[p].path
    <3>1. /\ m_pe_map[<<p, q>>] \in watched(disk, p)
          /\ disk[m_pe_map[<<p, q>>]].path = q /\ q \in Path
      BY <2>3, WatchedLines
    <3>2. CASE m_pe_map[<<p, q>>] = e
      BY <2>1, <2>2, <3>1, <3>2, PositionFileAssumption DEF Path
    <3>3. CASE m_pe_map[<<p, q>>] # e
      BY <2>1, <2>2, <3>1, <3>3, PositionFileAssumption DEF Path
    <3> QED BY <3>2, <3>3
  <2>4. lastPaths(p) \in SUBSET (1..Paths) /\ said[p].path \in lastPaths(p)
    BY <1>1, <2>2, <2>3 DEF Path
  <2>5. /\ Max(lastPaths(p)) \in lastPaths(p)
        /\ \A q \in lastPaths(p) : q <= Max(lastPaths(p))
    BY <2>4, MaxIsLast, PositionFileAssumption
  <2>6. Max(lastPaths(p)) = said[p].path
    <3>1. Max(lastPaths(p)) <= said[p].path
      BY <1>1, <2>3, <2>5
    <3>2. said[p].path <= Max(lastPaths(p))
      BY <2>4, <2>5
    <3>3. Max(lastPaths(p)) \in Int /\ said[p].path \in Int
      BY <2>4, <2>5, PositionFileAssumption
    <3> QED BY <3>1, <3>2, <3>3
  <2> QED BY <1>3, <2>1, <2>2, <2>3, <2>4, <2>6
<1> QED BY <1>2, <1>3

\* Spec => []RecordIsFound follows from this.
LEMMA RecordsAreFound == TInv /\ RInv => RecordIsFound
<1> SUFFICES ASSUME TInv, RInv, up, NEW p \in Pattern \ odd
             PROVE  IF said[p] = None THEN lastPaths(p) = {}
                    ELSE /\ said[p].path \in lastPaths(p)
                         /\ disk[m_pe_map[<<p, said[p].path>>]] = said[p]
  BY DEF RecordIsFound
<1>1. p \in Pattern /\ Recorded(p)
  BY DEF RInv
<1> QED BY <1>1, Found

\* The lines of a pattern are the same as before.
SameOf(r) ==
    /\ \A k \in DOMAIN disk :
         disk[k] # Torn /\ disk[k].pattern = r => k \in DOMAIN disk' /\ disk'[k] = disk[k]
    /\ \A k \in DOMAIN disk' :
         disk'[k] # Torn /\ disk'[k].pattern = r => k \in DOMAIN disk /\ disk'[k] = disk[k]

\* A pattern whose lines nobody writes to keeps what was recorded.
LEMMA OthersKept ==
    ASSUME NEW r \in Pattern, SameOf(r), said'[r] = said[r], Recorded(r)
    PROVE  Recorded(r)'
<1>1. /\ watched(disk', r) = watched(disk, r)
      /\ \A k \in watched(disk, r) : disk'[k] = disk[k]
  BY DEF watched, SameOf
<1>2. CASE said[r] = None
  BY <1>1, <1>2 DEF Recorded
<1>3. CASE said[r] # None
  <2>1. PICK e \in watched(disk, r) :
           /\ disk[e] = said[r]
           /\ \A k \in watched(disk, r) : k # e => k < e /\ disk[k].path < said[r].path
    BY <1>3 DEF Recorded
  <2> QED BY <1>1, <1>3, <2>1 DEF Recorded
<1> QED BY <1>2, <1>3

\* The line that says what was recorded last is the only one of its path.
LEMMA TheLine ==
    ASSUME TInv, up, NEW p \in Pattern, Recorded(p), said[p] # None,
           NEW x \in watched(disk, p), disk[x] = said[p]
    PROVE  \A k \in watched(disk, p) : k # x => k < x /\ disk[k].path < said[p].path
<1>1. PICK e \in watched(disk, p) :
         /\ disk[e] = said[p]
         /\ \A k \in watched(disk, p) : k # e => k < e /\ disk[k].path < said[p].path
  BY DEF Recorded
<1>2. said[p].path \in Int
  <2>1. disk[x].path \in Path
    BY WatchedLines
  <2> QED BY <2>1, PositionFileAssumption DEF Path
<1>3. x = e
  BY <1>1, <1>2
<1> QED BY <1>1, <1>3

\* A pattern that writes to that line records what it says.
LEMMA MineKept ==
    ASSUME TInv, up, NEW p \in Pattern, Recorded(p), said[p] # None, SameLines(disk', disk),
           NEW x \in watched(disk, p), disk[x] = said[p],
           \A k \in 1..Len(disk) : disk[k].pattern = p /\ k # x => disk'[k] = disk[k],
           said'[p] # None, disk'[x] = said'[p], said'[p].path = said[p].path
    PROVE  Recorded(p)'
<1>1. \A k \in watched(disk, p) : k # x => k < x /\ disk[k].path < said[p].path
  BY TheLine
<1>2. watched(disk, p) = {k \in 1..Len(disk) : disk[k].pattern = p /\ isWatched(disk[k])}
  BY WatchedLines
<1>3. watched(disk', p) = {k \in 1..Len(disk') : disk'[k].pattern = p /\ isWatched(disk'[k])}
  <2>1. disk' \in Seq(Line) /\ DOMAIN disk' = 1..Len(disk') /\ \A k \in 1..Len(disk') : disk'[k] \in Line
    BY DEF SameLines
  <2> QED BY <2>1, Distinct DEF watched, isWatched
<1>4. watched(disk', p) = watched(disk, p)
  BY <1>2, <1>3 DEF SameLines
<1>5. \A k \in watched(disk', p) : k # x => k < x /\ disk'[k].path < said'[p].path
  BY <1>1, <1>2, <1>4
<1> QED BY <1>4, <1>5 DEF Recorded
-----------------------------------------------------------------------------
\* A pattern keeps its lines when another one writes to its own or appends one.
LEMMA Bystander ==
    ASSUME TInv, up, NEW p \in Pattern, NEW r \in Pattern, r # p,
           NEW b \in Seq(Line), Len(disk) <= Len(b),
           \A k \in 1..Len(disk) : b[k] = disk[k],
           \A k \in 1..Len(b) : k \in 1..Len(disk) \/ b[k].pattern = p,
           disk' \in Seq(Line), Len(disk') = Len(b),
           \A k \in 1..Len(b) : /\ disk'[k].pattern = b[k].pattern
                                /\ b[k].pattern # p => disk'[k] = b[k],
           said'[r] = said[r], tails'[r] = tails[r], path'[r] = path[r],
           Recorded(r), Owned(r)
    PROVE  Recorded(r)' /\ Owned(r)'
<1>1. /\ disk \in Seq(Line) /\ DOMAIN disk = 1..Len(disk) /\ Len(disk) \in Nat
      /\ DOMAIN disk' = 1..Len(b) /\ Len(b) \in Nat
  BY DEF TInv, Shapes
<1>2. ASSUME NEW k \in 1..Len(disk), disk[k].pattern = r
      PROVE  k \in 1..Len(b) /\ disk'[k] = disk[k]
  <2>1. k \in 1..Len(b) /\ b[k] = disk[k]
    BY <1>1
  <2> QED BY <1>2, <2>1
<1>3. ASSUME NEW k \in 1..Len(b), disk'[k].pattern = r
      PROVE  k \in 1..Len(disk) /\ disk'[k] = disk[k]
  <2>1. b[k].pattern = r
    BY <1>3
  <2>2. k \in 1..Len(disk)
    BY <2>1
  <2> QED BY <2>1, <2>2
<1>4. SameOf(r)
  BY <1>1, <1>2, <1>3 DEF SameOf
<1>5. Recorded(r)'
  BY <1>4, OthersKept
<1>6. tails[r] # None => disk'[tails[r].entry] = disk[tails[r].entry]
  BY <1>2, OwnEntry
<1>7. Owned(r)'
  BY <1>6 DEF Owned
<1> QED BY <1>5, <1>7

\* The entry of a tail watcher says what was recorded, and has the line of its path.
LEMMA TailLine ==
    ASSUME TInv, up, NEW p \in Pattern, Recorded(p), Owned(p), tails[p] # None
    PROVE  /\ tails[p].entry \in watched(disk, p) /\ disk[tails[p].entry] = said[p]
           /\ said[p] # None /\ tails[p].path = said[p].path
           /\ <<p, tails[p].path>> \in DOMAIN m_pe_map
           /\ m_pe_map[<<p, tails[p].path>>] = tails[p].entry
<1>1. /\ tails[p].entry \in 1..Len(disk) /\ disk[tails[p].entry].pattern = p
      /\ isWatched(disk[tails[p].entry])
  BY OwnEntry
<1>2. tails[p].entry \in watched(disk, p)
  BY <1>1, WatchedLines
<1>3. disk[tails[p].entry] = said[p] /\ tails[p].path = said[p].path /\ said[p] # None
  BY DEF Owned, TInv, Shapes
<1>4. /\ <<p, disk[tails[p].entry].path>> \in DOMAIN m_pe_map
      /\ m_pe_map[<<p, disk[tails[p].entry].path>>] = tails[p].entry
  BY <1>2, WatchedLines
<1> QED BY <1>2, <1>3, <1>4

\* updateTaskPaths starts a pattern with the path that was recorded, or with one
\* that comes after all of its paths.
LEMMA StartPath ==
    ASSUME TInv, up, NEW p \in Pattern, NEW q \in Path, Recorded(p), Owned(p), taskPath(p, q)
    PROVE  \/ said[p] # None /\ q = said[p].path
           \/ /\ <<p, q>> \notin DOMAIN m_pe_map
              /\ said[p] # None => said[p].path < q
<1>1. CASE said[p] = None
  BY <1>1, Found
<1>2. CASE said[p] # None
  <2>1. /\ said[p].path \in lastPaths(p) /\ Max(lastPaths(p)) = said[p].path
        /\ \A o : <<p, o>> \in DOMAIN m_pe_map => o <= said[p].path
    BY <1>2, Found
  <2>2. said[p].path \in Int /\ q \in Int
    BY <1>2, PositionFileAssumption DEF TInv, Shapes, Said, Path
  <2>3. path[p] # NoPath => path[p] = said[p].path
    BY <1>2 DEF Owned
  <2>4. q = said[p].path \/ said[p].path < q
    BY <2>1, <2>3 DEF taskPath
  <2>5. said[p].path < q => <<p, q>> \notin DOMAIN m_pe_map
    BY <2>1, <2>2
  <2> QED BY <1>2, <2>4, <2>5
<1> QED BY <1>1, <1>2

\* startWatchers records the inode of the file it finds.
LEMMA StartRecords ==
    ASSUME TInv, TInv', RInv, "wide" \notin Faults,
           NEW p \in Pattern, NEW q \in Path, StartWatcher(p, q)
    PROVE  RInv'
<1> DEFINE d == appended(p, q)
           e == line(p, q)
           new == [pattern |-> p, path |-> q, pos |-> 0, inode |-> inode(q)]
<1>1. up /\ up' /\ tails[p] = None /\ taskPath(p, q) /\ e <= MaxLines /\ odd' = odd
  BY DEF StartWatcher
<1>2. SameLines(disk', d) /\ \A k \in 1..Len(disk) : k # e => disk'[k] = disk[k]
  BY <1>1, StartedLines
<1>3. /\ d[e].inode # INO_NONE => disk' = d
      /\ d[e].inode = INO_NONE => disk'[e] = new
  <2>1. inode(q) % InoLimit = inode(q)
    BY InodeFits DEF TInv
  <2> QED BY <1>1, <2>1, StartedLines
<1>4. /\ d \in Seq(Line) /\ Len(disk) <= Len(d) /\ Len(disk) \in Nat /\ e \in 1..Len(d)
      /\ \A k \in 1..Len(disk) : d[k] = disk[k]
      /\ \A k \in 1..Len(d) : k \in 1..Len(disk) \/ k = e
  BY <1>1, Entered
<1>5. /\ d[e].pattern = p /\ isWatched(d[e])
      /\ <<p, q>> \in DOMAIN m_pe_map => e = m_pe_map[<<p, q>>] /\ d = disk
      /\ <<p, q>> \notin DOMAIN m_pe_map => e = Len(disk) + 1 /\ d[e] = NewLine(p, q)
  BY <1>1, Entered
<1>6. /\ \A r \in Pattern : r # p => /\ said'[r] = said[r] /\ tails'[r] = tails[r]
                                    /\ path'[r] = path[r]
      /\ said'[p] = IF said[p] = None \/ said[p].path # q \/ said[p].inode = INO_NONE
                      THEN new ELSE said[p]
      /\ path'[p] = q
      /\ \/ tails'[p] = None
         \/ tails'[p] = [path |-> q, entry |-> e, open |-> FALSE, fpos |-> 0]
  BY <1>1 DEF StartWatcher, TInv, TypeOK, Shapes
<1>7. new.path = q /\ new.pattern = p /\ new # None
  <2>1. new \in Said(p)
    BY InodeType, PositionFileAssumption DEF TInv, Said
  <2> QED BY <2>1, Distinct
<1> HIDE DEF d, e, new
<1>8. ASSUME NEW r \in Pattern \ odd, r # p PROVE Recorded(r)' /\ Owned(r)'
  <2>1. Recorded(r) /\ Owned(r)
    BY DEF RInv
  <2>2. \A k \in 1..Len(d) : k \in 1..Len(disk) \/ d[k].pattern = p
    BY <1>4, <1>5
  <2>3. \A k \in 1..Len(d) : /\ disk'[k].pattern = d[k].pattern
                             /\ d[k].pattern # p => disk'[k] = d[k]
    BY <1>2, <1>4, <1>5 DEF SameLines
  <2>4. disk' \in Seq(Line) /\ Len(disk') = Len(d)
    BY <1>2 DEF SameLines
  <2>5. said'[r] = said[r] /\ tails'[r] = tails[r] /\ path'[r] = path[r]
    BY <1>6, <1>8
  <2> QED BY <1>1, <1>4, <1>8, <2>1, <2>2, <2>3, <2>4, <2>5, Bystander
<1>9. ASSUME p \notin odd PROVE Recorded(p)' /\ disk'[e] = said'[p] /\ said'[p] # None /\ said'[p].path = q
  <2>1. Recorded(p) /\ Owned(p)
    BY <1>9 DEF RInv
  <2>2. CASE said[p] # None /\ q = said[p].path
    <3>1. <<p, q>> \in DOMAIN m_pe_map /\ disk[m_pe_map[<<p, q>>]] = said[p]
      BY <1>1, <2>1, <2>2, Found
    <3>2. d = disk /\ disk[e] = said[p] /\ e = m_pe_map[<<p, q>>]
      BY <1>5, <3>1
    <3>3. e \in watched(disk, p)
      BY <1>1, <3>1, <3>2, WatchedLines
    <3>4. disk'[e] = said'[p]
      BY <1>3, <1>6, <2>2, <3>2
    <3>5. said'[p].path = q /\ said'[p] # None
      BY <1>6, <1>7, <2>2
    <3>6. \A k \in 1..Len(disk) : disk[k].pattern = p /\ k # e => disk'[k] = disk[k]
      BY <1>2
    <3>7. Recorded(p)'
      BY <1>1, <1>2, <2>1, <2>2, <3>2, <3>3, <3>4, <3>5, <3>6, MineKept
    <3> QED BY <3>4, <3>5, <3>7
  <2>3. CASE <<p, q>> \notin DOMAIN m_pe_map /\ (said[p] # None => said[p].path < q)
    <3>1. e = Len(disk) + 1 /\ d[e].inode = INO_NONE
      BY <1>5, <2>3 DEF NewLine
    <3>2. said[p] # None => said[p].path # q
      BY <2>3, PositionFileAssumption DEF TInv, Shapes, Said, Path
    <3>3. disk'[e] = new /\ said'[p] = new
      BY <1>3, <1>6, <3>1, <3>2
    <3>4. /\ watched(disk', p) = {k \in 1..Len(disk') : disk'[k].pattern = p /\ isWatched(disk'[k])}
          /\ watched(disk, p) = {k \in 1..Len(disk) : disk[k].pattern = p /\ isWatched(disk[k])}
      <4>1. watched(disk, p) = {k \in 1..Len(disk) : disk[k].pattern = p /\ isWatched(disk[k])}
        BY <1>1, WatchedLines
      <4>2. /\ disk' \in Seq(Line) /\ DOMAIN disk' = 1..Len(disk')
            /\ \A k \in 1..Len(disk') : disk'[k] \in Line
        BY <1>2 DEF SameLines
      <4>3. watched(disk', p) = {k \in 1..Len(disk') : disk'[k].pattern = p /\ isWatched(disk'[k])}
        BY <4>2, Distinct DEF watched, isWatched
      <4> QED BY <4>1, <4>3
    <3>5. e \in watched(disk', p)
      BY <1>2, <1>4, <1>5, <3>4 DEF SameLines
    <3>6. ASSUME NEW k \in watched(disk', p), k # e
          PROVE  k \in watched(disk, p) /\ disk'[k] = disk[k] /\ k < e
      <4>1. k \in 1..Len(d) /\ k \in 1..Len(disk)
        BY <1>2, <1>4, <3>4, <3>6 DEF SameLines
      <4>2. disk'[k] = disk[k]
        BY <1>2, <3>6, <4>1
      <4> QED BY <1>4, <3>1, <3>4, <3>6, <4>1, <4>2
    <3>7. ASSUME NEW k \in watched(disk, p) PROVE disk[k].path < q
      <4>1. said[p] # None
        BY <2>1 DEF Recorded
      <4>2. <<p, disk[k].path>> \in DOMAIN m_pe_map
        BY <1>1, WatchedLines
      <4>3. disk[k].path \in Path /\ disk[k].path <= said[p].path
        BY <1>1, <2>1, <4>1, <4>2, Found
      <4>4. said[p].path < q /\ said[p].path \in Int /\ disk[k].path \in Int /\ q \in Int
        BY <2>3, <4>1, <4>3, PositionFileAssumption DEF TInv, Shapes, Said, Path
      <4> QED BY <4>3, <4>4
    <3>8. \A k \in watched(disk', p) : k # e => k < e /\ disk'[k].path < said'[p].path
      BY <1>7, <3>3, <3>6, <3>7
    <3>9. Recorded(p)'
      BY <1>7, <3>3, <3>5, <3>8 DEF Recorded
    <3> QED BY <1>7, <3>3, <3>9
  <2> QED BY <1>1, <2>1, <2>2, <2>3, StartPath
<1>10. ASSUME p \notin odd PROVE Owned(p)'
  <2>1. /\ [path |-> q, entry |-> e, open |-> FALSE, fpos |-> 0].path = q
        /\ [path |-> q, entry |-> e, open |-> FALSE, fpos |-> 0].entry = e
    OBVIOUS
  <2> QED BY <1>6, <1>9, <1>10, <2>1 DEF Owned
<1> QED BY <1>1, <1>8, <1>9, <1>10 DEF RInv
-----------------------------------------------------------------------------
\* A step that writes in place to the entry of one tail watcher.
LEMMA EntryWritten ==
    ASSUME TInv, RInv, up, NEW p \in Pattern, tails[p] # None, SameLines(disk', disk),
           \A k \in 1..Len(disk) : k # tails[p].entry => disk'[k] = disk[k],
           \A r \in Pattern : r # p => said'[r] = said[r] /\ tails'[r] = tails[r],
           path' = path, odd' = odd,
           p \notin odd => /\ disk'[tails[p].entry] = said'[p] /\ said'[p] # None
                           /\ said'[p].path = said[p].path,
           tails'[p].path = tails[p].path, tails'[p].entry = tails[p].entry
    PROVE  RInv'
<1>1. /\ disk \in Seq(Line) /\ Len(disk) \in Nat
      /\ tails[p].entry \in 1..Len(disk) /\ disk[tails[p].entry].pattern = p
  BY OwnEntry DEF TInv, Shapes
<1>2. ASSUME NEW r \in Pattern \ odd, r # p PROVE Recorded(r)' /\ Owned(r)'
  <2>1. Recorded(r) /\ Owned(r)
    BY DEF RInv
  <2>2. \A k \in 1..Len(disk) : /\ disk'[k].pattern = disk[k].pattern
                                /\ disk[k].pattern # p => disk'[k] = disk[k]
    BY <1>1 DEF SameLines
  <2>3. disk' \in Seq(Line) /\ Len(disk') = Len(disk) /\ Len(disk) <= Len(disk)
    BY <1>1 DEF SameLines
  <2>4. /\ said'[r] = said[r] /\ tails'[r] = tails[r] /\ path'[r] = path[r]
        /\ \A k \in 1..Len(disk) : disk[k] = disk[k]
        /\ \A k \in 1..Len(disk) : k \in 1..Len(disk) \/ disk[k].pattern = p
    BY <1>2
  <2> QED BY <1>1, <1>2, <2>1, <2>2, <2>3, <2>4, Bystander
<1>3. ASSUME p \notin odd PROVE Recorded(p)' /\ Owned(p)'
  <2>1. Recorded(p) /\ Owned(p)
    BY <1>3 DEF RInv
  <2>2. /\ tails[p].entry \in watched(disk, p) /\ disk[tails[p].entry] = said[p]
        /\ said[p] # None /\ tails[p].path = said[p].path
    BY <2>1, TailLine
  <2>3. \A k \in 1..Len(disk) : disk[k].pattern = p /\ k # tails[p].entry => disk'[k] = disk[k]
    OBVIOUS
  <2>4. disk'[tails[p].entry] = said'[p] /\ said'[p] # None /\ said'[p].path = said[p].path
    BY <1>3
  <2>5. Recorded(p)'
    BY <2>1, <2>2, <2>3, <2>4, MineKept
  <2>6. Owned(p)'
    BY <2>1, <2>2, <2>4 DEF Owned
  <2> QED BY <2>5, <2>6
<1> QED BY <1>2, <1>3 DEF RInv

\* onRotate.
LEMMA OpenRecords ==
    ASSUME TInv, RInv, "wide" \notin Faults, NEW p \in Pattern, Open(p)
    PROVE  RInv'
<1> DEFINE e == tails[p].entry
<1>1. up /\ tails[p] # None /\ path' = path /\ odd' = odd
  BY DEF Open
<1>2. /\ SameLines(disk', disk) /\ \A k \in 1..Len(disk) : k # e => disk'[k] = disk[k]
      /\ \A r \in Pattern : r # p => said'[r] = said[r]
  BY OpenedLines
<1>3. tails[p] \in TailWatcher /\ tails[p].path \in Path /\ DOMAIN tails = Pattern
  BY <1>1, OwnEntry DEF TInv, Shapes
<1>4. inode(tails[p].path) % InoLimit = inode(tails[p].path)
  BY <1>3, InodeFits DEF TInv
<1>5. /\ \A r \in Pattern : r # p => tails'[r] = tails[r]
      /\ tails'[p].path = tails[p].path /\ tails'[p].entry = e
  <2>1. tails' = [tails EXCEPT ![p].open = TRUE, ![p].fpos = openPos(p)]
    BY DEF Open
  <2>2. tails'[p] = [[tails[p] EXCEPT !.open = TRUE] EXCEPT !.fpos = openPos(p)]
    BY <1>3, <2>1
  <2>3. /\ [[tails[p] EXCEPT !.open = TRUE] EXCEPT !.fpos = openPos(p)].entry = e
        /\ [[tails[p] EXCEPT !.open = TRUE] EXCEPT !.fpos = openPos(p)].path = tails[p].path
    BY <1>3 DEF TailWatcher
  <2> QED BY <1>3, <2>1, <2>2, <2>3
<1>6. ASSUME p \notin odd
      PROVE  disk'[e] = said'[p] /\ said'[p] # None /\ said'[p].path = said[p].path
  <2>1. disk[e] = said[p] /\ said[p] # None
    BY <1>1, <1>6, TailLine DEF RInv
  <2>2. said'[p] # None
    BY OpenedLines, Distinct
  <2>3. CASE disk[e].inode = inode(tails[p].path)
    <3>1. disk' = disk /\ said' = said
      BY <2>3, OpenedLines
    <3> QED BY <2>1, <3>1
  <2>4. CASE disk[e].inode # inode(tails[p].path)
    <3>1. /\ disk'[e] = [pattern |-> p, path |-> disk[e].path, pos |-> 0,
                         inode |-> inode(tails[p].path) % InoLimit]
          /\ said'[p] = [pattern |-> p, path |-> said[p].path, pos |-> 0,
                         inode |-> inode(tails[p].path)]
      BY <2>4, OpenedLines
    <3> QED BY <1>4, <2>1, <2>2, <3>1
  <2> QED BY <2>3, <2>4
<1> QED BY <1>1, <1>2, <1>5, <1>6, EntryWritten

\* onNotify.
LEMMA NotifyRecords ==
    ASSUME TInv, RInv, NEW p \in Pattern, Notify(p)
    PROVE  RInv'
<1> DEFINE e == tails[p].entry
<1>1. up /\ tails[p] # None /\ tails[p].open /\ path' = path /\ odd' = odd /\ disk' = recorded(disk, p)
  BY DEF Notify
<1>2. disk \in Seq(Line) /\ Len(disk) \in Nat /\ Len(disk) <= Len(disk)
      /\ \A k \in 1..Len(disk) : disk[k] = disk[k]
  BY <1>1 DEF TInv, Shapes
<1>3. /\ SameLines(recorded(disk, p), disk)
      /\ \A k \in 1..Len(disk) : k # e => recorded(disk, p)[k] = disk[k]
  BY <1>1, <1>2, RecordedLines
<1>4. recorded(disk, p)[e] = [pattern |-> p, path |-> disk[e].path,
                              pos |-> size[tails[p].path], inode |-> disk[e].inode]
  BY <1>1, <1>2, RecordedLines
<1>5. /\ \A r \in Pattern : r # p => said'[r] = said[r] /\ tails'[r] = tails[r]
      /\ said'[p] = saidOf(p) /\ tails'[p] = [tails[p] EXCEPT !.fpos = size[tails[p].path]]
  BY DEF Notify, TInv, Shapes
<1>6. tails'[p].path = tails[p].path /\ tails'[p].entry = e
  BY <1>1, <1>5, OwnEntry DEF TailWatcher
<1>7. /\ said'[p] = [pattern |-> p, path |-> said[p].path,
                     pos |-> size[tails[p].path], inode |-> said[p].inode]
      /\ said'[p] # None /\ said'[p].path = said[p].path
  BY <1>1, <1>5, SaidType
<1>8. ASSUME p \notin odd
      PROVE  disk'[e] = said'[p] /\ said'[p] # None /\ said'[p].path = said[p].path
  <2>1. disk[e] = said[p]
    BY <1>1, <1>8, TailLine DEF RInv
  <2> QED BY <1>1, <1>4, <1>7, <2>1
<1>9. SameLines(disk', disk) /\ \A k \in 1..Len(disk) : k # e => disk'[k] = disk[k]
  BY <1>1, <1>3
<1> QED BY <1>1, <1>5, <1>6, <1>8, <1>9, EntryWritten

\* stopWatchers and closeWatcher leave nothing of the pattern that is watched.
LEMMA StopWatcherRecords ==
    ASSUME TInv, RInv, NEW p \in Pattern, NEW next \in Path \cup {NoPath}, StopWatcher(p, next)
    PROVE  RInv'
<1> DEFINE q == tails[p].path
           d == appended(p, q)
           e == line(p, q)
<1>1. up /\ tails[p] # None /\ q \in Path /\ e <= MaxLines
  BY StoppedLines
<1>2. /\ disk' \in Seq(Line) /\ Len(disk') = Len(d)
      /\ \A k \in 1..Len(d) : disk'[k].pattern = d[k].pattern
      /\ \A k \in 1..Len(d) : k # e /\ k # tails[p].entry => disk'[k] = d[k]
  BY StoppedLines
<1>3. /\ d \in Seq(Line) /\ Len(disk) <= Len(d) /\ e \in 1..Len(d)
      /\ \A k \in 1..Len(disk) : d[k] = disk[k]
      /\ \A k \in 1..Len(d) : k \in 1..Len(disk) \/ k = e
  BY <1>1, Entered
<1>4. d[e].pattern = p
  BY <1>1, Entered
<1>5. tails[p].entry \in 1..Len(disk) /\ disk[tails[p].entry].pattern = p
  BY <1>1, OwnEntry
<1> HIDE DEF d, e, q
<1>6. /\ \A r \in Pattern : r # p => /\ said'[r] = said[r] /\ tails'[r] = tails[r]
                                    /\ path'[r] = path[r]
      /\ said'[p] = None /\ tails'[p] = None
      /\ odd' = IF watched(disk', p) # {} THEN odd \cup {p} ELSE odd
  BY DEF StopWatcher, TInv, Shapes, TypeOK
<1>7. ASSUME NEW r \in Pattern \ odd, r # p PROVE Recorded(r)' /\ Owned(r)'
  <2>1. Recorded(r) /\ Owned(r)
    BY DEF RInv
  <2>2. \A k \in 1..Len(d) : k \in 1..Len(disk) \/ d[k].pattern = p
    BY <1>3, <1>4
  <2>3. \A k \in 1..Len(d) : /\ disk'[k].pattern = d[k].pattern
                             /\ d[k].pattern # p => disk'[k] = d[k]
    BY <1>2, <1>3, <1>4, <1>5
  <2>4. said'[r] = said[r] /\ tails'[r] = tails[r] /\ path'[r] = path[r]
    BY <1>6, <1>7
  <2> QED BY <1>1, <1>2, <1>3, <1>7, <2>1, <2>2, <2>3, <2>4, Bystander
<1>8. ASSUME p \notin odd' PROVE Recorded(p)' /\ Owned(p)'
  <2>1. watched(disk', p) = {}
    BY <1>6, <1>8
  <2> QED BY <1>6, <2>1 DEF Recorded, Owned
<1> QED BY <1>6, <1>7, <1>8 DEF RInv

\* updateWatchers hands the entry over.
LEMMA ReconfigureRecords ==
    ASSUME TInv, RInv, NEW p \in Pattern, NEW q \in Path, Reconfigure(p, q)
    PROVE  RInv'
<1> DEFINE o == tails[p].path
           d == appended(p, o)
           e == line(p, o)
<1>1. /\ up /\ tails[p] # None /\ o \in Path /\ e <= MaxLines /\ SameLines(disk', d)
      /\ \A k \in 1..Len(d) : k # tails[p].entry => disk'[k] = d[k]
  BY ReconfiguredLines
<1>2. /\ ~tails[p].open => disk' = d
      /\ tails[p].open =>
           disk'[tails[p].entry] =
               [pattern |-> p, path |-> disk[tails[p].entry].path,
                pos |-> size[o], inode |-> disk[tails[p].entry].inode]
  BY ReconfiguredLines
<1>3. /\ d \in Seq(Line) /\ Len(disk) <= Len(d) /\ e \in 1..Len(d)
      /\ \A k \in 1..Len(disk) : d[k] = disk[k]
      /\ \A k \in 1..Len(d) : k \in 1..Len(disk) \/ k = e
  BY <1>1, Entered
<1>4. /\ d[e].pattern = p
      /\ <<p, o>> \in DOMAIN m_pe_map => e = m_pe_map[<<p, o>>] /\ d = disk
  BY <1>1, Entered
<1>5. tails[p].entry \in 1..Len(disk) /\ disk[tails[p].entry].pattern = p
  BY <1>1, OwnEntry
<1>6. /\ \A r \in Pattern : r # p => /\ said'[r] = said[r] /\ tails'[r] = tails[r]
                                    /\ path'[r] = path[r]
      /\ said'[p] = saidOf(p) /\ path'[p] = q
      /\ tails'[p] = [path |-> q, entry |-> e, open |-> FALSE, fpos |-> 0]
      /\ odd' = IF q # o THEN odd \cup {p} ELSE odd
  BY DEF Reconfigure, TInv, Shapes, TypeOK
<1> HIDE DEF d, e, o
<1>7. ASSUME NEW r \in Pattern \ odd, r # p PROVE Recorded(r)' /\ Owned(r)'
  <2>1. Recorded(r) /\ Owned(r)
    BY DEF RInv
  <2>2. \A k \in 1..Len(d) : k \in 1..Len(disk) \/ d[k].pattern = p
    BY <1>3, <1>4
  <2>3. \A k \in 1..Len(d) : /\ disk'[k].pattern = d[k].pattern
                             /\ d[k].pattern # p => disk'[k] = d[k]
    BY <1>1, <1>3, <1>4, <1>5 DEF SameLines
  <2>4. disk' \in Seq(Line) /\ Len(disk') = Len(d)
    BY <1>1 DEF SameLines
  <2>5. said'[r] = said[r] /\ tails'[r] = tails[r] /\ path'[r] = path[r]
    BY <1>6, <1>7
  <2> QED BY <1>1, <1>3, <1>7, <2>1, <2>2, <2>3, <2>4, <2>5, Bystander
<1>8. ASSUME p \notin odd' PROVE Recorded(p)' /\ Owned(p)'
  <2>1. p \notin odd /\ q = o
    BY <1>6, <1>8
  <2>2. Recorded(p) /\ Owned(p)
    BY <2>1 DEF RInv
  <2>3. /\ tails[p].entry \in watched(disk, p) /\ disk[tails[p].entry] = said[p]
        /\ said[p] # None /\ o = said[p].path
    BY <1>1, <2>2, TailLine DEF o
  <2>4. <<p, o>> \in DOMAIN m_pe_map /\ m_pe_map[<<p, o>>] = tails[p].entry
    BY <1>1, <2>2, TailLine DEF o
  <2>5. e = tails[p].entry /\ d = disk
    BY <1>4, <2>4
  <2>6. /\ said'[p] # None /\ said'[p].path = said[p].path
        /\ ~tails[p].open => said'[p] = said[p]
        /\ tails[p].open => said'[p] = [pattern |-> p, path |-> said[p].path,
                                        pos |-> size[o], inode |-> said[p].inode]
    BY <1>1, <1>6, SaidType DEF o
  <2>7. disk'[tails[p].entry] = said'[p]
    BY <1>2, <2>3, <2>5, <2>6
  <2>8. \A k \in 1..Len(disk) : disk[k].pattern = p /\ k # tails[p].entry => disk'[k] = disk[k]
    BY <1>1, <2>5
  <2>9. Recorded(p)'
    BY <1>1, <2>2, <2>3, <2>5, <2>6, <2>7, <2>8, MineKept
  <2>10. /\ [path |-> q, entry |-> e, open |-> FALSE, fpos |-> 0].path = q
         /\ [path |-> q, entry |-> e, open |-> FALSE, fpos |-> 0].entry = e
    OBVIOUS
  <2>11. Owned(p)'
    BY <1>6, <2>1, <2>3, <2>5, <2>6, <2>7, <2>10 DEF Owned
  <2> QED BY <2>9, <2>11
<1> QED BY <1>6, <1>7, <1>8 DEF RInv
-----------------------------------------------------------------------------
\* Manager::stop.
LEMMA StopRecords ==
    ASSUME TInv, RInv, Stop
    PROVE  RInv'
<1>1. /\ up /\ odd' = odd
      /\ \A r \in Pattern : tails'[r] = None /\ path'[r] = NoPath
      /\ said' = [r \in Pattern |-> IF tails[r] = None THEN said[r] ELSE saidOf(r)]
  BY DEF Stop, forget
<1>2. /\ SameLines(disk', disk)
      /\ \A r \in Pattern : tails[r] # None =>
           disk'[tails[r].entry] = recorded(disk, r)[tails[r].entry]
      /\ \A k \in 1..Len(disk) :
           (\A r \in Pattern : tails[r] # None => tails[r].entry # k) => disk'[k] = disk[k]
  BY StopLines
<1>3. /\ disk \in Seq(Line) /\ DOMAIN disk = 1..Len(disk) /\ Len(disk) \in Nat
      /\ DOMAIN disk' = 1..Len(disk)
  BY <1>1, <1>2 DEF TInv, Shapes, SameLines
<1>4. ASSUME NEW r \in Pattern, NEW k \in 1..Len(disk), disk[k].pattern = r,
             tails[r] # None => tails[r].entry # k
      PROVE  disk'[k] = disk[k]
  <2>1. \A t \in Pattern : tails[t] # None => disk[tails[t].entry].pattern = t
    BY <1>1, OwnEntry
  <2>2. \A t \in Pattern : tails[t] # None => tails[t].entry # k
    BY <1>4, <2>1
  <2> QED BY <1>2, <2>2
<1>5. ASSUME NEW r \in Pattern \ odd PROVE Recorded(r)' /\ Owned(r)'
  <2>1. Recorded(r) /\ Owned(r)
    BY DEF RInv
  <2>2. Owned(r)'
    BY <1>1 DEF Owned
  <2>3. CASE tails[r] = None
    <3>1. said'[r] = said[r]
      BY <1>1, <2>3
    <3>2. \A k \in 1..Len(disk) : disk[k].pattern = r => disk'[k] = disk[k]
      BY <1>4, <2>3
    <3>3. \A k \in 1..Len(disk) : disk'[k].pattern = disk[k].pattern
      BY <1>2 DEF SameLines
    <3>4. SameOf(r)
      BY <1>3, <3>2, <3>3 DEF SameOf
    <3> QED BY <2>1, <2>2, <3>1, <3>4, OthersKept
  <2>4. CASE tails[r] # None
    <3> DEFINE x == tails[r].entry
    <3>1. x \in watched(disk, r) /\ disk[x] = said[r] /\ said[r] # None
      BY <1>1, <2>1, <2>4, TailLine
    <3>2. /\ said'[r] # None /\ said'[r].path = said[r].path
          /\ ~tails[r].open => said'[r] = said[r]
          /\ tails[r].open => said'[r] = [pattern |-> r, path |-> said[r].path,
                                          pos |-> size[tails[r].path], inode |-> said[r].inode]
      BY <1>1, <2>4, SaidType
    <3>3. Len(disk) <= Len(disk) /\ \A k \in 1..Len(disk) : disk[k] = disk[k]
      BY <1>3
    <3>4. /\ ~tails[r].open => recorded(disk, r) = disk
          /\ tails[r].open => recorded(disk, r)[x] =
                [pattern |-> r, path |-> disk[x].path,
                 pos |-> size[tails[r].path], inode |-> disk[x].inode]
      BY <1>1, <1>3, <2>4, <3>3, RecordedLines
    <3>5. disk'[x] = recorded(disk, r)[x]
      BY <1>2, <2>4
    <3>6. disk'[x] = said'[r]
      BY <3>1, <3>2, <3>4, <3>5
    <3>7. \A k \in 1..Len(disk) : disk[k].pattern = r /\ k # x => disk'[k] = disk[k]
      BY <1>4
    <3> HIDE DEF x
    <3>8. Recorded(r)'
      BY <1>1, <1>2, <2>1, <3>1, <3>2, <3>6, <3>7, MineKept
    <3> QED BY <2>2, <3>8
  <2> QED BY <2>3, <2>4
<1> QED BY <1>1, <1>5 DEF RInv

\* A kill, also while a line is appended.
LEMMA CrashRecords ==
    ASSUME TInv, RInv, Crash
    PROVE  RInv'
<1>1. /\ up /\ odd' = odd /\ said' = said
      /\ \A r \in Pattern : tails'[r] = None /\ path'[r] = NoPath
      /\ disk' \in {disk, Append(disk, Torn)}
  BY DEF Crash, forget
<1>2. disk \in Seq(Line) /\ DOMAIN disk = 1..Len(disk) /\ Len(disk) \in Nat
  BY <1>1 DEF TInv, Shapes
<1>3. ASSUME NEW r \in Pattern PROVE SameOf(r)
  <2>1. CASE disk' = disk
    BY <2>1 DEF SameOf
  <2>2. CASE disk' = Append(disk, Torn)
    <3>1. /\ DOMAIN Append(disk, Torn) = 1..(Len(disk) + 1)
          /\ Append(disk, Torn)[Len(disk) + 1] = Torn
          /\ \A k \in 1..Len(disk) : Append(disk, Torn)[k] = disk[k]
      BY <1>2
    <3>2. \A k \in 1..(Len(disk) + 1) : k \in 1..Len(disk) \/ k = Len(disk) + 1
      BY <1>2
    <3>3. \A k \in 1..Len(disk) : k \in 1..(Len(disk) + 1)
      BY <1>2
    <3> QED BY <1>2, <2>2, <3>1, <3>2, <3>3 DEF SameOf
  <2> QED BY <1>1, <2>1, <2>2
<1>4. ASSUME NEW r \in Pattern \ odd PROVE Recorded(r)' /\ Owned(r)'
  <2>1. Recorded(r)
    BY DEF RInv
  <2>2. Recorded(r)'
    BY <1>1, <1>3, <2>1, OthersKept
  <2> QED BY <1>1, <2>2 DEF Owned
<1> QED BY <1>1, <1>4 DEF RInv

\* compact keeps the line that says what was recorded last.
LEMMA RestartRecords ==
    ASSUME TInv, RInv, Restart
    PROVE  RInv'
<1>1. ~up /\ UNCHANGED <<path, tails, said, odd>>
  BY DEF Restart
<1>2. \A r \in Pattern : tails'[r] = None /\ path'[r] = NoPath
  BY <1>1 DEF TInv, Shapes
<1>3. /\ disk' \in Seq(Line)
      /\ \A i, j \in 1..Len(disk') : disk'[i].pattern = disk'[j].pattern => i = j
      /\ \A p \in Pattern : watched(disk, p) # {} =>
           \E i \in 1..Len(disk') : disk'[i].pattern = p
  BY RestartedLines
<1>4. ASSUME NEW i \in 1..Len(disk')
      PROVE  /\ disk'[i].pattern \in Pattern /\ watched(disk, disk'[i].pattern) # {}
             /\ disk'[i] = survivor(disk'[i].pattern) /\ isWatched(disk'[i])
  BY RestartedLines
<1>5. ASSUME NEW r \in Pattern
      PROVE  watched(disk', r) = {i \in 1..Len(disk') : disk'[i].pattern = r}
  <2>1. DOMAIN disk' = 1..Len(disk') /\ \A i \in 1..Len(disk') : disk'[i] # Torn
    BY <1>3, Distinct
  <2> QED BY <1>4, <2>1 DEF watched, isWatched
<1>6. ASSUME NEW r \in Pattern \ odd PROVE Recorded(r)' /\ Owned(r)'
  <2>1. Recorded(r)
    BY DEF RInv
  <2>2. CASE said[r] = None
    <3>1. watched(disk, r) = {}
      BY <2>1, <2>2 DEF Recorded
    <3>2. watched(disk', r) = {}
      BY <1>4, <1>5, <3>1
    <3> QED BY <1>1, <1>2, <2>2, <3>2 DEF Recorded, Owned
  <2>3. CASE said[r] # None
    <3>1. PICK e \in watched(disk, r) :
             /\ disk[e] = said[r]
             /\ \A k \in watched(disk, r) : k # e => k < e /\ disk[k].path < said[r].path
      BY <2>1, <2>3 DEF Recorded
    <3>2. PICK i \in 1..Len(disk') : disk'[i].pattern = r
      BY <1>3, <3>1
    <3>3. /\ Max(watched(disk, r)) \in watched(disk, r)
          /\ \A k \in watched(disk, r) : k <= Max(watched(disk, r))
      BY <3>1, SurvivorIsLast
    <3>4. \A k \in watched(disk, r) : k \in Nat
      <4>1. disk \in Seq(Line \cup {Torn}) /\ DOMAIN disk = 1..Len(disk)
        BY DEF TInv, TypeOK
      <4> QED BY <4>1 DEF watched
    <3>5. Max(watched(disk, r)) = e
      BY <3>1, <3>3, <3>4
    <3>6. disk'[i] = said[r]
      BY <1>4, <3>1, <3>2, <3>5 DEF survivor
    <3>7. watched(disk', r) = {i}
      BY <1>3, <1>5, <3>2
    <3> QED BY <1>1, <1>2, <2>3, <3>6, <3>7 DEF Recorded, Owned
  <2> QED BY <2>2, <2>3
<1> QED BY <1>1, <1>6 DEF RInv

\* Every step keeps what was recorded, if an inode fits into a line.
LEMMA NextRecords ==
    ASSUME "wide" \notin Faults
    PROVE  TInv /\ TInv' /\ RInv /\ [Next]_vars => RInv'
<1> SUFFICES ASSUME TInv, TInv', RInv, [Next]_vars PROVE RInv'
  OBVIOUS
<1>1. ASSUME NEW p \in Pattern, NEW q \in Path, StartWatcher(p, q) PROVE RInv'
  BY <1>1, StartRecords
<1>2. ASSUME NEW p \in Pattern, NEW q \in Path, Reconfigure(p, q) PROVE RInv'
  BY <1>2, ReconfigureRecords
<1>3. ASSUME NEW p \in Pattern, NEW next \in Path \cup {NoPath}, StopWatcher(p, next) PROVE RInv'
  BY <1>3, StopWatcherRecords
<1>4. ASSUME NEW p \in Pattern, Open(p) PROVE RInv'
  BY <1>4, OpenRecords
<1>5. ASSUME NEW p \in Pattern, Notify(p) PROVE RInv'
  BY <1>5, NotifyRecords
<1>6. ASSUME NEW p \in Pattern, DeleteTask(p) PROVE RInv'
  <2>1. UNCHANGED <<disk, tails, said, odd>> /\ path' = [path EXCEPT ![p] = NoPath]
    BY <1>6 DEF DeleteTask
  <2>2. \A r \in Pattern : path'[r] = NoPath \/ path'[r] = path[r]
    BY <2>1 DEF TInv, TypeOK
  <2> QED BY <2>1, <2>2 DEF RInv, Recorded, Owned, watched
<1>7. CASE Stop
  BY <1>7, StopRecords
<1>8. CASE Crash
  BY <1>8, CrashRecords
<1>9. CASE Restart
  BY <1>9, RestartRecords
<1>10. CASE (\E q \in Path : Grow(q)) \/ UNCHANGED vars
  <2>1. UNCHANGED <<disk, tails, said, odd, path>>
    BY <1>10 DEF Grow, vars
  <2> QED BY <2>1 DEF RInv, Recorded, Owned, watched
<1> QED BY <1>1, <1>2, <1>3, <1>4, <1>5, <1>6, <1>7, <1>8, <1>9, <1>10 DEF Next

\* Nothing is recorded at first.
LEMMA InitRecords == Init => RInv
<1> SUFFICES ASSUME Init, NEW p \in Pattern PROVE Recorded(p) /\ Owned(p)
  BY DEF RInv
<1>1. said[p] = None /\ tails[p] = None /\ DOMAIN disk = {}
  BY DEF Init
<1>2. watched(disk, p) = {}
  BY <1>1 DEF watched
<1> QED BY <1>1, <1>2 DEF Recorded, Owned

\* As long as inodes fit into a line: whatever is started, stopped, deleted,
\* reconfigured and killed, with torn lines and any number of patterns in the
\* file, the entry of a pattern says what was recorded for it last, also after a
\* restart has compacted the file; one that is not watched has none.
THEOREM RecordIsFoundAlways ==
    ASSUME "wide" \notin Faults
    PROVE  Spec => []RecordIsFound
<1>1. TInv /\ TInv' /\ RInv /\ [Next]_vars => RInv'
  BY NextRecords
<1> QED BY <1>1, InitTypes, InitRecords, NextTypes, RecordsAreFound, PTL DEF Spec
-----------------------------------------------------------------------------
\* What one pattern records is a position in its file, or the head of it.
LEMMA SaidFits ==
    ASSUME TInv, Fits, NEW p \in Pattern,
           \/ \E q \in Path : StartWatcher(p, q) \/ Reconfigure(p, q)
           \/ \E next \in Path \cup {NoPath} : StopWatcher(p, next)
           \/ Open(p) \/ Notify(p) \/ DeleteTask(p)
    PROVE  Fits'
<1>1. /\ size' = size /\ up
      /\ \A q \in Path : size[q] <= IntMax
      /\ \A r \in Pattern : said[r] # None => said[r].pos <= IntMax
  BY DEF Fits, StartWatcher, Reconfigure, StopWatcher, Open, Notify, DeleteTask
<1>2. ASSUME tails[p] # None PROVE saidOf(p).pos <= IntMax
  <2>1. tails[p].path \in Path
    BY <1>1, <1>2, OwnEntry
  <2>2. CASE tails[p].open
    <3>1. saidOf(p) = [pattern |-> p, path |-> said[p].path,
                       pos |-> size[tails[p].path], inode |-> said[p].inode]
      BY <1>1, <1>2, <2>2, SaidType
    <3>2. saidOf(p).pos = size[tails[p].path]
      BY <3>1
    <3> QED BY <1>1, <2>1, <3>2
  <2>3. CASE ~tails[p].open
    BY <1>1, <1>2, <2>3, SaidType
  <2> QED BY <2>2, <2>3
<1>3. DOMAIN said = Pattern
  BY DEF TInv, Shapes
<1>4. 0 <= IntMax
  BY PositionFileAssumption
<1>5. ASSUME NEW q \in Path, StartWatcher(p, q)
      PROVE  \A r \in Pattern : said'[r] # None => said'[r].pos <= IntMax
  BY <1>1, <1>3, <1>4, <1>5 DEF StartWatcher
<1>6. ASSUME said' = [said EXCEPT ![p] = saidOf(p)], tails[p] # None
      PROVE  \A r \in Pattern : said'[r] # None => said'[r].pos <= IntMax
  BY <1>1, <1>2, <1>3, <1>6
<1>7. ASSUME NEW next \in Path \cup {NoPath}, StopWatcher(p, next)
      PROVE  \A r \in Pattern : said'[r] # None => said'[r].pos <= IntMax
  BY <1>1, <1>3, <1>7 DEF StopWatcher
<1>8. ASSUME Open(p)
      PROVE  \A r \in Pattern : said'[r] # None => said'[r].pos <= IntMax
  <2>1. /\ disk[tails[p].entry].inode = inode(tails[p].path) => said' = said
        /\ disk[tails[p].entry].inode # inode(tails[p].path) =>
             said'[p] = [pattern |-> p, path |-> said[p].path, pos |-> 0,
                         inode |-> inode(tails[p].path)]
        /\ \A r \in Pattern : r # p => said'[r] = said[r]
    BY <1>8, OpenedLines
  <2> QED BY <1>1, <1>4, <2>1
<1>9. \A r \in Pattern : said'[r] # None => said'[r].pos <= IntMax
  <2>1. CASE \E q \in Path : StartWatcher(p, q)
    BY <1>5, <2>1
  <2>2. CASE (\E q \in Path : Reconfigure(p, q)) \/ Notify(p)
    BY <1>6, <2>2 DEF Reconfigure, Notify
  <2>3. CASE \E next \in Path \cup {NoPath} : StopWatcher(p, next)
    BY <1>7, <2>3
  <2>4. CASE Open(p)
    BY <1>8, <2>4
  <2>5. CASE DeleteTask(p)
    BY <1>1, <2>5 DEF DeleteTask
  <2> QED BY <2>1, <2>2, <2>3, <2>4, <2>5
<1> QED BY <1>1, <1>9 DEF Fits

\* Files that do not grow beyond an int never make a position that does.
LEMMA NextFits ==
    ASSUME "long" \notin Faults
    PROVE  TInv /\ Fits /\ [Next]_vars => Fits'
<1> SUFFICES ASSUME TInv, Fits, [Next]_vars PROVE Fits'
  OBVIOUS
<1>1. CASE Stop
  <2>1. up /\ size' = size
    BY <1>1 DEF Stop, forget
  <2>2. ASSUME NEW r \in Pattern, tails[r] # None PROVE saidOf(r).pos <= IntMax
    <3>1. tails[r].path \in Path /\ said[r] # None
      BY <2>1, <2>2, OwnEntry, SaidType
    <3>2. /\ ~tails[r].open => saidOf(r) = said[r]
          /\ tails[r].open => saidOf(r) = [pattern |-> r, path |-> said[r].path,
                                 pos |-> size[tails[r].path], inode |-> said[r].inode]
      BY <2>1, <2>2, SaidType
    <3>3. tails[r].open => saidOf(r).pos = size[tails[r].path]
      BY <3>2
    <3> QED BY <3>1, <3>2, <3>3 DEF Fits
  <2>3. \A r \in Pattern : said'[r] = IF tails[r] = None THEN said[r] ELSE saidOf(r)
    BY <1>1 DEF Stop
  <2> QED BY <2>1, <2>2, <2>3 DEF Fits
<1>2. ASSUME NEW q \in Path, Grow(q) PROVE Fits'
  <2>1. /\ size[q] < IntMax /\ size' = [size EXCEPT ![q] = @ + 1] /\ said' = said
        /\ size \in [Path -> 0..MaxSize]
    BY <1>2 DEF Grow, TInv, TypeOK
  <2>2. size[q] + 1 <= IntMax
    BY <2>1, PositionFileAssumption
  <2> QED BY <2>1, <2>2 DEF Fits
<1>3. CASE Crash \/ Restart \/ UNCHANGED vars
  BY <1>3 DEF Fits, Crash, forget, Restart, vars
<1> QED BY <1>1, <1>2, <1>3, SaidFits DEF Next

\* Such a position comes back from the file as it was.
LEMMA IntKept ==
    ASSUME NEW pos \in Nat, pos <= IntMax
    PROVE  toInt(pos) = pos
<1>1. /\ 2 * (IntMax + 1) \in Nat /\ pos + IntMax + 1 \in Nat
      /\ pos + IntMax + 1 < 2 * (IntMax + 1)
  BY PositionFileAssumption
<1>2. (pos + IntMax + 1) % (2 * (IntMax + 1)) = pos + IntMax + 1
  BY <1>1, SmallModulo
<1> QED BY <1>2, PositionFileAssumption DEF toInt

\* onRotate is all that opens a file, and it starts from the entry.
LEMMA Resumes ==
    ASSUME TInv, RInv, Fits, [Next]_vars, NEW p \in Pattern \ odd,
           tails[p] # None, ~tails[p].open, tails'[p] # None, tails'[p].open
    PROVE  tails'[p].fpos = IF said[p].inode = inode(tails[p].path) THEN said[p].pos ELSE 0
<1>0. DOMAIN tails = Pattern
  BY DEF TInv, Shapes
<1>1. ASSUME Open(p)
      PROVE  tails'[p].fpos = IF said[p].inode = inode(tails[p].path) THEN said[p].pos ELSE 0
  <2>1. up /\ tails' = [tails EXCEPT ![p].open = TRUE, ![p].fpos = openPos(p)]
    BY <1>1 DEF Open
  <2>2. disk[tails[p].entry] = said[p]
    BY <2>1, TailLine DEF RInv
  <2>3. said[p].pos \in Nat /\ said[p].pos <= IntMax
    BY <2>1, SaidType DEF Fits, Said
  <2>4. openPos(p) = IF said[p].inode = inode(tails[p].path) THEN said[p].pos ELSE 0
    BY <2>2, <2>3, IntKept DEF openPos
  <2>5. tails[p] \in TailWatcher
    BY <2>1, OwnEntry
  <2>6. tails'[p].fpos = openPos(p)
    BY <1>0, <2>1, <2>5 DEF TailWatcher
  <2> QED BY <2>4, <2>6
<1>2. ASSUME NEW q \in Path, NEW e, tails'[p] = [path |-> q, entry |-> e, open |-> FALSE, fpos |-> 0]
      PROVE  FALSE
  BY <1>2
<1>3. ASSUME NEW r \in Pattern, NEW q \in Path, StartWatcher(r, q) \/ Reconfigure(r, q)
      PROVE  FALSE
  <2>1. r = p
    BY <1>0, <1>3 DEF StartWatcher, Reconfigure
  <2>2. tails'[p] = [path |-> q, entry |-> line(p, tails[p].path), open |-> FALSE, fpos |-> 0]
    BY <1>0, <1>3, <2>1 DEF StartWatcher, Reconfigure
  <2> QED BY <1>2, <2>2
<1>4. ASSUME NEW r \in Pattern, NEW next \in Path \cup {NoPath}, StopWatcher(r, next)
      PROVE  FALSE
  BY <1>0, <1>4 DEF StopWatcher
<1>5. ASSUME NEW r \in Pattern, Notify(r) PROVE FALSE
  <2>1. r # p
    BY <1>5 DEF Notify
  <2> QED BY <1>0, <1>5, <2>1 DEF Notify
<1>6. ASSUME NEW r \in Pattern, Open(r) PROVE r = p
  BY <1>0, <1>6 DEF Open
<1>7. tails' # tails /\ ~Stop /\ ~Crash
  BY DEF Stop, Crash, forget
<1> QED BY <1>1, <1>3, <1>4, <1>5, <1>6, <1>7 DEF Next, DeleteTask, Restart, Grow, vars

\* As long as inodes fit into a line and positions into an int, a tail watcher
\* goes on reading where its pattern has recorded last that it stopped, also
\* when the process was killed in between, and at the head of any other file.
THEOREM ResumesWhereRecordedAlways ==
    ASSUME "wide" \notin Faults, "long" \notin Faults
    PROVE  Spec => ResumesWhereRecorded
<1>1. TInv /\ RInv /\ Fits /\ [Next]_vars =>
        [\A p \in Pattern \ odd :
           tails[p] # None /\ ~tails[p].open /\ tails'[p] # None /\ tails'[p].open =>
               tails'[p].fpos =
                   IF said[p].inode = inode(tails[p].path) THEN said[p].pos ELSE 0]_vars
  BY Resumes
<1>2. TInv /\ TInv' /\ RInv /\ [Next]_vars => RInv'
  BY NextRecords
<1>3. TInv /\ Fits /\ [Next]_vars => Fits'
  BY NextFits
<1>4. Init => Fits
  BY PositionFileAssumption DEF Init, Fits
<1> QED BY <1>1, <1>2, <1>3, <1>4, InitTypes, InitRecords, NextTypes, PTL
        DEF Spec, ResumesWhereRecorded
=============================================================================
