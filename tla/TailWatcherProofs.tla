------------------------- MODULE TailWatcherProofs -------------------------
(***************************************************************************)
(* TailWatcher for every number of files and lines: the state is well      *)
(* typed; as long as a change of the file is noticed before the next, no   *)
(* line is handed over twice; and when moreover no truncation falls into a *)
(* time the process is down, no line is missed and a file is left only     *)
(* when all of it was handed over.                                         *)
(***************************************************************************)
EXTENDS TailWatcher, TLAPS

\* The files are created one after the other, the writer has one of them open.
Inodes ==
    /\ winode <= files
    /\ path_inode \in {INO_NONE, files}
    /\ path_inode = INO_NONE => files < MaxFiles
    /\ entry.inode <= files
    /\ \A n \in Inode : n > files => data[n] = <<>>

\* Every line has its own number, given to it when it is written.
Numbered ==
    /\ \A n \in Inode : Len(data[n]) <= written
    /\ \A n \in Inode : \A k \in DOMAIN data[n] : data[n][k] <= written
    /\ \A m, n \in Inode : \A j \in DOMAIN data[m], k \in DOMAIN data[n] :
           data[m][j] = data[n][k] => m = n /\ j = k
    /\ \A l \in got : l <= written

TInv == TypeOK /\ Inodes /\ Numbered
-----------------------------------------------------------------------------
\* A file that a line was appended to.
LEMMA AppendLine ==
    ASSUME NEW S, NEW s \in Seq(S), NEW e \in S
    PROVE  /\ Append(s, e) \in Seq(S) /\ Len(s) \in Nat
           /\ Len(Append(s, e)) = Len(s) + 1
           /\ DOMAIN s = 1..Len(s)
           /\ DOMAIN Append(s, e) = 1..(Len(s) + 1)
           /\ \A k \in 1..Len(s) : Append(s, e)[k] = s[k]
           /\ Append(s, e)[Len(s) + 1] = e
OBVIOUS

\* What is in a file is one of the lines written.
LEMMA LineOfFile ==
    ASSUME NEW S, NEW s \in Seq(S), NEW k \in DOMAIN s
    PROVE  s[k] \in S
OBVIOUS

\* A file that was never written to or was truncated.
LEMMA NoLines ==
    /\ \A S : <<>> \in Seq(S)
    /\ Len(<<>>) = 0 /\ DOMAIN <<>> = {} /\ LinesOf(<<>>) = {}
BY DEF LinesOf

\* What TypeOK says of the numbers and the files.
LEMMA Numbers ==
    ASSUME TInv
    PROVE  /\ files \in Nat /\ files <= MaxFiles /\ written \in Nat /\ written <= MaxLines
           /\ MaxFiles \in Nat \ {0} /\ MaxLines \in Nat
           /\ fpos \in Nat /\ entry.pos \in Nat /\ entry.inode \in Nat /\ m_fsize \in Int
           /\ hinode \in Nat /\ st.size \in Nat
           /\ hinode # INO_NONE => hinode \in Inode /\ hinode = entry.inode
           /\ path_inode # INO_NONE => path_inode \in Inode
           /\ \A n \in Inode : /\ data[n] \in Seq(1..MaxLines) /\ Len(data[n]) \in Nat
                               /\ DOMAIN data[n] = 1..Len(data[n]) /\ n \in Nat \ {0}
<1>1. /\ files \in Nat /\ files <= MaxFiles /\ written \in Nat /\ written <= MaxLines
      /\ MaxFiles \in Nat \ {0} /\ MaxLines \in Nat /\ fpos \in Nat /\ m_fsize \in Int
  BY BoundsAssumption DEF TInv, TypeOK
<1>2. entry.pos \in Nat /\ entry.inode \in Inode \cup {INO_NONE} /\ st.size \in Nat
  BY <1>1 DEF TInv, TypeOK
<1>3. \A n \in Inode : n \in Nat \ {0}
  BY <1>1 DEF Inode
<1>4. INO_NONE \in Nat
  BY DEF INO_NONE
<1>5. /\ hinode # INO_NONE => hinode \in Inode /\ hinode = entry.inode
      /\ path_inode # INO_NONE => path_inode \in Inode
  BY <1>2 DEF TInv, TypeOK
<1>6. \A n \in Inode : data[n] \in Seq(1..MaxLines)
  BY DEF TInv, TypeOK
<1> QED BY <1>1, <1>2, <1>3, <1>4, <1>5, <1>6

\* The first state.
LEMMA InitTypes == Init => TInv
<1> SUFFICES ASSUME Init PROVE TInv
  OBVIOUS
<1>0. MaxFiles \in Nat \ {0} /\ MaxLines \in Nat
  BY BoundsAssumption
<1>1. /\ files \in 0..MaxFiles /\ written = 0 /\ winode = files /\ path_inode = files
      /\ files \in Inode \cup {INO_NONE} /\ files <= 1
  BY <1>0 DEF Init, Inode, INO_NONE
<1>2. /\ entry \in [inode : Inode \cup {INO_NONE}, pos : 0..MaxLines] /\ entry.inode <= files
  BY <1>0, <1>1 DEF Init, startedEntry, INO_NONE
<1>3. data \in [Inode -> Seq(1..MaxLines)] /\ \A n \in Inode : data[n] = <<>>
  BY NoLines DEF Init
<1>4. st \in [inode : Inode \cup {INO_NONE}, size : 0..MaxLines]
  BY <1>0 DEF Init
<1>5. TypeOK
  <2>1. /\ m_inode \in Inode \cup {INO_NONE} /\ m_fsize \in -1..MaxLines
        /\ hinode \in {INO_NONE, entry.inode} /\ fpos \in 0..MaxLines
        /\ written \in 0..MaxLines /\ pc \in {"idle", "open", "io", "down"}
    BY <1>0, <1>1 DEF Init
  <2>2. /\ silent \in BOOLEAN /\ read_from_head \in BOOLEAN
        /\ got \subseteq 1..MaxLines /\ twice \subseteq got /\ raced \subseteq got
        /\ gone \subseteq 1..MaxLines
    BY DEF Init
  <2> QED BY <1>1, <1>2, <1>3, <1>4, <2>1, <2>2 DEF TypeOK
<1>6. Inodes
  BY <1>0, <1>1, <1>2, <1>3 DEF Init, Inodes, INO_NONE
<1>7. Numbered
  BY <1>1, <1>3, NoLines DEF Init, Numbered
<1> QED BY <1>5, <1>6, <1>7 DEF TInv

\* The lines of a file have been written.
LEMMA WrittenLines ==
    ASSUME TInv, NEW n \in Inode
    PROVE  LinesOf(data[n]) \subseteq 1..written /\ LinesOf(data[n]) \subseteq 1..MaxLines
<1>1. \A k \in DOMAIN data[n] : data[n][k] \in 1..MaxLines /\ data[n][k] <= written
  <2>1. data[n] \in Seq(1..MaxLines)
    BY Numbers
  <2>2. \A k \in DOMAIN data[n] : data[n][k] \in 1..MaxLines
    BY <2>1, LineOfFile
  <2> QED BY <2>2 DEF TInv, Numbered
<1>2. written \in Nat /\ MaxLines \in Nat
  BY Numbers
<1> QED BY <1>1, <1>2 DEF LinesOf

\* What is handed over are lines of the handler's file.
LEMMA UnreadLines ==
    ASSUME TInv, hinode # INO_NONE
    PROVE  unreadLines \subseteq LinesOf(data[hinode])
<1>1. hinode \in Inode /\ fpos \in Nat /\ DOMAIN data[hinode] = 1..Len(data[hinode])
      /\ Len(data[hinode]) \in Nat
  BY Numbers
<1>2. \A k \in (fpos + 1)..Len(data[hinode]) : k \in DOMAIN data[hinode]
  BY <1>1
<1> QED BY <1>2 DEF unreadLines, LinesOf

\* What is handed over was written, and is only repeated if it was got before.
LEMMA HandedOver ==
    ASSUME TInv, hinode # INO_NONE, handOver
    PROVE  /\ got' \subseteq 1..written /\ got' \subseteq 1..MaxLines
           /\ twice' \subseteq got' /\ raced' \subseteq got' /\ gone' = gone
<1>1. hinode \in Inode
  BY Numbers
<1>2. got \subseteq 1..MaxLines /\ \A l \in got : l <= written
  BY DEF TInv, TypeOK, Numbered
<1>3. written \in Nat /\ MaxLines \in Nat
  BY Numbers
<1>4. unreadLines \subseteq 1..written /\ unreadLines \subseteq 1..MaxLines
  BY <1>1, UnreadLines, WrittenLines
<1>5. got \subseteq 1..written
  BY <1>2, <1>3
<1> QED BY <1>2, <1>4, <1>5 DEF handOver, TInv, TypeOK

\* The writer appends the next line to its file: the lines of the files are
\* those they had, and the new one.
LEMMA Written ==
    ASSUME TInv, Write
    PROVE  /\ winode \in Inode /\ winode <= files
           /\ written' = written + 1 /\ written' \in 1..MaxLines
           /\ data' \in [Inode -> Seq(1..MaxLines)]
           /\ Len(data'[winode]) = Len(data[winode]) + 1
           /\ Len(data[winode]) + 1 \in DOMAIN data'[winode]
           /\ data'[winode][Len(data[winode]) + 1] = written'
           /\ \A n \in Inode : n # winode => data'[n] = data[n]
           /\ \A n \in Inode : \A k \in DOMAIN data[n] :
                  k \in DOMAIN data'[n] /\ data'[n][k] = data[n][k]
           /\ \A n \in Inode : \A k \in DOMAIN data'[n] :
                  \/ k \in DOMAIN data[n] /\ data'[n][k] = data[n][k]
                  \/ n = winode /\ k = Len(data[n]) + 1 /\ data'[n][k] = written'
<1>0. /\ files \in Nat /\ written \in Nat /\ MaxLines \in Nat
      /\ \A n \in Inode : /\ data[n] \in Seq(1..MaxLines) /\ Len(data[n]) \in Nat
  BY Numbers
<1>1. /\ written' = written + 1 /\ written < MaxLines /\ winode # INO_NONE
      /\ data' = [data EXCEPT ![winode] = Append(@, written')]
  BY DEF Write
<1>2. winode \in Inode /\ written' \in 1..MaxLines /\ winode <= files
  BY <1>0, <1>1 DEF TInv, TypeOK, Inodes
<1> DEFINE s == data[winode]
           t == Append(s, written')
<1>3. /\ t \in Seq(1..MaxLines) /\ Len(s) \in Nat /\ Len(t) = Len(s) + 1
      /\ DOMAIN s = 1..Len(s) /\ DOMAIN t = 1..(Len(s) + 1)
      /\ \A k \in 1..Len(s) : t[k] = s[k]
      /\ t[Len(s) + 1] = written'
  BY <1>0, <1>2, AppendLine
<1>4. /\ data' \in [Inode -> Seq(1..MaxLines)] /\ data'[winode] = t
      /\ \A n \in Inode : n # winode => data'[n] = data[n]
  BY <1>1, <1>2, <1>3 DEF TInv, TypeOK
<1> HIDE DEF s, t
<1>5. s = data[winode]
  BY DEF s
<1>6. ASSUME NEW n \in Inode, NEW k \in DOMAIN data'[n]
      PROVE  \/ k \in DOMAIN data[n] /\ data'[n][k] = data[n][k]
             \/ n = winode /\ k = Len(data[n]) + 1 /\ data'[n][k] = written'
  <2>1. CASE n # winode
    BY <1>4, <2>1
  <2>2. CASE n = winode
    <3>1. k \in 1..(Len(s) + 1)
      BY <1>3, <1>4, <2>2
    <3>2. k \in 1..Len(s) \/ k = Len(s) + 1
      BY <1>3, <3>1
    <3> QED BY <1>3, <1>4, <1>5, <2>2, <3>2
  <2> QED BY <2>1, <2>2
<1>7. ASSUME NEW n \in Inode, NEW k \in DOMAIN data[n]
      PROVE  k \in DOMAIN data'[n] /\ data'[n][k] = data[n][k]
  BY <1>3, <1>4, <1>5
<1>8. Len(s) + 1 \in DOMAIN t
  BY <1>3
<1> QED BY <1>1, <1>2, <1>3, <1>4, <1>5, <1>6, <1>7, <1>8

\* A step that leaves the disk alone keeps the files and the numbers of the
\* lines as they are.
LEMMA DiskUnchanged ==
    ASSUME TInv, UNCHANGED disk, entry'.inode <= files, \A l \in got' : l <= written
    PROVE  Inodes' /\ Numbered'
BY DEF TInv, Inodes, Numbered, disk

\* Every step keeps the types, whatever goes wrong.
LEMMA NextTypes == TInv /\ [Next]_vars => TInv'
<1> SUFFICES ASSUME TInv, [Next]_vars PROVE TInv'
  OBVIOUS
<1>0. /\ files \in Nat /\ files <= MaxFiles /\ written \in Nat /\ written <= MaxLines
      /\ MaxFiles \in Nat \ {0} /\ MaxLines \in Nat
      /\ hinode # INO_NONE => hinode \in Inode /\ hinode = entry.inode
      /\ path_inode # INO_NONE => path_inode \in Inode
      /\ \A n \in Inode : /\ data[n] \in Seq(1..MaxLines) /\ Len(data[n]) \in Nat
                          /\ Len(data[n]) <= written /\ Len(data[n]) \in 0..MaxLines
  <2>1. \A n \in Inode : Len(data[n]) <= written
    BY DEF TInv, Numbered
  <2> QED BY <2>1, Numbers
<1>a. entry.inode <= files /\ path_inode <= files /\ \A l \in got : l <= written
  BY <1>0 DEF TInv, Inodes, Numbered, INO_NONE
<1>b. /\ entry \in [inode : Inode \cup {INO_NONE}, pos : 0..MaxLines]
      /\ 0 \in 0..MaxLines /\ 0 \in -1..MaxLines /\ -1 \in -1..MaxLines
  BY <1>0 DEF TInv, TypeOK
<1>1. CASE Stat
  <2>1. st' \in [inode : Inode \cup {INO_NONE}, size : 0..MaxLines]
    BY <1>0, <1>1 DEF Stat
  <2>2. m_fsize' \in -1..MaxLines
    <3>1. st'.size \in 0..MaxLines /\ m_fsize \in -1..MaxLines
      BY <2>1 DEF TInv, TypeOK
    <3>2. m_fsize' \in {st'.size, m_fsize}
      BY <1>1 DEF Stat
    <3> QED BY <1>0, <3>1, <3>2
  <2>3. /\ UNCHANGED <<disk, read_from_head, entry, m_inode, handler, history>>
        /\ pc' \in {"open", "io"}
    BY <1>1 DEF Stat
  <2>4. TypeOK'
    BY <2>1, <2>2, <2>3 DEF TInv, TypeOK, disk, handler, history
  <2> QED BY <1>a, <2>3, <2>4, DiskUnchanged DEF TInv, history
<1>2. CASE OpenFails \/ StillActive
  <2>1. /\ UNCHANGED <<disk, read_from_head, entry, st, rotate, handler, history>>
        /\ pc' = "io"
    BY <1>2 DEF OpenFails, StillActive
  <2>2. TypeOK'
    BY <2>1 DEF TInv, TypeOK, disk, rotate, handler, history
  <2> QED BY <1>a, <2>1, <2>2, DiskUnchanged DEF TInv, history
<1>3. CASE FirstOpen
  <2>1. startPos \in 0..MaxLines /\ path_inode \in Inode
    BY <1>0, <1>b, <1>3 DEF FirstOpen, startPos
  <2>2. /\ entry' = [inode |-> path_inode, pos |-> startPos] /\ hinode' = path_inode
        /\ fpos' = startPos /\ silent' = FALSE /\ pc' = "io"
        /\ m_inode' = st.inode /\ m_fsize' = st.size
        /\ gone' \in {gone, gone \cup LinesOf(data[path_inode])}
        /\ UNCHANGED <<disk, read_from_head, st, got, twice, raced>>
    BY <1>3 DEF FirstOpen, openedEntry, rotateDone
  <2>3. LinesOf(data[path_inode]) \subseteq 1..MaxLines
    BY <2>1, WrittenLines
  <2>4. st.size \in -1..MaxLines /\ st.inode \in Inode \cup {INO_NONE}
    BY <1>0 DEF TInv, TypeOK
  <2>5. /\ entry' \in [inode : Inode \cup {INO_NONE}, pos : 0..MaxLines]
        /\ entry'.inode = path_inode
    BY <2>1, <2>2
  <2>6. gone' \subseteq 1..MaxLines
    BY <2>2, <2>3 DEF TInv, TypeOK
  <2>7. TypeOK'
    BY <2>1, <2>2, <2>4, <2>5, <2>6 DEF TInv, TypeOK, disk
  <2> QED BY <1>a, <2>2, <2>5, <2>7, DiskUnchanged DEF TInv
<1>4. CASE Truncated
  <2>1. path_inode \in Inode
    BY <1>0, <1>4 DEF Truncated
  <2>2. /\ entry' = [entry EXCEPT !.pos = Len(data[path_inode])] /\ hinode' = path_inode
        /\ path_inode = entry.inode /\ fpos' = 0 /\ silent' = FALSE /\ pc' = "io"
        /\ m_inode' = st.inode /\ m_fsize' = st.size
        /\ UNCHANGED <<disk, read_from_head, st, history>>
    BY <1>4 DEF Truncated, rotateDone, head
  <2>3. /\ entry' \in [inode : Inode \cup {INO_NONE}, pos : 0..MaxLines]
        /\ entry'.inode = entry.inode
    BY <1>0, <1>b, <2>1, <2>2
  <2>4. st.size \in -1..MaxLines /\ st.inode \in Inode \cup {INO_NONE}
    BY <1>0 DEF TInv, TypeOK
  <2>5. TypeOK'
    BY <1>b, <2>1, <2>2, <2>3, <2>4 DEF TInv, TypeOK, disk, history
  <2> QED BY <1>a, <2>2, <2>3, <2>5, DiskUnchanged DEF TInv, history
<1>5. CASE Rotated
  <2>1. /\ entry' = [entry EXCEPT !.pos = 0] /\ hinode' = INO_NONE /\ fpos' = 0
        /\ silent' = FALSE /\ m_inode' = INO_NONE /\ m_fsize' = -1 /\ pc' = "idle"
        /\ handOver /\ hinode # INO_NONE /\ UNCHANGED <<disk, read_from_head, st>>
    BY <1>5 DEF Rotated, closeIO, anotherFile
  <2>2. /\ got' \subseteq 1..written /\ got' \subseteq 1..MaxLines
        /\ twice' \subseteq got' /\ raced' \subseteq got' /\ gone' = gone
    BY <2>1, HandedOver
  <2>3. /\ entry' \in [inode : Inode \cup {INO_NONE}, pos : 0..MaxLines]
        /\ entry'.inode = entry.inode
    BY <1>b, <2>1
  <2>4. TypeOK'
    BY <1>b, <2>1, <2>2, <2>3 DEF TInv, TypeOK, disk
  <2>5. \A l \in got' : l <= written
    BY <1>0, <2>2
  <2> QED BY <1>a, <2>1, <2>3, <2>4, <2>5, DiskUnchanged DEF TInv
<1>6. CASE ReadFile
  <2>0. UNCHANGED <<disk, read_from_head, st, rotate, hinode>> /\ pc' = "idle"
    BY <1>6 DEF ReadFile
  <2>1. CASE UNCHANGED <<history, fpos, entry, silent>>
    <3>1. TypeOK'
      BY <2>0, <2>1 DEF TInv, TypeOK, disk, rotate, history
    <3> QED BY <1>a, <2>0, <2>1, <3>1, DiskUnchanged DEF TInv, history
  <2>2. CASE /\ hinode # INO_NONE /\ handOver /\ fpos' = Len(data[hinode])
             /\ entry' = [entry EXCEPT !.pos = fpos'] /\ silent' = FALSE
    <3>1. fpos' \in 0..MaxLines
      BY <1>0, <2>2
    <3>2. /\ got' \subseteq 1..written /\ got' \subseteq 1..MaxLines
          /\ twice' \subseteq got' /\ raced' \subseteq got' /\ gone' = gone
      BY <2>2, HandedOver
    <3>3. /\ entry' \in [inode : Inode \cup {INO_NONE}, pos : 0..MaxLines]
          /\ entry'.inode = entry.inode
      BY <1>b, <2>2, <3>1
    <3>4. TypeOK'
      BY <2>0, <2>2, <3>1, <3>2, <3>3 DEF TInv, TypeOK, disk, rotate
    <3>5. \A l \in got' : l <= written
      BY <1>0, <3>2
    <3> QED BY <1>a, <2>0, <3>3, <3>4, <3>5, DiskUnchanged DEF TInv
  <2> QED BY <1>6, <2>1, <2>2 DEF ReadFile
<1>7. CASE Crash
  <2>1. /\ pc' = "down" /\ st' = [inode |-> INO_NONE, size |-> 0]
        /\ m_inode' = INO_NONE /\ m_fsize' = -1
        /\ hinode' = INO_NONE /\ fpos' = 0 /\ silent' = FALSE
        /\ \/ gone' = gone
           \/ hinode \in Inode /\ gone' = gone \cup (LinesOf(data[hinode]) \ got)
        /\ UNCHANGED <<disk, read_from_head, entry, got, twice, raced>>
    BY <1>0, <1>7 DEF Crash, abandon
  <2>2. gone' \subseteq 1..MaxLines
    BY <2>1, WrittenLines DEF TInv, TypeOK
  <2>3. st' \in [inode : Inode \cup {INO_NONE}, size : 0..MaxLines]
    BY <1>b, <2>1
  <2>4. TypeOK'
    BY <1>b, <2>1, <2>2, <2>3 DEF TInv, TypeOK, disk
  <2> QED BY <1>a, <2>1, <2>4, DiskUnchanged DEF TInv
<1>8. CASE Restart
  <2>1. /\ entry' \in {entry, [inode |-> path_inode, pos |-> 0]} /\ pc' = "idle"
        /\ entry' = entry \/ entry.inode = INO_NONE
        /\ UNCHANGED <<disk, read_from_head, st, rotate, handler, history>>
    BY <1>8 DEF Restart, startedEntry
  <2>2. /\ entry' \in [inode : Inode \cup {INO_NONE}, pos : 0..MaxLines]
        /\ entry'.inode <= files
    <3>1. path_inode \in Inode \cup {INO_NONE}
      BY DEF TInv, TypeOK
    <3> QED BY <1>a, <1>b, <2>1, <3>1
  <2>3. hinode \in {INO_NONE, entry'.inode}
    BY <1>0, <2>1 DEF TInv, TypeOK
  <2>4. TypeOK'
    BY <2>1, <2>2, <2>3 DEF TInv, TypeOK, disk, rotate, handler, history
  <2> QED BY <1>a, <2>1, <2>2, <2>4, DiskUnchanged DEF TInv, history
<1>9. CASE GoSilent
  <2>1. /\ UNCHANGED <<disk, read_from_head, entry, pc, st, rotate, hinode, fpos, history>>
        /\ silent' = TRUE
    BY <1>9 DEF GoSilent
  <2>2. TypeOK'
    BY <2>1 DEF TInv, TypeOK, disk, rotate, history
  <2> QED BY <1>a, <2>1, <2>2, DiskUnchanged DEF TInv, history
<1>10. CASE Write
  <2>1. /\ written' = written + 1 /\ written < MaxLines /\ winode # INO_NONE
        /\ data' = [data EXCEPT ![winode] = Append(@, written')]
        /\ gone' \in {gone, gone \cup {written'}}
        /\ UNCHANGED <<path_inode, winode, files, read_from_head, entry, pc, st,
                       rotate, handler, got, twice, raced>>
    BY <1>10 DEF Write
  <2>2. winode \in Inode /\ written' \in 1..MaxLines /\ winode <= files
    BY <1>10, Written
  <2>3. /\ data' \in [Inode -> Seq(1..MaxLines)]
        /\ Len(data'[winode]) = Len(data[winode]) + 1
        /\ \A n \in Inode : n # winode => data'[n] = data[n]
    BY <1>10, Written
  <2>4. \A n \in Inode : \A k \in DOMAIN data'[n] :
            \/ k \in DOMAIN data[n] /\ data'[n][k] = data[n][k]
            \/ n = winode /\ k = Len(data[n]) + 1 /\ data'[n][k] = written'
    BY <1>10, Written
  <2>5. gone' \subseteq 1..MaxLines /\ written' \in 0..MaxLines
    BY <1>0, <2>1, <2>2 DEF TInv, TypeOK
  <2>6. TypeOK'
    BY <2>1, <2>3, <2>5 DEF TInv, TypeOK, rotate, handler
  <2>7. Inodes'
    BY <1>0, <2>1, <2>2, <2>3 DEF TInv, Inodes
  <2>8. Numbered'
    <3>1. \A n \in Inode : Len(data'[n]) <= written'
      BY <1>0, <2>1, <2>2, <2>3
    <3>2. \A n \in Inode : \A k \in DOMAIN data[n] : data[n][k] <= written /\ data[n][k] \in Nat
      <4>1. \A n \in Inode : \A k \in DOMAIN data[n] : data[n][k] \in 1..MaxLines
        BY <1>0
      <4> QED BY <4>1 DEF TInv, Numbered
    <3>4. \A n \in Inode : \A k \in DOMAIN data'[n] : data'[n][k] <= written'
      BY <1>0, <2>1, <2>4, <3>2
    <3>5. ASSUME NEW m \in Inode, NEW n \in Inode, NEW j \in DOMAIN data'[m],
                 NEW k \in DOMAIN data'[n], data'[m][j] = data'[n][k]
          PROVE  m = n /\ j = k
      <4>1. CASE j \in DOMAIN data[m] /\ data'[m][j] = data[m][j]
                 /\ k \in DOMAIN data[n] /\ data'[n][k] = data[n][k]
        <5>1. data[m][j] = data[n][k]
          BY <3>5, <4>1
        <5>2. Numbered
          BY DEF TInv
        <5> QED BY <4>1, <5>1, <5>2 DEF Numbered
      <4>2. ASSUME NEW p \in Inode, NEW q \in DOMAIN data[p] PROVE data[p][q] # written'
        BY <1>0, <2>1, <3>2
      <4> QED BY <2>4, <3>5, <4>1, <4>2
    <3>6. \A l \in got' : l <= written'
      <4>1. \A l \in got : l \in 1..MaxLines
        BY DEF TInv, TypeOK
      <4> QED BY <1>0, <1>a, <2>1, <4>1
    <3> QED BY <3>1, <3>4, <3>5, <3>6 DEF Numbered
  <2> QED BY <2>6, <2>7, <2>8 DEF TInv
<1>11. CASE Rename
  <2>1. /\ path_inode' = INO_NONE /\ files < MaxFiles /\ path_inode \in Inode
        /\ gone' \in {gone, gone \cup (LinesOf(data[path_inode]) \ got)}
        /\ UNCHANGED <<winode, data, files, written, read_from_head, entry, pc,
                       st, rotate, handler, got, twice, raced>>
    BY <1>0, <1>11 DEF Rename, abandon
  <2>2. gone' \subseteq 1..MaxLines
    BY <2>1, WrittenLines DEF TInv, TypeOK
  <2>3. TypeOK'
    BY <2>1, <2>2 DEF TInv, TypeOK, rotate, handler
  <2>4. Inodes'
    BY <2>1 DEF TInv, Inodes
  <2>5. Numbered'
    BY <2>1 DEF TInv, Numbered
  <2> QED BY <2>3, <2>4, <2>5 DEF TInv
<1>12. CASE Create
  <2>1. /\ path_inode = INO_NONE /\ files' = files + 1 /\ path_inode' = files'
        /\ UNCHANGED <<winode, data, written, read_from_head, entry, pc, st, rotate, handler,
                       history>>
    BY <1>12 DEF Create
  <2>2. files < MaxFiles
    BY <2>1 DEF TInv, Inodes
  <2>3. files' \in 0..MaxFiles /\ files' \in Inode
    BY <1>0, <2>1, <2>2 DEF Inode
  <2>4. TypeOK'
    BY <2>1, <2>3 DEF TInv, TypeOK, rotate, handler, history
  <2>5. Inodes'
    <3>1. \A n \in Inode : n \in Nat
      BY <1>0 DEF Inode
    <3>2. entry.inode \in Nat
      BY Numbers
    <3>3. entry'.inode <= files' /\ \A n \in Inode : n > files' => data'[n] = <<>>
      BY <1>0, <1>a, <2>1, <3>1, <3>2 DEF TInv, Inodes
    <3>4. files' # INO_NONE
      BY <1>0, <2>1 DEF INO_NONE
    <3>5. winode' <= files'
      <4>1. winode \in Nat
        BY <3>1 DEF TInv, TypeOK, INO_NONE
      <4> QED BY <1>0, <2>1, <4>1 DEF TInv, Inodes
    <3> QED BY <2>1, <3>3, <3>4, <3>5 DEF Inodes
  <2>6. Numbered'
    BY <2>1 DEF TInv, Numbered, history
  <2> QED BY <2>4, <2>5, <2>6 DEF TInv
<1>13. CASE Truncate
  <2>1. /\ path_inode \in Inode /\ data' = [data EXCEPT ![path_inode] = <<>>]
        /\ gone' = gone \cup (LinesOf(data[path_inode]) \ got)
        /\ UNCHANGED <<path_inode, winode, files, written, read_from_head, entry,
                       pc, st, rotate, handler, got, twice, raced>>
    BY <1>0, <1>13 DEF Truncate, abandon
  <2>2. gone' \subseteq 1..MaxLines
    BY <2>1, WrittenLines DEF TInv, TypeOK
  <2>3. /\ data' \in [Inode -> Seq(1..MaxLines)] /\ data'[path_inode] = <<>>
        /\ \A n \in Inode : data'[n] = data[n] \/ data'[n] = <<>>
    BY <2>1, NoLines DEF TInv, TypeOK
  <2>4. TypeOK'
    BY <2>1, <2>2, <2>3 DEF TInv, TypeOK, rotate, handler
  <2>5. Inodes'
    BY <2>1, <2>3 DEF TInv, Inodes
  <2>6. Numbered'
    <3>1. \A n \in Inode : \A k \in DOMAIN data'[n] :
              k \in DOMAIN data[n] /\ data'[n][k] = data[n][k]
      BY <2>3, NoLines
    <3>2. \A n \in Inode : Len(data'[n]) <= written'
      BY <1>0, <2>1, <2>3, NoLines
    <3> QED BY <2>1, <3>1, <3>2 DEF TInv, Numbered
  <2> QED BY <2>4, <2>5, <2>6 DEF TInv
<1>14. CASE Reopen
  <2>1. /\ winode' = path_inode /\ path_inode \in Inode
        /\ UNCHANGED <<path_inode, data, files, written, read_from_head, entry, pc, st, rotate,
                       handler, history>>
    BY <1>0, <1>14 DEF Reopen
  <2>2. TypeOK'
    BY <2>1 DEF TInv, TypeOK, rotate, handler, history
  <2>3. Inodes'
    BY <1>a, <2>1 DEF TInv, Inodes
  <2>4. Numbered'
    BY <2>1 DEF TInv, Numbered, history
  <2> QED BY <2>2, <2>3, <2>4 DEF TInv
<1>15. CASE UNCHANGED vars
  <2>1. TypeOK'
    BY <1>15 DEF TInv, TypeOK, vars, disk, rotate, handler, history
  <2> QED BY <1>a, <1>15, <2>1, DiskUnchanged DEF TInv, vars, history
<1> QED BY <1>1, <1>2, <1>3, <1>4, <1>5, <1>6, <1>7, <1>8, <1>9, <1>10, <1>11, <1>12,
           <1>13, <1>14, <1>15 DEF Next, OnNotify

\* The type invariant, with every fault: the rotate handler and the position
\* entry stay within the files there are, and a handler reads the file its
\* position entry names.
THEOREM TypeCorrect == Spec => []TypeOK
<1>1. TInv => TypeOK
  BY DEF TInv
<1> QED BY <1>1, InitTypes, NextTypes, PTL DEF Spec
-----------------------------------------------------------------------------
\* The file that is read was truncated, and no notification has seen it.
Shrunk ==
    /\ hinode # INO_NONE /\ hinode = path_inode /\ m_inode = hinode
    /\ Len(data[hinode]) < m_fsize

\* The rotate handler takes the file that is read for another one: the file was
\* replaced between stat and fopen.
Mistaken == hinode # INO_NONE /\ m_inode # hinode

\* The rotate handler watches the file that is read, if not mistaken, and the
\* position entry is never behind it.  A truncation happens to a file that was
\* read up to the size the rotate handler knows, and the file stays smaller
\* than that.
Handler ==
    /\ hinode = INO_NONE => m_inode = INO_NONE /\ m_fsize <= 0
    /\ pc = "down" => hinode = INO_NONE
    /\ hinode # INO_NONE => fpos <= entry.pos
    /\ Shrunk => fpos = m_fsize
    /\ Mistaken => hinode = path_inode

\* What stat returned is still true when onRotate is called for a truncation.
\* When it is called for a first file, that may be a later file than the one
\* stat saw, and no entry can name it.
Seen ==
    /\ pc = "open" /\ hinode # INO_NONE /\ hinode = path_inode =>
           /\ st.inode = path_inode /\ st.size <= Len(data[path_inode])
           /\ Mistaken \/ Len(data[path_inode]) < m_fsize
    /\ pc = "open" /\ hinode = INO_NONE =>
           /\ st.inode \in Inode /\ st.inode <= files
           /\ entry.inode <= st.inode
           /\ st.inode = path_inode => st.size <= Len(data[path_inode])

HInv == Handler /\ Seen

\* A file that is opened in the place of the one stat saw is in no entry.
LEMMA RacedFile ==
    ASSUME TInv, HInv, FirstOpen
    PROVE  /\ st.inode = path_inode => st.size <= Len(data[path_inode])
           /\ st.inode # path_inode => path_inode # entry.inode
<1>1. /\ pc = "open" /\ hinode = INO_NONE /\ path_inode # INO_NONE
  BY DEF FirstOpen
<1>2. /\ st.inode <= files /\ entry.inode <= st.inode /\ st.inode \in Inode
      /\ st.inode = path_inode => st.size <= Len(data[path_inode])
  BY <1>1 DEF HInv, Seen
<1>3. path_inode = files /\ files \in Nat /\ entry.inode \in Nat /\ st.inode \in Nat
  BY <1>1, <1>2, Numbers DEF TInv, Inodes, Inode
<1> QED BY <1>2, <1>3

\* A step keeps the rotate handler and the file together, if each change of the
\* file is noticed before the next.
LEMMA NextHandler ==
    ASSUME TInv, HInv, [Next]_vars, "hasty" \notin Faults
    PROVE  HInv'
<1>0. /\ files \in Nat /\ fpos \in Nat /\ entry.pos \in Nat /\ m_fsize \in Int /\ st.size \in Nat
      /\ hinode # INO_NONE => hinode \in Inode /\ hinode = entry.inode
      /\ path_inode # INO_NONE => path_inode \in Inode
      /\ \A n \in Inode : data[n] \in Seq(1..MaxLines) /\ Len(data[n]) \in Nat
  BY Numbers
<1>1. CASE Stat
  <2> DEFINE size == IF path_inode = INO_NONE THEN 0 ELSE Len(data[path_inode])
  <2>1. /\ pc' = IF m_inode # path_inode \/ size < m_fsize THEN "open" ELSE "io"
        /\ m_fsize' = IF ~(m_inode # path_inode \/ size < m_fsize) /\ size > m_fsize
                        THEN size ELSE m_fsize
        /\ st'.inode = path_inode /\ st'.size = size
        /\ UNCHANGED <<path_inode, files, data, m_inode, hinode, fpos, entry>>
    BY <1>1 DEF Stat, changed, disk, handler, INO_NONE
  <2>2. /\ size \in Nat
        /\ path_inode # INO_NONE => size = Len(data[path_inode])
        /\ path_inode = INO_NONE => size = 0
    BY <1>0
  <2> HIDE DEF size
  <2>a. Mistaken' <=> Mistaken
    BY <2>1 DEF Mistaken
  <2>3. CASE m_inode # path_inode \/ size < m_fsize
    <3>1. pc' = "open" /\ m_fsize' = m_fsize
      BY <2>1, <2>3
    <3>2. Shrunk' <=> Shrunk
      BY <2>1, <3>1 DEF Shrunk
    <3>3. Handler'
      BY <2>1, <2>a, <3>1, <3>2 DEF HInv, Handler
    <3>4. hinode = INO_NONE => path_inode # INO_NONE
      BY <1>0, <2>2, <2>3 DEF HInv, Handler
    <3>5. hinode # INO_NONE /\ hinode = path_inode =>
              /\ st'.inode = path_inode /\ st'.size <= Len(data[path_inode])
              /\ Mistaken' \/ Len(data[path_inode]) < m_fsize
      BY <1>0, <2>1, <2>2, <2>3, <2>a DEF Mistaken
    <3>6. hinode = INO_NONE =>
              /\ st'.inode \in Inode /\ st'.inode <= files
              /\ entry.inode <= st'.inode /\ st'.size <= Len(data[path_inode])
      <4>1. path_inode # INO_NONE => path_inode = files /\ entry.inode <= files
        BY DEF TInv, Inodes
      <4> QED BY <1>0, <2>1, <2>2, <3>4, <4>1
    <3>7. Seen'
      BY <2>1, <3>1, <3>5, <3>6 DEF Seen
    <3> QED BY <3>3, <3>7 DEF HInv
  <2>4. CASE m_inode = path_inode /\ size >= m_fsize
    <3>1. pc' = "io" /\ m_fsize' = size
      BY <1>0, <2>1, <2>2, <2>4
    <3>2. ~Shrunk'
      BY <1>0, <2>1, <2>2, <3>1 DEF Shrunk
    <3>3. hinode = INO_NONE => size = 0
      BY <2>2, <2>4 DEF HInv, Handler
    <3>4. Handler'
      BY <2>1, <2>2, <2>4, <2>a, <3>1, <3>2, <3>3 DEF HInv, Handler
    <3> QED BY <3>1, <3>4 DEF HInv, Seen
  <2> QED BY <1>0, <2>2, <2>3, <2>4 DEF HInv
<1>2. CASE OpenFails \/ StillActive \/ GoSilent
  BY <1>2 DEF OpenFails, StillActive, GoSilent, disk, rotate, handler, HInv, Handler, Seen, Shrunk,
     Mistaken
<1>3. CASE FirstOpen
  <2>1. /\ m_inode' = st.inode /\ m_fsize' = st.size /\ pc' = "io"
        /\ hinode' = path_inode /\ path_inode # INO_NONE /\ fpos' = entry'.pos
        /\ UNCHANGED <<path_inode, data>>
        /\ st.inode = path_inode => st.size <= Len(data[path_inode])
    BY <1>3, RacedFile DEF FirstOpen, rotateDone, openedEntry, disk
  <2>2. fpos' \in Nat
    BY NextTypes, <1>3 DEF TInv, TypeOK
  <2> QED BY <1>0, <2>1, <2>2 DEF HInv, Handler, Seen, Shrunk, Mistaken
<1>4. CASE Truncated
  <2>1. /\ m_inode' = st.inode /\ m_fsize' = st.size /\ pc' = "io"
        /\ hinode' = path_inode /\ hinode # INO_NONE /\ path_inode = entry.inode /\ fpos' = 0
        /\ entry' = [entry EXCEPT !.pos = Len(data[path_inode])] /\ pc = "open"
        /\ UNCHANGED <<path_inode, data>>
    BY <1>4 DEF Truncated, rotateDone, head, disk
  <2>2. hinode = path_inode /\ path_inode \in Inode
    BY <1>0, <2>1
  <2>3. st.inode = path_inode /\ st.size <= Len(data[path_inode])
    BY <2>1, <2>2 DEF HInv, Seen
  <2>4. entry'.pos = Len(data[path_inode])
    BY <2>1 DEF TInv, TypeOK
  <2> QED BY <1>0, <2>1, <2>2, <2>3, <2>4 DEF HInv, Handler, Seen, Shrunk, Mistaken
<1>5. CASE Rotated \/ Crash
  <2>1. m_inode' = INO_NONE /\ hinode' = INO_NONE /\ m_fsize' = -1 /\ pc' \in {"idle", "down"}
    BY <1>5 DEF Rotated, Crash
  <2> QED BY <2>1 DEF HInv, Handler, Seen, Shrunk, Mistaken
<1>6. CASE ReadFile
  <2>1. /\ UNCHANGED <<path_inode, data, hinode, m_inode, m_fsize>> /\ pc' = "idle"
    BY <1>6 DEF ReadFile, disk, rotate
  <2>2. CASE UNCHANGED <<fpos, entry>>
    BY <2>1, <2>2 DEF HInv, Handler, Seen, Shrunk, Mistaken
  <2>3. CASE /\ hinode # INO_NONE /\ fpos < Len(data[hinode]) /\ fpos' = Len(data[hinode])
             /\ entry' = [entry EXCEPT !.pos = fpos']
    <3>1. entry'.pos = fpos' /\ fpos' \in Nat
      BY <1>0, <2>3 DEF TInv, TypeOK
    <3>2. ~Shrunk
      BY <1>0, <2>3 DEF HInv, Handler, Shrunk
    <3> QED BY <2>1, <2>3, <3>1, <3>2 DEF HInv, Handler, Seen, Shrunk, Mistaken
  <2> QED BY <1>6, <2>2, <2>3 DEF ReadFile
<1>7. CASE Restart
  <2>1. /\ UNCHANGED <<path_inode, data, hinode, fpos, m_inode, m_fsize>>
        /\ hinode = INO_NONE /\ pc' = "idle"
    BY <1>7 DEF Restart, disk, rotate, handler, HInv, Handler
  <2> QED BY <2>1 DEF HInv, Handler, Seen, Shrunk, Mistaken
<1>8. CASE Write
  <2>1. /\ UNCHANGED <<path_inode, files, hinode, fpos, m_inode, m_fsize, entry, pc, st>>
        /\ \/ winode # m_inode
           \/ Len(data[winode]) >= m_fsize \/ Len(data[winode]) + 1 < m_fsize
    BY <1>8 DEF Write, rotate, handler
  <2>2. /\ winode \in Inode /\ Len(data'[winode]) = Len(data[winode]) + 1
        /\ \A n \in Inode : n # winode => data'[n] = data[n]
    BY <1>8, Written
  <2>3. \A n \in Inode : /\ Len(data'[n]) >= Len(data[n]) /\ Len(data'[n]) \in Nat
                         /\ n = m_inode /\ Len(data[n]) < m_fsize => Len(data'[n]) < m_fsize
    BY <1>0, <2>1, <2>2
  <2>4. (Shrunk' => Shrunk) /\ (Mistaken' <=> Mistaken)
    BY <1>0, <2>1, <2>3 DEF Shrunk, Mistaken
  <2>5. Handler'
    BY <2>1, <2>4 DEF HInv, Handler
  <2>6. pc = "open" /\ hinode # INO_NONE /\ hinode = path_inode =>
            /\ st.inode = path_inode /\ st.size <= Len(data'[path_inode])
            /\ Mistaken \/ Len(data'[path_inode]) < m_fsize
    BY <1>0, <2>3 DEF HInv, Seen, Mistaken
  <2>7. pc = "open" /\ hinode = INO_NONE =>
            /\ st.inode \in Inode /\ st.inode <= files
            /\ entry.inode <= st.inode
            /\ st.inode = path_inode => st.size <= Len(data'[path_inode])
    <3> SUFFICES ASSUME pc = "open", hinode = INO_NONE
                 PROVE  /\ st.inode \in Inode /\ st.inode <= files
                        /\ entry.inode <= st.inode
                        /\ st.inode = path_inode => st.size <= Len(data'[path_inode])
      OBVIOUS
    <3>1. /\ st.inode \in Inode /\ st.inode <= files /\ entry.inode <= st.inode
          /\ st.inode = path_inode => st.size <= Len(data[path_inode])
      BY DEF HInv, Seen
    <3>2. st.inode = path_inode => st.size <= Len(data'[path_inode])
      BY <1>0, <2>3, <3>1
    <3> QED BY <3>1, <3>2
  <2>8. Seen'
    BY <2>1, <2>4, <2>6, <2>7 DEF Seen
  <2> QED BY <2>5, <2>8 DEF HInv
<1>9. CASE Rename
  <2>1. /\ path_inode # INO_NONE /\ path_inode' = INO_NONE
        /\ UNCHANGED <<data, files, hinode, fpos, m_inode, m_fsize, entry, pc, st>>
        /\ \/ hinode = INO_NONE
           \/ hinode = path_inode /\ m_inode = path_inode /\ m_fsize <= Len(data[path_inode])
    BY <1>9 DEF Rename, calm, noticed, betweenStatAndOpen, rotate, handler
  <2>2. pc = "open" => hinode = INO_NONE
    BY <1>0, <2>1 DEF HInv, Seen, Mistaken
  <2>3. ~Shrunk' /\ ~Mistaken'
    BY <2>1 DEF Shrunk, Mistaken
  <2>4. Handler'
    BY <2>1, <2>3 DEF HInv, Handler
  <2>5. pc = "open" => st.inode # INO_NONE
    BY <1>0, <2>2 DEF HInv, Seen, Inode, INO_NONE
  <2>6. Seen'
    BY <2>1, <2>2, <2>5 DEF HInv, Seen
  <2> QED BY <2>4, <2>6 DEF HInv
<1>10. CASE Create
  <2>1. /\ path_inode = INO_NONE /\ path_inode' = files + 1 /\ files' = files + 1
        /\ UNCHANGED <<data, hinode, fpos, m_inode, m_fsize, entry, pc, st>>
    BY <1>10 DEF Create, rotate, handler
  <2>2. hinode <= files /\ hinode \in Nat
    BY <1>0, Numbers DEF TInv, Inodes, INO_NONE
  <2>3. hinode # path_inode'
    BY <1>0, <2>1, <2>2
  <2>4. ~Mistaken /\ ~Mistaken' /\ ~Shrunk'
    BY <2>1, <2>3 DEF HInv, Handler, Mistaken, Shrunk
  <2>5. Handler'
    BY <2>1, <2>4 DEF HInv, Handler
  <2>6. pc = "open" /\ hinode = INO_NONE => st.inode <= files' /\ st.inode # path_inode'
    <3>1. st.inode \in Inode => st.inode \in Nat
      BY BoundsAssumption DEF Inode
    <3> QED BY <1>0, <2>1, <3>1 DEF HInv, Seen
  <2>7. Seen'
    BY <2>1, <2>3, <2>6 DEF HInv, Seen
  <2> QED BY <2>5, <2>7 DEF HInv
<1>11. CASE Truncate
  <2>1. /\ path_inode # INO_NONE /\ data' = [data EXCEPT ![path_inode] = <<>>]
        /\ UNCHANGED <<path_inode, hinode, fpos, m_inode, m_fsize, entry, pc, st>>
        /\ \/ hinode = INO_NONE /\ pc # "open"
           \/ /\ hinode = path_inode /\ m_inode = path_inode
              /\ m_fsize = fpos /\ m_fsize <= Len(data[path_inode])
    BY <1>11 DEF Truncate, calm, noticed, rotate, handler
  <2>2. pc # "open"
    BY <1>0, <2>1 DEF HInv, Seen, Mistaken
  <2>3. (Shrunk' => fpos' = m_fsize') /\ ~Mistaken'
    BY <2>1 DEF HInv, Handler, Shrunk, Mistaken
  <2> QED BY <2>1, <2>2, <2>3 DEF HInv, Handler, Seen
<1>12. CASE Reopen \/ UNCHANGED vars
  BY <1>12 DEF Reopen, vars, disk, rotate, handler, HInv, Handler, Seen, Shrunk, Mistaken
<1> QED BY <1>1, <1>2, <1>3, <1>4, <1>5, <1>6, <1>7, <1>8, <1>9, <1>10, <1>11, <1>12
        DEF Next, OnNotify
-----------------------------------------------------------------------------
\* The files that are, or will be, read.
Opened == {path_inode, hinode} \ {INO_NONE}

\* A step after which the same files are read from the same places: a file
\* that is added is empty.
SamePlaces ==
    /\ UNCHANGED <<data, written, got, twice, raced>> /\ gone \subseteq gone'
    /\ Opened \subseteq Opened'
    /\ \A n \in Opened : resumesAt(n)' = resumesAt(n)
    /\ \A n \in Opened' : n \in Opened \/ (data[n] = <<>> /\ resumesAt(n)' = 0)

\* Places are numbers, and the place in the file that is read is fpos unless it
\* was truncated or the rotate handler is mistaken about it.
LEMMA Places ==
    ASSUME TInv
    PROVE  /\ \A n : resumesAt(n) \in Nat
           /\ Opened \subseteq Inode
           /\ hinode # INO_NONE /\ ~Shrunk /\ ~(Mistaken /\ hinode = path_inode)
                  => resumesAt(hinode) = fpos
           /\ Shrunk => resumesAt(hinode) = 0
           /\ Mistaken /\ hinode = path_inode => resumesAt(hinode) = 0
           /\ hinode # INO_NONE /\ hinode # path_inode => resumesAt(path_inode) = 0
<1>1. fpos \in Nat /\ entry.pos \in Nat /\ 0 \in Nat
  BY Numbers
<1>2. Opened \subseteq Inode
  BY Numbers DEF Opened
<1>3. \A n : resumesAt(n) \in {0, fpos, entry.pos}
  BY DEF resumesAt
<1>4. \A n : resumesAt(n) \in Nat
  BY <1>1, <1>3
<1>5. /\ hinode # INO_NONE /\ ~Shrunk /\ ~(Mistaken /\ hinode = path_inode)
             => resumesAt(hinode) = fpos
      /\ Shrunk => resumesAt(hinode) = 0
      /\ Mistaken /\ hinode = path_inode => resumesAt(hinode) = 0
      /\ hinode # INO_NONE /\ hinode # path_inode => resumesAt(path_inode) = 0
  BY DEF resumesAt, Shrunk, Mistaken
<1> QED BY <1>2, <1>4, <1>5

\* Most steps leave the places as they are.
LEMMA PlacesKept ==
    ASSUME TInv, HInv, [Next]_vars, "hasty" \notin Faults
    PROVE  \/ SamePlaces
           \/ FirstOpen /\ skipsHead
           \/ Rotated
           \/ ReadFile /\ hinode # INO_NONE /\ fpos < Len(data[hinode])
           \/ Crash /\ hinode # INO_NONE
           \/ Write \/ Truncate
           \/ Rename /\ hinode = INO_NONE
<1>0. /\ files \in Nat /\ fpos \in Nat /\ entry.pos \in Nat /\ m_fsize \in Int /\ st.size \in Nat
      /\ hinode # INO_NONE => hinode \in Inode /\ hinode = entry.inode
      /\ path_inode # INO_NONE => path_inode \in Inode
      /\ \A n \in Inode : data[n] \in Seq(1..MaxLines) /\ Len(data[n]) \in Nat
  BY Numbers
<1>1. CASE Stat
  <2>1. /\ UNCHANGED <<path_inode, data, written, m_inode, hinode, fpos, entry, got, twice, raced, gone>>
        /\ m_fsize' = m_fsize
           \/ (path_inode # INO_NONE => m_fsize' = Len(data[path_inode]) /\ m_fsize' > m_fsize)
    BY <1>1 DEF Stat, disk, handler, history
  <2>2. ASSUME NEW n \in Opened PROVE resumesAt(n)' = resumesAt(n)
    BY <1>0, <2>1, <2>2 DEF resumesAt, Opened
  <2> QED BY <2>1, <2>2 DEF SamePlaces, Opened
<1>2. CASE OpenFails \/ StillActive \/ GoSilent \/ Reopen \/ UNCHANGED vars
           \/ (ReadFile /\ ~(hinode # INO_NONE /\ fpos < Len(data[hinode])))
  <2>1. UNCHANGED <<path_inode, data, written, m_inode, m_fsize, hinode, fpos, entry, got, twice, raced, gone>>
    BY <1>2 DEF OpenFails, StillActive, GoSilent, Reopen, ReadFile, vars, disk, rotate, handler, history
  <2>2. \A n : resumesAt(n)' = resumesAt(n)
    BY <2>1 DEF resumesAt
  <2> QED BY <2>1, <2>2 DEF SamePlaces, Opened
<1>3. CASE FirstOpen /\ ~skipsHead
  <2>1. /\ UNCHANGED <<path_inode, data, written, got, twice, raced, gone>>
        /\ hinode = INO_NONE /\ hinode' = path_inode /\ path_inode # INO_NONE
        /\ fpos' = IF path_inode = entry.inode THEN entry.pos ELSE 0
        /\ m_fsize' = st.size /\ m_inode' = st.inode
    BY <1>3 DEF FirstOpen, rotateDone, startPos, disk
  <2>2. resumesAt(path_inode)' = resumesAt(path_inode)
    BY <1>0, <1>3, <2>1, RacedFile DEF resumesAt
  <2> QED BY <2>1, <2>2 DEF SamePlaces, Opened
<1>4. CASE Truncated
  <2>1. /\ UNCHANGED <<path_inode, data, written, got, twice, raced, gone>> /\ pc = "open"
        /\ hinode # INO_NONE /\ hinode = path_inode /\ hinode' = path_inode /\ fpos' = 0
    BY <1>0, <1>4 DEF Truncated, head, disk, history
  <2>2. Shrunk \/ Mistaken
    BY <2>1 DEF HInv, Seen, Shrunk, Mistaken
  <2>3. resumesAt(path_inode)' = 0 /\ resumesAt(path_inode) = 0
    BY <2>1, <2>2, Places DEF resumesAt
  <2> QED BY <2>1, <2>3 DEF SamePlaces, Opened
<1>5. CASE Restart
  <2>1. /\ UNCHANGED <<path_inode, data, written, m_inode, m_fsize, hinode, fpos, got, twice, raced, gone>>
        /\ hinode = INO_NONE
        /\ \/ entry' = entry
           \/ entry.inode = INO_NONE /\ entry' = [inode |-> path_inode, pos |-> 0]
    BY <1>5 DEF Restart, startedEntry, disk, rotate, handler, history, HInv, Handler
  <2>2. ASSUME NEW n \in Opened PROVE resumesAt(n)' = resumesAt(n)
    BY <2>1, <2>2 DEF resumesAt, Opened
  <2> QED BY <2>1, <2>2 DEF SamePlaces, Opened
<1>6. CASE Rename /\ hinode # INO_NONE
  <2>1. /\ UNCHANGED <<data, written, m_inode, m_fsize, hinode, fpos, entry, got, twice, raced, gone>>
        /\ path_inode # INO_NONE /\ path_inode' = INO_NONE
        /\ hinode = path_inode /\ m_inode = path_inode /\ m_fsize <= Len(data[path_inode])
    BY <1>6 DEF Rename, calm, noticed, betweenStatAndOpen, rotate, handler
  <2>2. resumesAt(hinode)' = resumesAt(hinode)
    BY <1>0, <2>1 DEF resumesAt
  <2> QED BY <2>1, <2>2 DEF SamePlaces, Opened
<1>7. CASE Create
  <2>1. /\ path_inode = INO_NONE /\ path_inode' = files + 1
        /\ UNCHANGED <<data, written, m_inode, m_fsize, hinode, fpos, entry, got, twice, raced, gone>>
    BY <1>7 DEF Create, rotate, handler, history
  <2>2. hinode <= files /\ hinode \in Nat /\ path_inode' \in Inode
    <3>1. path_inode' \in Inode
      <4>1. files + 1 <= MaxFiles /\ MaxFiles \in Nat
        BY <1>0, <2>1, Numbers DEF TInv, Inodes
      <4> QED BY <1>0, <2>1, <4>1 DEF Inode
    <3> QED BY <1>0, <3>1, Numbers DEF TInv, Inodes, INO_NONE
  <2>3. hinode # path_inode' /\ data[path_inode'] = <<>>
    <3>1. path_inode' > files
      BY <1>0, <2>1
    <3> QED BY <1>0, <2>2, <3>1 DEF TInv, Inodes
  <2>4. ASSUME NEW n \in Opened PROVE resumesAt(n)' = resumesAt(n)
    BY <2>1, <2>3, <2>4 DEF resumesAt, Opened
  <2>5. ASSUME NEW n \in {path_inode'} PROVE resumesAt(n)' = 0
    <3>1. entry.inode # path_inode'
      BY <1>0, <2>1, Numbers DEF TInv, Inodes
    <3> QED BY <2>1, <2>3, <3>1 DEF resumesAt
  <2> QED BY <2>1, <2>3, <2>4, <2>5 DEF SamePlaces, Opened
<1>8. CASE Crash /\ hinode = INO_NONE
  <2>1. /\ UNCHANGED <<path_inode, data, written, hinode, entry, got, twice, raced, gone>>
    BY <1>8 DEF Crash, disk
  <2>2. ASSUME NEW n \in Opened PROVE resumesAt(n)' = resumesAt(n)
    BY <1>8, <2>1, <2>2 DEF resumesAt, Opened
  <2> QED BY <2>1, <2>2 DEF SamePlaces, Opened
<1> QED BY <1>1, <1>2, <1>3, <1>4, <1>5, <1>6, <1>7, <1>8 DEF Next, OnNotify
-----------------------------------------------------------------------------
\* The line l was not handed over, or by a mistaken notification.
NotYet(l) == l \in got => l \in raced

\* What lies behind the place a file is read from was not handed over yet.
Fresh ==
    \A n \in Opened : \A k \in DOMAIN data[n] : k > resumesAt(n) => NotYet(data[n][k])

\* What a handler hands over is fresh, and nothing of it is in another file; a
\* mistaken one has to hand over the whole file again.
LEMMA HandedOverOnce ==
    ASSUME TInv, Fresh, hinode # INO_NONE, ~Shrunk, handOver
    PROVE  /\ twice' \subseteq twice \cup raced /\ raced \subseteq raced'
           /\ \A n \in Opened : n # hinode =>
                  \A k \in DOMAIN data[n] :
                      k > resumesAt(n) /\ data[n][k] \in got' => data[n][k] \in raced'
           /\ Mistaken /\ hinode = path_inode =>
                  \A k \in DOMAIN data[hinode] :
                      k > 0 /\ data[hinode][k] \in got' => data[hinode][k] \in raced'
<1>0. /\ hinode \in Inode /\ hinode \in Opened /\ fpos \in Nat /\ Len(data[hinode]) \in Nat
      /\ DOMAIN data[hinode] = 1..Len(data[hinode])
  BY Numbers DEF Opened
<1>1. resumesAt(hinode) \in Nat /\ resumesAt(hinode) <= fpos
  BY <1>0, Places
<1>2. ASSUME NEW l \in unreadLines
      PROVE  \E k \in DOMAIN data[hinode] : k > fpos /\ l = data[hinode][k]
  <2>1. PICK k \in (fpos + 1)..Len(data[hinode]) : l = data[hinode][k]
    BY DEF unreadLines
  <2>2. k \in DOMAIN data[hinode] /\ k > fpos
    BY <1>0
  <2> QED BY <2>1, <2>2
<1>3. ASSUME NEW l \in unreadLines PROVE NotYet(l)
  <2>1. PICK k \in DOMAIN data[hinode] : k > fpos /\ l = data[hinode][k]
    BY <1>2
  <2>2. k > resumesAt(hinode)
    BY <1>0, <1>1, <2>1
  <2> QED BY <1>0, <2>1, <2>2 DEF Fresh
<1>4. got' = got \cup unreadLines /\ raced \subseteq raced'
      /\ twice' \subseteq twice \cup raced
  BY <1>3 DEF handOver, NotYet
<1>5. ASSUME NEW n \in Opened, n # hinode, NEW k \in DOMAIN data[n], k > resumesAt(n),
             data[n][k] \in got'
      PROVE  data[n][k] \in raced'
  <2>1. n \in Inode
    BY Places
  <2>2. NotYet(data[n][k])
    BY <1>5 DEF Fresh
  <2>3. data[n][k] \notin unreadLines
    BY <1>0, <1>2, <1>5, <2>1 DEF TInv, Numbered
  <2> QED BY <1>4, <1>5, <2>2, <2>3 DEF NotYet
<1>6. ASSUME Mistaken, hinode = path_inode, NEW k \in DOMAIN data[hinode], k > 0,
             data[hinode][k] \in got'
      PROVE  data[hinode][k] \in raced'
  <2>1. resumesAt(hinode) = 0
    BY <1>6, Places
  <2>2. NotYet(data[hinode][k])
    BY <1>0, <1>6, <2>1 DEF Fresh
  <2>3. raced' = raced \cup unreadLines
    BY <1>6 DEF handOver, Mistaken
  <2> QED BY <1>4, <1>6, <2>2, <2>3 DEF NotYet
<1> QED BY <1>4, <1>5, <1>6

\* A step hands over no line again, except for what a mistaken one did.
LEMMA NextFresh ==
    ASSUME TInv, TInv', HInv, HInv', Fresh, NothingTwice, [Next]_vars, "hasty" \notin Faults
    PROVE  Fresh' /\ NothingTwice'
<1>0. /\ fpos \in Nat /\ entry.pos \in Nat /\ m_fsize \in Int /\ written \in Nat
      /\ hinode # INO_NONE => hinode \in Inode /\ hinode = entry.inode
      /\ path_inode # INO_NONE => path_inode \in Inode
      /\ \A n \in Inode : /\ data[n] \in Seq(1..MaxLines) /\ Len(data[n]) \in Nat
                          /\ DOMAIN data[n] = 1..Len(data[n])
  BY Numbers
<1>a. /\ \A n : resumesAt(n) \in Nat
      /\ Opened \subseteq Inode
  BY Places
<1>b. \A n : resumesAt(n)' \in Nat
  <2>1. fpos' \in Nat /\ entry'.pos \in Nat /\ 0 \in Nat
    <3>1. fpos' \in 0..MaxLines /\ entry' \in [inode : Inode \cup {INO_NONE}, pos : 0..MaxLines]
      BY DEF TInv, TypeOK
    <3> QED BY <3>1, BoundsAssumption
  <2>2. \A n : resumesAt(n)' \in {0, fpos', entry'.pos}
    BY DEF resumesAt
  <2> QED BY <2>1, <2>2
\* Places that do not go back keep what is behind them fresh.
<1>c. ASSUME UNCHANGED <<data, got, twice, raced>>,
             \A n \in Opened' : \/ n \in Opened /\ resumesAt(n)' >= resumesAt(n)
                                \/ data[n] = <<>>
      PROVE  Fresh' /\ NothingTwice'
  <2>1. ASSUME NEW n \in Opened', NEW k \in DOMAIN data[n], k > resumesAt(n)'
        PROVE  NotYet(data[n][k])
    <3>1. CASE n \in Opened /\ resumesAt(n)' >= resumesAt(n)
      <4>1. k \in Nat
        BY <1>0, <1>a, <3>1
      <4>2. k > resumesAt(n)
        BY <1>a, <1>b, <2>1, <3>1, <4>1
      <4> QED BY <3>1, <4>2 DEF Fresh
    <3>2. CASE data[n] = <<>>
      BY <3>2, NoLines
    <3> QED BY <1>c, <3>1, <3>2
  <2> QED BY <1>c, <2>1 DEF Fresh, NotYet, NothingTwice
<1>1. CASE SamePlaces
  <2>1. \A n \in Opened' : \/ n \in Opened /\ resumesAt(n)' >= resumesAt(n)
                           \/ data[n] = <<>>
    BY <1>1, <1>a DEF SamePlaces
  <2> QED BY <1>1, <1>c, <2>1 DEF SamePlaces
<1>2. CASE FirstOpen /\ skipsHead
  <2>1. /\ UNCHANGED <<path_inode, data, got, twice, raced>>
        /\ hinode = INO_NONE /\ hinode' = path_inode /\ path_inode # INO_NONE
        /\ entry.inode # path_inode
    BY <1>2 DEF FirstOpen, disk, skipsHead
  <2>2. resumesAt(path_inode) = 0 /\ Opened = {path_inode} /\ Opened' = {path_inode}
    BY <2>1 DEF resumesAt, Opened
  <2>3. resumesAt(path_inode)' >= 0
    <3>1. resumesAt(path_inode)' \in {0, fpos'}
      BY <2>1 DEF resumesAt
    <3>2. fpos' \in Nat
      BY DEF TInv, TypeOK
    <3> QED BY <3>1, <3>2
  <2>4. \A n \in Opened' : n \in Opened /\ resumesAt(n)' >= resumesAt(n)
    BY <2>1, <2>2, <2>3
  <2> QED BY <1>c, <2>1, <2>4
<1>3. CASE Rotated
  <2>1. /\ UNCHANGED <<path_inode, data>> /\ handOver
        /\ hinode # INO_NONE /\ hinode # path_inode /\ hinode' = INO_NONE
    BY <1>0, <1>3 DEF Rotated, closeIO, anotherFile, disk
  <2>2. ~Shrunk
    BY <2>1 DEF Shrunk
  <2>3. /\ twice' \subseteq twice \cup raced /\ raced \subseteq raced'
        /\ \A n \in Opened : n # hinode =>
               \A k \in DOMAIN data[n] :
                   k > resumesAt(n) /\ data[n][k] \in got' => data[n][k] \in raced'
        /\ Mistaken /\ hinode = path_inode =>
               \A k \in DOMAIN data[hinode] :
                   k > 0 /\ data[hinode][k] \in got' => data[hinode][k] \in raced'
    BY <2>1, <2>2, HandedOverOnce
  <2>4. Opened' \subseteq {path_inode} /\ Opened' \subseteq Opened
    BY <2>1 DEF Opened
  <2>5. ASSUME NEW n \in Opened', NEW k \in DOMAIN data[n], k > resumesAt(n)',
               data[n][k] \in got'
        PROVE  data[n][k] \in raced'
    <3>1. n = path_inode /\ n \in Opened /\ n # hinode /\ resumesAt(n) = 0
      BY <2>1, <2>4, Places
    <3>2. k > resumesAt(n)
      BY <1>0, <1>a, <1>b, <2>5, <3>1
    <3> QED BY <2>3, <2>5, <3>1, <3>2
  <2> QED BY <2>1, <2>3, <2>5 DEF Fresh, NotYet, NothingTwice
<1>4. CASE ReadFile /\ hinode # INO_NONE /\ fpos < Len(data[hinode])
  <2>1. /\ UNCHANGED <<path_inode, data, hinode, m_inode, m_fsize>> /\ handOver
        /\ fpos' = Len(data[hinode])
    BY <1>4 DEF ReadFile, disk, rotate
  <2>2. ~Shrunk
    BY <1>0, <1>4 DEF HInv, Handler, Shrunk
  <2>3. /\ twice' \subseteq twice \cup raced /\ raced \subseteq raced'
        /\ \A n \in Opened : n # hinode =>
               \A k \in DOMAIN data[n] :
                   k > resumesAt(n) /\ data[n][k] \in got' => data[n][k] \in raced'
        /\ Mistaken /\ hinode = path_inode =>
               \A k \in DOMAIN data[hinode] :
                   k > 0 /\ data[hinode][k] \in got' => data[hinode][k] \in raced'
    BY <1>4, <2>1, <2>2, HandedOverOnce
  <2>4. /\ Opened' = Opened
        /\ \A n \in Opened : n # hinode => resumesAt(n)' = resumesAt(n)
        /\ \A n \in Opened : n = hinode =>
               resumesAt(n)' = IF Mistaken THEN 0 ELSE Len(data[n])
    BY <1>4, <2>1, <2>2 DEF Opened, resumesAt, Shrunk, Mistaken, HInv, Handler
  <2>5. ASSUME NEW n \in Opened', NEW k \in DOMAIN data[n], k > resumesAt(n)',
               data[n][k] \in got'
        PROVE  data[n][k] \in raced'
    <3>1. CASE n = hinode /\ ~Mistaken
      BY <1>0, <1>4, <2>4, <2>5, <3>1
    <3>2. CASE n = hinode /\ Mistaken
      <4>1. hinode = path_inode /\ k > 0
        BY <1>0, <1>4, <2>4, <2>5, <3>2 DEF HInv, Handler
      <4> QED BY <2>3, <2>5, <3>2, <4>1
    <3> QED BY <2>3, <2>4, <2>5, <3>1, <3>2
  <2> QED BY <2>1, <2>3, <2>5 DEF Fresh, NotYet, NothingTwice
<1>5. CASE Crash /\ hinode # INO_NONE
  <2>1. /\ UNCHANGED <<path_inode, data, entry, got, twice, raced>> /\ hinode' = INO_NONE
    BY <1>5 DEF Crash, disk
  <2>2. Opened' \subseteq {path_inode} /\ Opened' \subseteq Opened
    BY <2>1 DEF Opened
  <2>3. CASE hinode = path_inode
    <3>1. resumesAt(path_inode)' = entry.pos /\ resumesAt(path_inode) \in {0, fpos}
      BY <1>0, <1>5, <2>1, <2>3 DEF resumesAt
    <3>2. fpos <= entry.pos
      BY <1>5 DEF HInv, Handler
    <3>3. resumesAt(path_inode)' >= resumesAt(path_inode)
      BY <1>0, <3>1, <3>2
    <3> QED BY <1>c, <2>1, <2>2, <3>3
  <2>4. CASE hinode # path_inode
    <3>1. resumesAt(path_inode)' >= resumesAt(path_inode)
      BY <1>5, <1>b, <2>4, Places
    <3> QED BY <1>c, <2>1, <2>2, <3>1
  <2> QED BY <2>3, <2>4
<1>6. CASE Write
  <2>1. /\ UNCHANGED <<path_inode, hinode, fpos, m_inode, m_fsize, entry, got, twice, raced>>
    BY <1>6 DEF Write, rotate, handler
  <2>2. /\ winode \in Inode /\ Len(data'[winode]) = Len(data[winode]) + 1
        /\ \A n \in Inode : n # winode => data'[n] = data[n]
        /\ written' = written + 1
        /\ \A n \in Inode : \A k \in DOMAIN data'[n] :
               \/ k \in DOMAIN data[n] /\ data'[n][k] = data[n][k]
               \/ n = winode /\ k = Len(data[n]) + 1 /\ data'[n][k] = written'
    BY <1>6, Written
  <2>3. \A n \in Inode : Len(data'[n]) \in Nat /\ Len(data'[n]) >= Len(data[n])
    BY <1>0, <2>2
  <2>4. Opened' = Opened
    BY <2>1 DEF Opened
  <2>5. ASSUME NEW n \in Opened PROVE resumesAt(n)' >= resumesAt(n)
    <3>0. n \in Inode
      BY <1>a
    <3>1. resumesAt(n)' = resumesAt(n) \/ resumesAt(n) = 0
      BY <1>0, <2>1, <2>3, <3>0 DEF resumesAt
    <3> QED BY <1>a, <1>b, <3>1
  <2>6. written' \notin got
    <3>1. \A l \in got : l <= written
      BY DEF TInv, Numbered
    <3> QED BY <1>0, <2>2, <3>1
  <2>7. ASSUME NEW n \in Opened', NEW k \in DOMAIN data'[n], k > resumesAt(n)'
        PROVE  NotYet(data'[n][k])
    <3>1. n \in Inode
      BY <1>a, <2>4
    <3>2. CASE k \in DOMAIN data[n] /\ data'[n][k] = data[n][k]
      <4>1. k > resumesAt(n)
        BY <1>0, <1>a, <1>b, <2>4, <2>5, <2>7, <3>1, <3>2
      <4> QED BY <2>4, <3>2, <4>1 DEF Fresh
    <3> QED BY <2>2, <2>6, <3>1, <3>2 DEF NotYet
  <2> QED BY <2>1, <2>7 DEF Fresh, NotYet, NothingTwice
<1>7. CASE Truncate
  <2>1. /\ path_inode # INO_NONE /\ data' = [data EXCEPT ![path_inode] = <<>>]
        /\ UNCHANGED <<path_inode, hinode, got, twice, raced>>
        /\ hinode = INO_NONE \/ hinode = path_inode
    BY <1>7 DEF Truncate, calm, noticed, handler
  <2>2. Opened' = {path_inode}
    BY <2>1 DEF Opened
  <2>3. DOMAIN data'[path_inode] = {}
    BY <1>0, <2>1, NoLines DEF TInv, TypeOK
  <2> QED BY <2>1, <2>2, <2>3 DEF Fresh, NothingTwice
<1>8. CASE Rename /\ hinode = INO_NONE
  <2>1. /\ UNCHANGED <<data, got, twice, raced, hinode>> /\ path_inode' = INO_NONE
        /\ hinode = INO_NONE
    BY <1>8 DEF Rename, handler
  <2>2. Opened' = {}
    BY <2>1 DEF Opened
  <2> QED BY <1>c, <2>1, <2>2
<1> QED BY <1>1, <1>2, <1>3, <1>4, <1>5, <1>6, <1>7, <1>8, PlacesKept

\* No line is handed over twice, whatever is rotated, truncated, killed and
\* restarted, as long as a notification sees each change of the file that is read
\* before the next; it does not matter whether the process has the file open when
\* it is truncated.  A file that is replaced between stat and the first fopen
\* costs a repetition of what the notification read of the new file, and no more.
THEOREM NothingTwiceAlways ==
    ASSUME "hasty" \notin Faults
    PROVE  Spec => []NothingTwice
<1>1. Init => HInv /\ Fresh /\ NothingTwice
  <2> SUFFICES ASSUME Init PROVE HInv /\ Fresh /\ NothingTwice
    OBVIOUS
  <2>1. HInv /\ NothingTwice
    BY DEF Init, HInv, Handler, Seen, Shrunk, Mistaken, NothingTwice
  <2>2. Fresh
    BY DEF Init, Fresh, NotYet
  <2> QED BY <2>1, <2>2
<1>2. TInv /\ TInv' /\ HInv /\ [Next]_vars => HInv'
  BY NextHandler
<1>3. TInv /\ TInv' /\ HInv /\ HInv' /\ Fresh /\ NothingTwice /\ [Next]_vars
          => Fresh' /\ NothingTwice'
  BY NextFresh
<1> QED BY <1>1, <1>2, <1>3, InitTypes, NextTypes, PTL DEF Spec
-----------------------------------------------------------------------------
\* No file is read from a place beyond its end.
Within == \A n \in Opened : resumesAt(n) <= Len(data[n])

\* The line l is still to be read.
StillAhead(l) ==
    \E n \in Opened : \E k \in DOMAIN data[n] : k > resumesAt(n) /\ l = data[n][k]

\* What a mistaken notification has read of its file was handed over.
Behind ==
    Mistaken => /\ fpos <= Len(data[hinode])
                /\ \A k \in DOMAIN data[hinode] :
                       k <= fpos => data[hinode][k] \in got \cup gone

Accounted == \A l \in 1..written : l \in got \/ l \in gone \/ StillAhead(l)

MInv == Within /\ Accounted /\ Behind

\* Accounted says what NothingMissed says.
LEMMA AccountedFor ==
    ASSUME TInv, Accounted
    PROVE  NothingMissed
<1>1. ASSUME NEW l, StillAhead(l) PROVE l \in ahead
  <2>1. PICK n \in Opened : \E k \in DOMAIN data[n] : k > resumesAt(n) /\ l = data[n][k]
    BY <1>1 DEF StillAhead
  <2>2. PICK k \in DOMAIN data[n] : k > resumesAt(n) /\ l = data[n][k]
    BY <2>1
  <2>3. /\ n \in Inode /\ resumesAt(n) \in Nat /\ Len(data[n]) \in Nat
        /\ DOMAIN data[n] = 1..Len(data[n])
    BY Numbers, Places
  <2>4. k \in (resumesAt(n) + 1)..Len(data[n])
    BY <2>2, <2>3
  <2> QED BY <2>2, <2>4 DEF ahead, Opened
<1> QED BY <1>1 DEF Accounted, NothingMissed

\* A step keeps Behind.
LEMMA NextBehind ==
    ASSUME TInv, HInv, Behind, [Next]_vars, "hasty" \notin Faults
    PROVE  Behind'
<1>0. /\ fpos \in Nat
      /\ hinode # INO_NONE => hinode \in Inode /\ hinode = entry.inode
      /\ path_inode # INO_NONE => path_inode \in Inode
      /\ \A n \in Inode : /\ data[n] \in Seq(1..MaxLines) /\ Len(data[n]) \in Nat
                          /\ DOMAIN data[n] = 1..Len(data[n])
  BY Numbers
<1> SUFFICES ASSUME Mistaken'
             PROVE  /\ fpos' <= Len(data'[hinode'])
                    /\ \A k \in DOMAIN data'[hinode'] :
                           k <= fpos' => data'[hinode'][k] \in got' \cup gone'
  BY DEF Behind
<1>1. CASE FirstOpen
  <2>1. /\ UNCHANGED <<data, got>> /\ hinode' = path_inode /\ path_inode \in Inode
        /\ m_inode' = st.inode /\ fpos' = startPos
        /\ skipsHead => gone' = gone \cup LinesOf(data[path_inode])
    BY <1>0, <1>1 DEF FirstOpen, rotateDone, disk
  <2>2. path_inode # entry.inode
    BY <1>1, <2>1, RacedFile DEF Mistaken
  <2>3. fpos' = IF skipsHead THEN Len(data[path_inode]) ELSE 0
    BY <2>1, <2>2 DEF startPos
  <2>4. CASE skipsHead
    BY <1>0, <2>1, <2>3, <2>4 DEF LinesOf
  <2>5. CASE ~skipsHead
    <3>1. \A k \in DOMAIN data[path_inode] : ~(k <= fpos')
      BY <1>0, <2>1, <2>3, <2>5
    <3> QED BY <1>0, <2>1, <2>3, <2>5, <3>1
  <2> QED BY <2>4, <2>5
<1>2. CASE ReadFile /\ hinode # INO_NONE /\ fpos < Len(data[hinode])
  <2>1. /\ UNCHANGED <<data, hinode, m_inode, gone>> /\ fpos' = Len(data[hinode])
        /\ got' = got \cup unreadLines
    BY <1>2 DEF ReadFile, handOver, disk, rotate
  <2>2. Mistaken
    BY <2>1 DEF Mistaken
  <2>3. ASSUME NEW k \in DOMAIN data[hinode] PROVE data[hinode][k] \in got' \cup gone'
    <3>1. CASE k <= fpos
      BY <2>1, <2>2, <3>1 DEF Behind
    <3>2. CASE ~(k <= fpos)
      <4>1. k \in (fpos + 1)..Len(data[hinode])
        BY <1>0, <1>2, <3>2
      <4> QED BY <2>1, <4>1 DEF unreadLines
    <3> QED BY <3>1, <3>2
  <2> QED BY <1>0, <1>2, <2>1, <2>3
<1>3. CASE Write
  <2>1. /\ UNCHANGED <<hinode, fpos, m_inode, got>> /\ gone \subseteq gone'
    BY <1>3 DEF Write, rotate, handler
  <2>2. Mistaken /\ hinode \in Inode
    BY <1>0, <2>1 DEF Mistaken
  <2>3. /\ winode \in Inode /\ Len(data'[winode]) = Len(data[winode]) + 1
        /\ \A n \in Inode : n # winode => data'[n] = data[n]
        /\ \A n \in Inode : \A k \in DOMAIN data'[n] :
               \/ k \in DOMAIN data[n] /\ data'[n][k] = data[n][k]
               \/ n = winode /\ k = Len(data[n]) + 1 /\ data'[n][k] = written'
    BY <1>3, Written
  <2>4. fpos <= Len(data[hinode])
    BY <2>2 DEF Behind
  <2>5. fpos <= Len(data'[hinode])
    BY <1>0, <2>2, <2>3, <2>4
  <2>6. ASSUME NEW k \in DOMAIN data'[hinode], k <= fpos
        PROVE  data'[hinode][k] \in got \cup gone
    <3>1. k \in DOMAIN data[hinode] /\ data'[hinode][k] = data[hinode][k]
      <4>1. ~(k = Len(data[hinode]) + 1)
        BY <1>0, <2>2, <2>4, <2>6
      <4> QED BY <2>2, <2>3, <4>1
    <3> QED BY <2>2, <2>6, <3>1 DEF Behind
  <2> QED BY <2>1, <2>5, <2>6
<1>4. CASE Truncate
  <2>1. /\ UNCHANGED <<hinode, m_inode>>
        /\ hinode = INO_NONE \/ hinode = m_inode
    BY <1>4 DEF Truncate, calm, noticed, rotate, handler
  <2> QED BY <2>1 DEF Mistaken
<1>5. CASE Truncated
  <2>1. pc = "open" /\ hinode # INO_NONE /\ hinode = path_inode /\ m_inode' = st.inode
        /\ hinode' = path_inode
    BY <1>0, <1>5 DEF Truncated, rotateDone
  <2> QED BY <2>1 DEF HInv, Seen, Mistaken
<1>6. CASE Rotated \/ Crash
  BY <1>6 DEF Rotated, Crash, Mistaken
<1>7. CASE UNCHANGED <<data, got, hinode, fpos, m_inode>> /\ gone \subseteq gone'
  <2>1. Mistaken
    BY <1>7 DEF Mistaken
  <2> QED BY <1>7, <2>1 DEF Behind
<1>8. ASSUME Stat \/ OpenFails \/ StillActive \/ Restart \/ GoSilent \/ Rename \/ Create
             \/ Reopen \/ UNCHANGED vars
             \/ (ReadFile /\ ~(hinode # INO_NONE /\ fpos < Len(data[hinode])))
      PROVE  UNCHANGED <<data, got, hinode, fpos, m_inode>> /\ gone \subseteq gone'
  BY <1>8 DEF Stat, OpenFails, StillActive, Restart, GoSilent, Rename, Create, Reopen, ReadFile,
     vars, disk, rotate, handler, history, abandon
<1> QED BY <1>1, <1>2, <1>3, <1>4, <1>5, <1>6, <1>7, <1>8 DEF Next, OnNotify

\* A step passes over no line.
LEMMA NextAccounted ==
    ASSUME TInv, TInv', HInv, HInv', MInv, [Next]_vars,
           "hasty" \notin Faults, "unseen" \notin Faults
    PROVE  MInv'
<1>0. /\ fpos \in Nat /\ entry.pos \in Nat /\ m_fsize \in Int /\ written \in Nat /\ st.size \in Nat
      /\ hinode # INO_NONE => hinode \in Inode /\ hinode = entry.inode
      /\ path_inode # INO_NONE => path_inode \in Inode
      /\ \A n \in Inode : /\ data[n] \in Seq(1..MaxLines) /\ Len(data[n]) \in Nat
                          /\ DOMAIN data[n] = 1..Len(data[n])
  BY Numbers
<1>a. /\ \A n : resumesAt(n) \in Nat
      /\ Opened \subseteq Inode
  BY Places
<1>b. Behind'
  BY NextBehind DEF MInv
<1>1. CASE SamePlaces
  <2>1. UNCHANGED <<data, written, got>> /\ gone \subseteq gone'
    BY <1>1 DEF SamePlaces
  <2>2. ASSUME NEW l, StillAhead(l) PROVE StillAhead(l)'
    <3>1. PICK n \in Opened : \E k \in DOMAIN data[n] : k > resumesAt(n) /\ l = data[n][k]
      BY <2>2 DEF StillAhead
    <3>2. n \in Opened' /\ resumesAt(n)' = resumesAt(n)
      BY <1>1 DEF SamePlaces
    <3> QED BY <2>1, <3>1, <3>2 DEF StillAhead
  <2>3. Accounted'
    BY <2>1, <2>2 DEF MInv, Accounted
  <2>4. ASSUME NEW n \in Opened' PROVE resumesAt(n)' <= Len(data[n])
    <3>1. CASE n \in Opened
      BY <1>1, <3>1 DEF SamePlaces, MInv, Within
    <3>2. CASE data[n] = <<>> /\ resumesAt(n)' = 0
      BY <3>2, NoLines
    <3> QED BY <1>1, <3>1, <3>2 DEF SamePlaces
  <2> QED BY <1>b, <2>1, <2>3, <2>4 DEF MInv, Within
<1>2. CASE FirstOpen /\ skipsHead
  <2>1. /\ UNCHANGED <<path_inode, data, written, got>>
        /\ hinode = INO_NONE /\ hinode' = path_inode /\ path_inode # INO_NONE
        /\ fpos' = Len(data[path_inode])
        /\ m_inode' = st.inode /\ m_fsize' = st.size
        /\ st.inode = path_inode => st.size <= Len(data[path_inode])
        /\ gone' = gone \cup LinesOf(data[path_inode])
    <3>1. path_inode # entry.inode
      BY <1>2 DEF FirstOpen, skipsHead
    <3> QED BY <1>2, <3>1, RacedFile DEF FirstOpen, rotateDone, startPos, disk
  <2>2. Opened = {path_inode} /\ Opened' = {path_inode}
    BY <2>1 DEF Opened
  <2>3. \A n \in Opened' : resumesAt(n)' <= Len(data[n])
    BY <1>0, <2>1, <2>2 DEF resumesAt
  <2>4. \A l : StillAhead(l) => l \in gone'
    BY <2>1, <2>2 DEF StillAhead, LinesOf
  <2> QED BY <1>b, <2>1, <2>3, <2>4 DEF MInv, Within, Accounted
<1>3. CASE Rotated
  <2>1. /\ UNCHANGED <<path_inode, data, written>> /\ entry'.inode = entry.inode
        /\ got' = got \cup unreadLines /\ gone' = gone
        /\ hinode # INO_NONE /\ hinode # path_inode /\ hinode' = INO_NONE
        /\ path_inode # INO_NONE
    BY <1>0, <1>3 DEF Rotated, closeIO, handOver, anotherFile, disk, TInv, TypeOK
  <2>2. /\ Opened' = {path_inode} /\ Opened = {path_inode, hinode}
        /\ \A n \in Opened' : resumesAt(n)' = 0
    BY <1>0, <2>1 DEF Opened, resumesAt
  <2>3. resumesAt(hinode) = fpos
    BY <2>1, Places DEF Shrunk
  <2>4. ASSUME NEW l, StillAhead(l) PROVE l \in got' \/ StillAhead(l)'
    <3>1. PICK n \in Opened : \E k \in DOMAIN data[n] : k > resumesAt(n) /\ l = data[n][k]
      BY <2>4 DEF StillAhead
    <3>2. PICK k \in DOMAIN data[n] : k > resumesAt(n) /\ l = data[n][k]
      BY <3>1
    <3>3. CASE n = hinode
      <4>1. k \in (fpos + 1)..Len(data[hinode])
        BY <1>0, <2>1, <2>3, <3>2, <3>3
      <4> QED BY <2>1, <3>2, <3>3, <4>1 DEF unreadLines
    <3>4. CASE n = path_inode
      <4>1. k > 0
        BY <1>0, <2>1, <3>2, <3>4
      <4> QED BY <2>1, <2>2, <3>2, <3>4, <4>1 DEF StillAhead
    <3> QED BY <2>2, <3>3, <3>4
  <2>5. Accounted'
    BY <2>1, <2>4 DEF MInv, Accounted
  <2>6. Within'
    BY <1>0, <2>1, <2>2 DEF Within
  <2> QED BY <1>b, <2>5, <2>6 DEF MInv
<1>4. CASE ReadFile /\ hinode # INO_NONE /\ fpos < Len(data[hinode])
  <2>1. /\ UNCHANGED <<path_inode, data, written, hinode, m_inode, m_fsize>>
        /\ got' = got \cup unreadLines /\ gone' = gone
        /\ fpos' = Len(data[hinode])
    BY <1>4 DEF ReadFile, handOver, disk, rotate
  <2>2. ~Shrunk
    BY <1>0, <1>4 DEF HInv, Handler, Shrunk
  <2>3. resumesAt(hinode) = IF Mistaken THEN 0 ELSE fpos
    BY <1>4, <2>2, Places DEF HInv, Handler, Mistaken
  <2>4. /\ Opened' = Opened
        /\ \A n \in Opened : n # hinode => resumesAt(n)' = resumesAt(n)
        /\ \A n \in Opened : n = hinode =>
               resumesAt(n)' = IF Mistaken THEN 0 ELSE Len(data[n])
    BY <1>4, <2>1, <2>2 DEF Opened, resumesAt, Shrunk, Mistaken, HInv, Handler
  <2>5. ASSUME NEW l, StillAhead(l) PROVE l \in got' \/ StillAhead(l)'
    <3>1. PICK n \in Opened : \E k \in DOMAIN data[n] : k > resumesAt(n) /\ l = data[n][k]
      BY <2>5 DEF StillAhead
    <3>2. PICK k \in DOMAIN data[n] : k > resumesAt(n) /\ l = data[n][k]
      BY <3>1
    <3>3. CASE n = hinode /\ ~Mistaken
      <4>1. k \in (fpos + 1)..Len(data[hinode])
        BY <1>0, <1>4, <2>3, <3>2, <3>3
      <4> QED BY <2>1, <3>2, <3>3, <4>1 DEF unreadLines
    <3>4. CASE n # hinode \/ Mistaken
      <4>1. resumesAt(n)' = resumesAt(n)
        BY <2>3, <2>4, <3>4
      <4> QED BY <2>1, <2>4, <3>2, <4>1 DEF StillAhead
    <3> QED BY <3>3, <3>4
  <2>6. Accounted'
    BY <2>1, <2>5 DEF MInv, Accounted
  <2>7. ASSUME NEW n \in Opened' PROVE resumesAt(n)' <= Len(data[n])
    <3>1. n \in Inode
      BY <1>a, <2>4
    <3> QED BY <1>0, <2>4, <3>1 DEF MInv, Within
  <2> QED BY <1>b, <2>1, <2>6, <2>7 DEF MInv, Within
<1>5. CASE Crash /\ hinode # INO_NONE
  <2>1. /\ UNCHANGED <<path_inode, data, written, entry, got>> /\ hinode' = INO_NONE
        /\ ~truncationOpen
        /\ gone' = IF hinode # path_inode THEN gone \cup (LinesOf(data[hinode]) \ got) ELSE gone
    BY <1>5 DEF Crash, disk, abandon
  <2>2. Opened' \subseteq {path_inode} /\ Opened' \subseteq Opened
        /\ (path_inode # INO_NONE => path_inode \in Opened')
    BY <2>1 DEF Opened
  <2>a. Mistaken => hinode = path_inode /\ entry.pos = fpos /\ resumesAt(path_inode)' = fpos
    BY <1>0, <1>5, <2>1 DEF HInv, Handler, resumesAt, truncationOpen, Mistaken
  <2>3. ASSUME NEW n \in Opened', ~Mistaken PROVE resumesAt(n)' = resumesAt(n)
    <3>1. n = path_inode /\ n # INO_NONE
      BY <2>2 DEF Opened
    <3>2. CASE hinode = path_inode
      BY <1>0, <1>5, <2>1, <2>3, <3>1, <3>2 DEF resumesAt, truncationOpen, Mistaken
    <3>3. CASE hinode # path_inode
      BY <1>0, <1>5, <2>1, <3>1, <3>3 DEF resumesAt
    <3> QED BY <3>2, <3>3
  <2>4. ASSUME NEW l, StillAhead(l) PROVE l \in got \/ l \in gone' \/ StillAhead(l)'
    <3>1. PICK n \in Opened : \E k \in DOMAIN data[n] : k > resumesAt(n) /\ l = data[n][k]
      BY <2>4 DEF StillAhead
    <3>2. CASE n = path_inode /\ ~Mistaken
      <4>1. n \in Opened' /\ resumesAt(n)' = resumesAt(n)
        BY <2>2, <2>3, <3>2 DEF Opened
      <4> QED BY <2>1, <3>1, <4>1 DEF StillAhead
    <3>4. CASE n = path_inode /\ Mistaken
      <4>1. n \in Opened' /\ resumesAt(n)' = fpos /\ n = hinode
        BY <1>5, <2>1, <2>2, <2>a, <3>4
      <4>2. PICK k \in DOMAIN data[n] : l = data[n][k]
        BY <3>1
      <4>3. CASE k > fpos
        BY <2>1, <4>1, <4>2, <4>3 DEF StillAhead
      <4>4. CASE ~(k > fpos)
        <5>1. k <= fpos
          BY <1>0, <1>5, <4>1, <4>2, <4>4
        <5>2. l \in got \cup gone /\ gone \subseteq gone'
          BY <2>1, <3>4, <4>1, <4>2, <5>1 DEF MInv, Behind
        <5> QED BY <5>2
      <4> QED BY <4>3, <4>4
    <3>3. CASE n # path_inode
      <4>1. n = hinode
        BY <3>3 DEF Opened
      <4> QED BY <2>1, <3>1, <3>3, <4>1 DEF LinesOf
    <3> QED BY <3>2, <3>3, <3>4
  <2>5. Accounted'
    BY <2>1, <2>4 DEF MInv, Accounted
  <2>6. Within'
    <3>1. CASE ~Mistaken
      BY <2>1, <2>2, <2>3, <3>1 DEF MInv, Within
    <3>2. CASE Mistaken
      BY <2>1, <2>2, <2>a, <3>2 DEF MInv, Within, Behind
    <3> QED BY <3>1, <3>2
  <2> QED BY <1>b, <2>5, <2>6 DEF MInv
<1>6. CASE Write
  <2>1. /\ UNCHANGED <<path_inode, hinode, fpos, m_inode, m_fsize, entry, got>>
        /\ \/ winode # m_inode
           \/ Len(data[winode]) >= m_fsize \/ Len(data[winode]) + 1 < m_fsize
        /\ winode # INO_NONE
        /\ gone' = IF winode \in {path_inode, hinode} THEN gone ELSE gone \cup {written'}
    BY <1>6 DEF Write, rotate, handler
  <2>2. /\ winode \in Inode /\ Len(data'[winode]) = Len(data[winode]) + 1
        /\ \A n \in Inode : n # winode => data'[n] = data[n]
        /\ written' = written + 1
        /\ Len(data[winode]) + 1 \in DOMAIN data'[winode]
        /\ data'[winode][Len(data[winode]) + 1] = written'
    BY <1>6, Written
  <2>3. \A n \in Inode : \A k \in DOMAIN data[n] :
            k \in DOMAIN data'[n] /\ data'[n][k] = data[n][k]
    BY <1>6, Written
  <2>4. \A n \in Inode : /\ Len(data'[n]) \in Nat /\ Len(data'[n]) >= Len(data[n])
                         /\ n = m_inode =>
                                (Len(data[n]) < m_fsize <=> Len(data'[n]) < m_fsize)
    BY <1>0, <2>1, <2>2
  <2>5. Opened' = Opened
    BY <2>1 DEF Opened
  <2>6. \A n \in Opened : resumesAt(n)' = resumesAt(n)
    BY <1>a, <2>1, <2>4 DEF resumesAt
  <2>7. ASSUME NEW l, StillAhead(l) PROVE StillAhead(l)'
    <3>1. PICK n \in Opened : \E k \in DOMAIN data[n] : k > resumesAt(n) /\ l = data[n][k]
      BY <2>7 DEF StillAhead
    <3>2. PICK k \in DOMAIN data[n] : k > resumesAt(n) /\ l = data[n][k]
      BY <3>1
    <3>3. k \in DOMAIN data'[n] /\ l = data'[n][k] /\ n \in Opened' /\ k > resumesAt(n)'
      BY <1>a, <2>3, <2>5, <2>6, <3>2
    <3> QED BY <3>3 DEF StillAhead
  <2>8. ASSUME NEW l \in {written'} PROVE l \in gone' \/ StillAhead(l)'
    <3>1. CASE winode \in {path_inode, hinode}
      <4>1. winode \in Opened /\ winode \in Opened'
        BY <2>1, <2>5, <3>1 DEF Opened
      <4>2. Len(data[winode]) + 1 > resumesAt(winode)
        BY <1>0, <1>a, <2>2, <4>1 DEF MInv, Within
      <4> DEFINE k == Len(data[winode]) + 1
      <4>3. \A n \in {winode} : n \in Opened' /\ k \in DOMAIN data'[n] /\ k > resumesAt(n)'
                                /\ data'[n][k] = written'
        BY <2>2, <2>6, <4>1, <4>2
      <4> HIDE DEF k
      <4>4. \E n \in Opened' : \E j \in DOMAIN data'[n] : j > resumesAt(n)' /\ l = data'[n][j]
        BY <4>3
      <4> QED BY <4>4 DEF StillAhead
    <3>2. CASE winode \notin {path_inode, hinode}
      BY <2>1, <3>2
    <3> QED BY <3>1, <3>2
  <2>9. Accounted'
    <3> SUFFICES ASSUME NEW l \in 1..written' PROVE l \in got' \/ l \in gone' \/ StillAhead(l)'
      BY DEF Accounted
    <3>1. l \in 1..written \/ l = written'
      BY <1>0, <2>2
    <3>2. CASE l \in 1..written
      BY <2>1, <2>7, <3>2 DEF MInv, Accounted
    <3>3. CASE l = written'
      BY <2>8, <3>3
    <3> QED BY <3>1, <3>2, <3>3
  <2>10. ASSUME NEW n \in Opened' PROVE resumesAt(n)' <= Len(data'[n])
    <3>1. n \in Inode /\ n \in Opened /\ resumesAt(n)' = resumesAt(n) /\ resumesAt(n) \in Nat
      BY <1>a, <2>5, <2>6
    <3> QED BY <1>0, <2>4, <3>1 DEF MInv, Within
  <2> QED BY <1>b, <2>9, <2>10 DEF MInv, Within
<1>7. CASE Truncate
  <2>1. /\ path_inode # INO_NONE /\ data' = [data EXCEPT ![path_inode] = <<>>]
        /\ UNCHANGED <<path_inode, written, hinode, fpos, m_inode, m_fsize, got>>
        /\ hinode = path_inode /\ m_inode = path_inode /\ m_fsize = fpos
        /\ gone' = gone \cup (LinesOf(data[path_inode]) \ got)
    BY <1>7 DEF Truncate, calm, noticed, abandon, rotate, handler
  <2>2. Opened' = {path_inode} /\ Opened = {path_inode}
    BY <2>1 DEF Opened
  <2>3. data'[path_inode] = <<>> /\ Len(data'[path_inode]) = 0
    BY <1>0, <2>1, NoLines DEF TInv, TypeOK
  <2>4. \A n \in Opened' : resumesAt(n)' <= Len(data'[n])
    BY <1>0, <2>1, <2>2, <2>3 DEF resumesAt
  <2>5. \A l : StillAhead(l) => l \in got \/ l \in gone'
    BY <2>1, <2>2 DEF StillAhead, LinesOf
  <2> QED BY <1>b, <2>1, <2>4, <2>5 DEF MInv, Within, Accounted
<1>8. CASE Rename /\ hinode = INO_NONE
  <2>1. /\ UNCHANGED <<data, written, got, hinode>> /\ path_inode' = INO_NONE
        /\ hinode = INO_NONE
        /\ gone' = gone \cup (LinesOf(data[path_inode]) \ got)
    BY <1>8 DEF Rename, abandon, handler
  <2>2. Opened' = {} /\ Opened \subseteq {path_inode}
    BY <2>1 DEF Opened
  <2>3. \A l : StillAhead(l) => l \in got \/ l \in gone'
    BY <2>1, <2>2 DEF StillAhead, LinesOf
  <2> QED BY <1>b, <2>1, <2>2, <2>3 DEF MInv, Within, Accounted
<1> QED BY <1>1, <1>2, <1>3, <1>4, <1>5, <1>6, <1>7, <1>8, PlacesKept

\* A file is left only when all of its lines were handed over or are gone.
LEMMA LeftCollected ==
    ASSUME TInv, HInv, MInv, [Next]_vars, hinode # INO_NONE, hinode' # hinode, pc' # "down"
    PROVE  LinesOf(data[hinode]) \subseteq got' \cup gone'
<1>0. /\ fpos \in Nat /\ hinode \in Inode /\ hinode = entry.inode
      /\ Len(data[hinode]) \in Nat /\ DOMAIN data[hinode] = 1..Len(data[hinode])
  BY Numbers
<1>1. Rotated
  BY <1>0 DEF Next, OnNotify, vars, handler, Stat, OpenFails, FirstOpen, Truncated, StillActive,
     ReadFile, Crash, Restart, GoSilent, Write, Rename, Create, Reopen, Truncate
<1>2. /\ got' = got \cup unreadLines /\ gone' = gone /\ hinode # path_inode
  BY <1>0, <1>1 DEF Rotated, closeIO, handOver, anotherFile
<1>3. resumesAt(hinode) = fpos
  BY <1>2, Places DEF Shrunk
<1>4. ASSUME NEW k \in DOMAIN data[hinode] PROVE data[hinode][k] \in got' \cup gone'
  <2>1. CASE k > fpos
    <3>1. k \in (fpos + 1)..Len(data[hinode])
      BY <1>0, <2>1
    <3> QED BY <1>2, <3>1 DEF unreadLines
  <2>2. CASE ~(k > fpos)
    <3>1. data[hinode][k] \in 1..written
      BY <1>0, WrittenLines DEF LinesOf
    <3>2. ~StillAhead(data[hinode][k])
      <4> SUFFICES ASSUME NEW n \in Opened, NEW j \in DOMAIN data[n], j > resumesAt(n),
                          data[hinode][k] = data[n][j]
                   PROVE  FALSE
        BY DEF StillAhead
      <4>1. n \in Inode
        BY Places
      <4>2. n = hinode /\ j = k
        BY <1>0, <4>1 DEF TInv, Numbered
      <4> QED BY <1>3, <2>2, <4>2
    <3> QED BY <1>2, <3>1, <3>2 DEF MInv, Accounted
  <2> QED BY <2>1, <2>2
<1> QED BY <1>4 DEF LinesOf

\* The first state.
LEMMA InitPlaces == Init => HInv /\ MInv
<1> SUFFICES ASSUME Init PROVE HInv /\ MInv
  OBVIOUS
<1>1. HInv
  BY DEF Init, HInv, Handler, Seen, Shrunk, Mistaken
<1>2. \A n : resumesAt(n) = 0
  BY DEF Init, resumesAt, startedEntry
<1>3. TInv
  BY InitTypes
<1>4. \A n \in Opened : Len(data[n]) \in Nat
  BY <1>3, Numbers, Places
<1>5. Within
  BY <1>2, <1>4 DEF Within
<1>6. Accounted /\ Behind
  BY DEF Init, Accounted, Behind, Mistaken
<1> QED BY <1>1, <1>5, <1>6 DEF MInv

\* No line is passed over, for every number of files and lines, when the file is
\* renamed, created anew, truncated or the process restarted at any point, as
\* long as a notification sees each change before the next and the process is
\* there to see a truncation.  The stat and the first fopen may see two files, and
\* the writer may turn to a new file late.
THEOREM NothingMissedAlways ==
    ASSUME "hasty" \notin Faults, "unseen" \notin Faults
    PROVE  Spec => []NothingMissed
<1>1. TInv /\ TInv' /\ HInv /\ [Next]_vars => HInv'
  BY NextHandler
<1>2. TInv /\ TInv' /\ HInv /\ HInv' /\ MInv /\ [Next]_vars => MInv'
  BY NextAccounted
<1>3. TInv /\ MInv => NothingMissed
  BY AccountedFor DEF MInv
<1> QED BY <1>1, <1>2, <1>3, InitPlaces, InitTypes, NextTypes, PTL DEF Spec

\* updateWatcherRotate leaves a file only when all of it was collected.
THEOREM LeftWhenCollectedAlways ==
    ASSUME "hasty" \notin Faults, "unseen" \notin Faults
    PROVE  Spec => LeftWhenCollected
<1> DEFINE Left == hinode # INO_NONE /\ hinode' # hinode /\ pc' # "down" =>
                       LinesOf(data[hinode]) \subseteq got' \cup gone'
<1>1. TInv /\ TInv' /\ HInv /\ [Next]_vars => HInv'
  BY NextHandler
<1>2. TInv /\ TInv' /\ HInv /\ HInv' /\ MInv /\ [Next]_vars => MInv'
  BY NextAccounted
<1>3. TInv /\ HInv /\ MInv /\ [Next]_vars => [Left]_vars
  BY LeftCollected
<1> QED BY <1>1, <1>2, <1>3, InitPlaces, InitTypes, NextTypes, PTL DEF Spec, LeftWhenCollected
=============================================================================
