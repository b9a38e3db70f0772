-------------------------- MODULE IOHandlerProofs --------------------------
(***************************************************************************)
(* IOHandler for every batch size, line length, buffer size and file: the  *)
(* state is well typed (in particular the buffer never overflows and the   *)
(* recorded position is inside the file), no byte is skipped, between two  *)
(* notifications the recorded position is where the lines end, batches are *)
(* in order, the buffer is never stuck, lines are cut right, without a     *)
(* kill nothing is sent twice, an inactive watcher has nothing to resend,  *)
(* and LogDelivery is implemented.                                         *)
(***************************************************************************)
EXTENDS IOHandler, TLAPS

\* How the variables hang together at each point of onNotify.
Shape ==
    /\ open => buf + buffer_len = fpos
    /\ open => pos <= buf
    /\ pos <= Len(file)
    /\ pc # "scan" => i = 0 /\ cur_buf_pos = 0
    /\ pc # "idle" => open
    /\ ~open => lines = <<>> /\ buffer_len = 0 /\ ~stopping
    /\ pc \notin {"resent", "sent"} => unsent_lines = <<>>

\* While nothing waits to be sent the position is where the lines end.
Resume ==
    /\ open /\ pc \in {"idle", "begin"} => pos = buf
    /\ pc \in {"resend", "read", "scan", "send"} /\ lines = <<>>
         => pos = buf + cur_buf_pos

\* A line that waits ends before the boundary and does not straddle the
\* recorded position.
Straight(s) ==
    \A k \in DOMAIN s : /\ s[k].to <= buf + cur_buf_pos
                        /\ s[k].to <= pos \/ pos <= s[k].from

IInv == TypeOK /\ Shape /\ Resume /\ Straight(lines) /\ Straight(unsent_lines)
-----------------------------------------------------------------------------
\* The empty vector, and push_back.
LEMMA EmptySequence ==
    /\ <<>> \in Seq(Line) /\ <<>> \in Seq(Byte)
    /\ DOMAIN <<>> = {} /\ Len(<<>>) = 0
OBVIOUS

\* What a sequence is after an element is appended.
LEMMA AppendToSequence ==
    ASSUME NEW S, NEW s \in Seq(S), NEW e \in S
    PROVE  /\ Append(s, e) \in Seq(S)
           /\ Append(s, e) # <<>>
           /\ Len(Append(s, e)) = Len(s) + 1
           /\ DOMAIN Append(s, e) = 1..(Len(s) + 1)
           /\ \A k \in 1..Len(s) : Append(s, e)[k] = s[k]
           /\ Append(s, e)[Len(s) + 1] = e
OBVIOUS

\* The elements of a sequence of lines are lines.
LEMMA RangeOfLines ==
    ASSUME NEW s \in Seq(Line)
    PROVE  Range(s) \subseteq Line
BY DEF Range

\* A line begins and ends at an offset.
LEMMA LineEnds ==
    ASSUME NEW s \in Seq(Line), NEW k \in DOMAIN s
    PROVE  s[k].from \in Nat /\ s[k].to \in Nat
<1>1. s[k] \in Line
  OBVIOUS
<1> QED BY <1>1 DEF Line

\* The lines that receive_func leaves: a sequence of lines of m_lines.
LEMMA QueueFullLines ==
    ASSUME lines \in Seq(Line), NEW kept \in Selections(Len(lines))
    PROVE  /\ kept \in Seq(1..Len(lines))
           /\ queueFull(kept) \in Seq(Line)
           /\ \A k \in DOMAIN queueFull(kept) :
                  /\ kept[k] \in DOMAIN lines
                  /\ queueFull(kept)[k] = lines[kept[k]]
<1>1. PICK n \in 0..Len(lines) : kept \in [1..n -> 1..Len(lines)]
  BY DEF Selections
<1>2. kept \in Seq(1..Len(lines)) /\ DOMAIN kept = 1..n
  BY <1>1
<1>3. \A k \in 1..n : kept[k] \in DOMAIN lines /\ lines[kept[k]] \in Line
  BY <1>1
<1> QED BY <1>1, <1>2, <1>3 DEF queueFull

\* receive_func: some of the lines are left, the others are received.
LEMMA ReceiveLinesTypes ==
    ASSUME lines \in Seq(Line), received \subseteq Line, receiveLines
    PROVE  /\ io_age' = 0
           /\ unsent_lines' \in Seq(Line)
           /\ \A k \in DOMAIN unsent_lines' :
                  \E j \in DOMAIN lines : unsent_lines'[k] = lines[j]
           /\ received' \subseteq Line
<1>1. PICK kept \in Selections(Len(lines)) :
          /\ unsent_lines' = queueFull(kept)
          /\ received' = received \cup {lines[k] : k \in (1..Len(lines)) \ Range(kept)}
  BY DEF receiveLines
<1>2. received' \subseteq Line
  BY <1>1
<1>3. io_age' = 0
  BY DEF receiveLines, updateLastIOTime
<1> QED BY <1>1, <1>2, <1>3, QueueFullLines

\* The initial state satisfies the invariant.
LEMMA InitInv == Init => IInv
<1> SUFFICES ASSUME Init PROVE IInv
  OBVIOUS
<1>1. LineTypes
  BY EmptySequence DEF Init, LineTypes
<1>4. FlagTypes
  BY DEF Init, FlagTypes, PC
<1>2. NumberTypes
  BY ConfigAssumption DEF Init, NumberTypes
<1>3. Shape /\ Resume /\ Straight(lines) /\ Straight(unsent_lines)
  BY DEF Init, Shape, Resume, Straight
<1> QED BY <1>1, <1>2, <1>3, <1>4 DEF IInv, TypeOK

\* Every step preserves the invariant.
LEMMA NextInv == IInv /\ [Next]_vars => IInv'
<1> SUFFICES ASSUME IInv, [Next]_vars PROVE IInv'
  OBVIOUS
<1> USE ConfigAssumption DEF IInv
<1>0. Len(file) \in Nat
  BY DEF TypeOK, LineTypes
<1>1. CASE Notify
  <2>1. LineTypes'
    BY <1>1 DEF Notify, code, locals, ages, history, TypeOK, LineTypes, NumberTypes
  <2>2. NumberTypes'
    BY <1>1 DEF Notify, code, locals, ages, history, TypeOK, LineTypes, NumberTypes, Shape
  <2>3. FlagTypes'
    BY <1>1 DEF Notify, code, locals, ages, history, TypeOK, NumberTypes, FlagTypes, PC
  <2>4. Shape'
    BY <1>1 DEF Notify, code, locals, ages, history, TypeOK, LineTypes, NumberTypes, Shape
  <2>5. Resume'
    BY <1>1 DEF Notify, code, locals, ages, history, TypeOK, LineTypes, NumberTypes, Shape, Resume
  <2>6. Straight(lines)'
    BY <1>1 DEF Notify, code, locals, ages, history, TypeOK, LineTypes, NumberTypes, Shape, Straight
  <2>7. Straight(unsent_lines)'
    BY <1>1 DEF Notify, code, locals, ages, history, TypeOK, LineTypes, NumberTypes, Shape, Straight
  <2> QED BY <2>1, <2>2, <2>3, <2>4, <2>5, <2>6, <2>7 DEF TypeOK
<1>2. CASE Stop
  <2>1. LineTypes'
    BY <1>2 DEF Stop, code, locals, ages, history, TypeOK, LineTypes, NumberTypes
  <2>2. NumberTypes'
    BY <1>2 DEF Stop, code, locals, ages, history, TypeOK, LineTypes, NumberTypes, Shape
  <2>3. FlagTypes'
    BY <1>2 DEF Stop, code, locals, ages, history, TypeOK, NumberTypes, FlagTypes, PC
  <2>4. Shape'
    BY <1>2 DEF Stop, code, locals, ages, history, TypeOK, LineTypes, NumberTypes, Shape
  <2>5. Resume'
    BY <1>2 DEF Stop, code, locals, ages, history, TypeOK, LineTypes, NumberTypes, Shape, Resume
  <2>6. Straight(lines)'
    BY <1>2 DEF Stop, code, locals, ages, history, TypeOK, LineTypes, NumberTypes, Shape, Straight
  <2>7. Straight(unsent_lines)'
    BY <1>2 DEF Stop, code, locals, ages, history, TypeOK, LineTypes, NumberTypes, Shape, Straight
  <2> QED BY <2>1, <2>2, <2>3, <2>4, <2>5, <2>6, <2>7 DEF TypeOK
<1>3. CASE HandleUncleanedBuffer
  <2> DEFINE l == [from |-> buf, to |-> buf + buffer_len, cut |-> "stuck"]
  <2>8. l \in Line /\ l.from = buf /\ l.to = buf + buffer_len
    BY DEF TypeOK, NumberTypes, Line
  <2>10. i = 0 /\ cur_buf_pos = 0 /\ open /\ pos = buf /\ buf + buffer_len = fpos
    BY <1>3 DEF HandleUncleanedBuffer, Shape, Resume
  <2>0. /\ pc = "begin" /\ pc' = "resend"
        /\ io_age' \in {0, io_age}
        /\ \/ lines' = Append(lines, l) /\ buf' = buf + buffer_len /\ buffer_len' = 0
           \/ UNCHANGED <<lines, buf, buffer_len>>
        /\ UNCHANGED <<file, pos, open, fpos, last_segment, stuck_age, i, cur_buf_pos,
                       read_len, read_more, unsent_lines, stopping, waited, received, lost>>
    BY <1>3 DEF HandleUncleanedBuffer, updateLastIOTime, locals, history
  <2> HIDE DEF l
  <2>9. /\ lines' \in Seq(Line)
        /\ \A k \in DOMAIN lines' : (k \in DOMAIN lines /\ lines'[k] = lines[k]) \/ (lines'[k] = l /\ buf' = buf + buffer_len)
        /\ lines' = <<>> => UNCHANGED <<lines, buf, buffer_len>>
    <3>1. lines \in Seq(Line)
      BY DEF TypeOK, LineTypes
    <3>2. CASE lines' = Append(lines, l) /\ buf' = buf + buffer_len
      BY <3>1, <3>2, <2>8, AppendToSequence
    <3>3. CASE UNCHANGED <<lines, buf, buffer_len>>
      BY <3>1, <3>3
    <3> QED BY <2>0, <3>2, <3>3
  <2>11. buf' \in Nat /\ buf' + buffer_len' = fpos /\ buffer_len' \in {0, buffer_len} /\ buf <= buf'
    BY <2>0, <2>8, <2>10 DEF TypeOK, NumberTypes
  <2>12. buf \in Nat /\ buf' \in Nat /\ cur_buf_pos \in Nat /\ cur_buf_pos' \in Nat /\ pos \in Nat
    BY <2>0, <2>8, <2>10, <2>11 DEF TypeOK, NumberTypes
  <2>13. UNCHANGED <<pos, cur_buf_pos>>
    BY <2>0
  <2>1. LineTypes'
    BY <2>0, <2>8, <2>9, <2>10, <2>11 DEF TypeOK, LineTypes, NumberTypes
  <2>2. NumberTypes'
    BY <2>0, <2>8, <2>9, <2>10, <2>11 DEF TypeOK, LineTypes, NumberTypes, Shape
  <2>3. FlagTypes'
    BY <2>0 DEF TypeOK, NumberTypes, FlagTypes, PC
  <2>4. Shape'
    BY <2>0, <2>10, <2>11, <2>12, <1>0 DEF Shape
  <2>5. Resume'
    BY <2>0, <2>9, <2>10 DEF TypeOK, NumberTypes, Resume
  <2>6. Straight(lines)'
    <3> SUFFICES ASSUME NEW k \in DOMAIN lines'
                 PROVE  /\ lines'[k].to <= buf' + cur_buf_pos'
                        /\ lines'[k].to <= pos' \/ pos' <= lines'[k].from
      BY DEF Straight
    <3>1. CASE k \in DOMAIN lines /\ lines'[k] = lines[k]
      <4>1. lines[k].to \in Nat /\ lines[k].from \in Nat
        BY <3>1, LineEnds DEF TypeOK, LineTypes
      <4>2. /\ lines[k].to <= buf + cur_buf_pos
            /\ lines[k].to <= pos \/ pos <= lines[k].from
        BY <3>1 DEF Straight
      <4>3. pos' = pos /\ cur_buf_pos' = cur_buf_pos /\ buf <= buf'
        BY <2>11, <2>13
      <4> QED BY <3>1, <4>1, <4>2, <4>3, <2>12
    <3>2. CASE lines'[k] = l /\ buf' = buf + buffer_len
      BY <3>2, <2>0, <2>8, <2>10, <2>12
    <3> QED BY <2>9, <3>1, <3>2
  <2>7. Straight(unsent_lines)'
    BY <2>0, <2>8, <2>9, <2>10, <2>11 DEF TypeOK, LineTypes, NumberTypes, Shape, Straight
  <2> QED BY <2>1, <2>2, <2>3, <2>4, <2>5, <2>6, <2>7 DEF TypeOK
<1>4. CASE ResendLines
  <2>0. /\ pc = "resend" /\ pc' = "resent" /\ lines # <<>> /\ receiveLines
        /\ UNCHANGED <<file, pos, open, fpos, buf, buffer_len, last_segment, lines, stuck_age,
                       i, cur_buf_pos, read_len, read_more, stopping, waited, lost>>
    BY <1>4 DEF ResendLines, code
  <2>8. /\ io_age' = 0 /\ unsent_lines' \in Seq(Line) /\ received' \subseteq Line
        /\ \A k \in DOMAIN unsent_lines' : \E j \in DOMAIN lines : unsent_lines'[k] = lines[j]
    BY <2>0, ReceiveLinesTypes DEF TypeOK, LineTypes
  <2>1. LineTypes'
    BY <2>0, <2>8 DEF TypeOK, LineTypes
  <2>2. NumberTypes'
    BY <2>0, <2>8 DEF TypeOK, NumberTypes
  <2>3. FlagTypes'
    BY <2>0 DEF TypeOK, FlagTypes, PC
  <2>4. Shape'
    BY <2>0 DEF Shape
  <2>5. Resume'
    BY <2>0 DEF Resume
  <2>6. Straight(lines)'
    BY <2>0 DEF Straight
  <2>7. Straight(unsent_lines)'
    BY <2>0, <2>8 DEF Straight
  <2> QED BY <2>1, <2>2, <2>3, <2>4, <2>5, <2>6, <2>7 DEF TypeOK
<1>5. CASE NothingToResend
  <2>1. LineTypes'
    BY <1>5 DEF NothingToResend, code, ages, history, TypeOK, LineTypes, NumberTypes
  <2>2. NumberTypes'
    BY <1>5 DEF NothingToResend, code, ages, history, TypeOK, LineTypes, NumberTypes, Shape
  <2>3. FlagTypes'
    BY <1>5 DEF NothingToResend, code, ages, history, TypeOK, NumberTypes, FlagTypes, PC
  <2>4. Shape'
    BY <1>5 DEF NothingToResend, code, ages, history, TypeOK, LineTypes, NumberTypes, Shape
  <2>5. Resume'
    BY <1>5 DEF NothingToResend, code, ages, history, TypeOK, LineTypes, NumberTypes, Shape, Resume
  <2>6. Straight(lines)'
    BY <1>5 DEF NothingToResend, code, ages, history, TypeOK, LineTypes, NumberTypes, Shape, Straight
  <2>7. Straight(unsent_lines)'
    BY <1>5 DEF NothingToResend, code, ages, history, TypeOK, LineTypes, NumberTypes, Shape, Straight
  <2> QED BY <2>1, <2>2, <2>3, <2>4, <2>5, <2>6, <2>7 DEF TypeOK
<1>6. CASE RecordResent
  <2> DEFINE rest == unsent_lines
  <2>8. /\ pc = "resent" /\ i = 0 /\ cur_buf_pos = 0 /\ open
        /\ buf + buffer_len = fpos /\ pos <= buf
    BY <1>6 DEF RecordResent, Shape, Resume, TypeOK, NumberTypes
  <2>0. /\ pc' \in {"idle", "read"} /\ read_more' \in BOOLEAN
        /\ stopping' \in BOOLEAN /\ open' \in BOOLEAN
        /\ open' => lines' = rest /\ buffer_len' = buffer_len
        /\ ~open' => /\ lines' = <<>> /\ buffer_len' = 0
                     /\ pc' = "idle" /\ ~stopping'
        /\ lost' \in {lost, lost \cup Range(rest)}
        /\ pos' = fpos - buffer_len /\ unsent_lines' = <<>>
        /\ UNCHANGED <<file, fpos, buf, last_segment, io_age, stuck_age, i, cur_buf_pos,
                       read_len, waited, received>>
    BY <1>6, <2>8 DEF RecordResent, Return, recordedPos, ages, TypeOK, FlagTypes, Shape
  <2>9. buffer_len' \in {0, buffer_len} /\ pos' = buf /\ rest \in Seq(Line)
    BY <2>0, <2>8 DEF TypeOK, LineTypes, NumberTypes
  <2>1. LineTypes'
    BY <2>0, <2>8, <2>9, RangeOfLines, EmptySequence DEF TypeOK, LineTypes, NumberTypes
  <2>2. NumberTypes'
    BY <2>0, <2>8, <2>9 DEF TypeOK, LineTypes, NumberTypes, Shape
  <2>3. FlagTypes'
    BY <2>0 DEF TypeOK, NumberTypes, FlagTypes, PC
  <2>4. Shape'
    <3>1. pos' <= Len(file') /\ buf' = buf
      BY <2>0, <2>8, <2>9, <1>0 DEF TypeOK, NumberTypes
    <3>2. open' => buf' + buffer_len' = fpos' /\ pos' <= buf'
      BY <2>0, <2>8, <2>9 DEF TypeOK, NumberTypes
    <3>3. i' = 0 /\ cur_buf_pos' = 0 /\ unsent_lines' = <<>>
      BY <2>0, <2>8
    <3>4. /\ ~open' => lines' = <<>> /\ buffer_len' = 0 /\ ~stopping'
          /\ pc' # "idle" => open'
      BY <2>0
    <3> QED BY <3>1, <3>2, <3>3, <3>4 DEF Shape
  <2>5. Resume'
    BY <2>0, <2>8, <2>9 DEF TypeOK, NumberTypes, Shape, Resume
  <2>6. Straight(lines)'
    <3> SUFFICES ASSUME NEW k \in DOMAIN lines'
                 PROVE  /\ lines'[k].to <= buf' + cur_buf_pos'
                        /\ lines'[k].to <= pos' \/ pos' <= lines'[k].from
      BY DEF Straight
    <3>1. open' /\ k \in DOMAIN rest /\ lines'[k] = rest[k]
      BY <2>0
    <3>2. rest[k].to \in Nat /\ rest[k].from \in Nat
      BY <3>1, <2>9, LineEnds
    <3>3. rest[k].to <= buf + cur_buf_pos
      BY <3>1 DEF Straight
    <3> QED BY <2>0, <2>8, <2>9, <3>1, <3>2, <3>3 DEF TypeOK, NumberTypes
  <2>7. Straight(unsent_lines)'
    BY <2>0, <2>8, <2>9 DEF TypeOK, LineTypes, NumberTypes, Shape, Straight
  <2> QED BY <2>1, <2>2, <2>3, <2>4, <2>5, <2>6, <2>7 DEF TypeOK
<1>7. CASE ReadChunk
  <2>1. LineTypes'
    BY <1>7 DEF ReadChunk, Smaller, room, ages, history, TypeOK, LineTypes, NumberTypes
  <2>2. NumberTypes'
    BY <1>7 DEF ReadChunk, Smaller, room, ages, history, TypeOK, LineTypes, NumberTypes, Shape
  <2>3. FlagTypes'
    BY <1>7 DEF ReadChunk, Smaller, room, ages, history, TypeOK, NumberTypes, FlagTypes, PC
  <2>4. Shape'
    BY <1>7 DEF ReadChunk, Smaller, room, ages, history, TypeOK, LineTypes, NumberTypes, Shape
  <2>5. Resume'
    BY <1>7 DEF ReadChunk, Smaller, room, ages, history, TypeOK, LineTypes, NumberTypes, Shape, Resume
  <2>6. Straight(lines)'
    BY <1>7 DEF ReadChunk, Smaller, room, ages, history, TypeOK, LineTypes, NumberTypes, Shape, Straight
  <2>7. Straight(unsent_lines)'
    BY <1>7 DEF ReadChunk, Smaller, room, ages, history, TypeOK, LineTypes, NumberTypes, Shape, Straight
  <2> QED BY <2>1, <2>2, <2>3, <2>4, <2>5, <2>6, <2>7 DEF TypeOK
<1>8. CASE ScanByte
  <2>8. PICK l \in Line :
            /\ l.from = buf + cur_buf_pos /\ l.to = buf + i + 1
            /\ \/ lines' = Append(lines, l) /\ cur_buf_pos' = i + 1
               \/ UNCHANGED <<lines, cur_buf_pos>>
    <3> DEFINE l(why) == [from |-> buf + cur_buf_pos, to |-> buf + i + 1, cut |-> why]
    <3>1. ASSUME NEW why \in {"delimiter", "max"}
          PROVE  l(why) \in Line /\ l(why).from = buf + cur_buf_pos /\ l(why).to = buf + i + 1
      BY DEF TypeOK, NumberTypes, Line
    <3>2. \/ lines' = Append(lines, l("delimiter")) /\ cur_buf_pos' = i + 1
          \/ lines' = Append(lines, l("max")) /\ cur_buf_pos' = i + 1
          \/ UNCHANGED <<lines, cur_buf_pos>>
      BY <1>8 DEF ScanByte, cutHere, nextLine
    <3> HIDE DEF l
    <3> QED BY <3>1, <3>2
  <2>0. /\ pc = "scan" /\ i < buffer_len /\ i' = i + 1
        /\ \/ lines' = Append(lines, l) /\ cur_buf_pos' = i + 1
           \/ UNCHANGED <<lines, cur_buf_pos>>
        /\ UNCHANGED <<file, pos, open, fpos, buf, buffer_len, last_segment, io_age, stuck_age,
                       pc, read_len, read_more, unsent_lines, stopping, waited, received, lost>>
    BY <1>8, <2>8 DEF ScanByte, ages, history
  <2>9. /\ lines' \in Seq(Line)
        /\ \A k \in DOMAIN lines' : (k \in DOMAIN lines /\ lines'[k] = lines[k]) \/ (lines'[k] = l /\ cur_buf_pos' = i + 1)
        /\ lines' = <<>> => UNCHANGED <<lines, cur_buf_pos>>
    <3>1. lines \in Seq(Line)
      BY DEF TypeOK, LineTypes
    <3>2. CASE lines' = Append(lines, l) /\ cur_buf_pos' = i + 1
      BY <3>1, <3>2, <2>8, AppendToSequence
    <3>3. CASE UNCHANGED <<lines, cur_buf_pos>>
      BY <3>1, <3>3
    <3> QED BY <2>0, <3>2, <3>3
  <2>10. cur_buf_pos' \in {cur_buf_pos, i + 1} /\ cur_buf_pos <= cur_buf_pos'
    BY <2>0 DEF TypeOK, NumberTypes
  <2>11. /\ open /\ pos <= buf + cur_buf_pos
         /\ lines' = lines \/ l.to <= buf' + cur_buf_pos'
    BY <2>0, <2>8 DEF TypeOK, NumberTypes, Shape
  <2>12. buf \in Nat /\ buf' \in Nat /\ cur_buf_pos \in Nat /\ cur_buf_pos' \in Nat /\ pos \in Nat
    BY <2>0, <2>8, <2>10, <2>11 DEF TypeOK, NumberTypes
  <2>13. UNCHANGED <<pos, buf>>
    BY <2>0
  <2>1. LineTypes'
    BY <2>0, <2>8, <2>9, <2>10, <2>11 DEF TypeOK, LineTypes, NumberTypes
  <2>2. NumberTypes'
    BY <2>0, <2>8, <2>9, <2>10, <2>11 DEF TypeOK, LineTypes, NumberTypes, Shape
  <2>3. FlagTypes'
    BY <2>0 DEF TypeOK, NumberTypes, FlagTypes, PC
  <2>4. Shape'
    BY <2>0, <2>8, <2>9, <2>10, <2>11, <1>0 DEF TypeOK, NumberTypes, Shape
  <2>5. Resume'
    BY <2>0, <2>8, <2>9, <2>10, <2>11 DEF TypeOK, NumberTypes, Shape, Resume
  <2>6. Straight(lines)'
    <3> SUFFICES ASSUME NEW k \in DOMAIN lines'
                 PROVE  /\ lines'[k].to <= buf' + cur_buf_pos'
                        /\ lines'[k].to <= pos' \/ pos' <= lines'[k].from
      BY DEF Straight
    <3>1. CASE k \in DOMAIN lines /\ lines'[k] = lines[k]
      <4>1. lines[k].to \in Nat /\ lines[k].from \in Nat
        BY <3>1, LineEnds DEF TypeOK, LineTypes
      <4>2. /\ lines[k].to <= buf + cur_buf_pos
            /\ lines[k].to <= pos \/ pos <= lines[k].from
        BY <3>1 DEF Straight
      <4>3. pos' = pos /\ buf' = buf /\ cur_buf_pos <= cur_buf_pos'
        BY <2>10, <2>13
      <4> QED BY <3>1, <4>1, <4>2, <4>3, <2>12
    <3>2. CASE lines'[k] = l /\ cur_buf_pos' = i + 1
      BY <3>2, <2>0, <2>8, <2>11, <2>12 DEF TypeOK, NumberTypes
    <3> QED BY <2>9, <3>1, <3>2
  <2>7. Straight(unsent_lines)'
    BY <2>0, <2>8, <2>9, <2>10, <2>11 DEF TypeOK, LineTypes, NumberTypes, Shape, Straight
  <2> QED BY <2>1, <2>2, <2>3, <2>4, <2>5, <2>6, <2>7 DEF TypeOK
<1>9. CASE EndScan
  <2>1. LineTypes'
    BY <1>9 DEF EndScan, history, TypeOK, LineTypes, NumberTypes
  <2>2. NumberTypes'
    BY <1>9 DEF EndScan, history, TypeOK, LineTypes, NumberTypes, Shape
  <2>3. FlagTypes'
    BY <1>9 DEF EndScan, history, TypeOK, NumberTypes, FlagTypes, PC
  <2>4. Shape'
    BY <1>9 DEF EndScan, history, TypeOK, LineTypes, NumberTypes, Shape
  <2>5. Resume'
    BY <1>9 DEF EndScan, history, TypeOK, LineTypes, NumberTypes, Shape, Resume
  <2>6. Straight(lines)'
    BY <1>9 DEF EndScan, history, TypeOK, LineTypes, NumberTypes, Shape, Straight
  <2>7. Straight(unsent_lines)'
    BY <1>9 DEF EndScan, history, TypeOK, LineTypes, NumberTypes, Shape, Straight
  <2> QED BY <2>1, <2>2, <2>3, <2>4, <2>5, <2>6, <2>7 DEF TypeOK
<1>10. CASE SendLines
  <2>0. /\ pc = "send" /\ pc' = "sent" /\ lines # <<>> /\ receiveLines
        /\ UNCHANGED <<file, pos, open, fpos, buf, buffer_len, last_segment, lines, stuck_age,
                       i, cur_buf_pos, read_len, read_more, stopping, waited, lost>>
    BY <1>10 DEF SendLines, code
  <2>8. /\ io_age' = 0 /\ unsent_lines' \in Seq(Line) /\ received' \subseteq Line
        /\ \A k \in DOMAIN unsent_lines' : \E j \in DOMAIN lines : unsent_lines'[k] = lines[j]
    BY <2>0, ReceiveLinesTypes DEF TypeOK, LineTypes
  <2>1. LineTypes'
    BY <2>0, <2>8 DEF TypeOK, LineTypes
  <2>2. NumberTypes'
    BY <2>0, <2>8 DEF TypeOK, NumberTypes
  <2>3. FlagTypes'
    BY <2>0 DEF TypeOK, FlagTypes, PC
  <2>4. Shape'
    BY <2>0 DEF Shape
  <2>5. Resume'
    BY <2>0 DEF Resume
  <2>6. Straight(lines)'
    BY <2>0 DEF Straight
  <2>7. Straight(unsent_lines)'
    BY <2>0, <2>8 DEF Straight
  <2> QED BY <2>1, <2>2, <2>3, <2>4, <2>5, <2>6, <2>7 DEF TypeOK
<1>11. CASE NothingToSend
  <2> DEFINE rest == lines
  <2>8. /\ pc = "send" /\ i = 0 /\ cur_buf_pos = 0 /\ open
        /\ buf + buffer_len = fpos /\ pos <= buf /\ pos = buf
    BY <1>11 DEF NothingToSend, Shape, Resume, TypeOK, NumberTypes
  <2>0. /\ pc' \in {"idle", "read"} /\ read_more' \in BOOLEAN
        /\ stopping' \in BOOLEAN /\ open' \in BOOLEAN
        /\ open' => lines' = rest /\ buffer_len' = buffer_len
        /\ ~open' => /\ lines' = <<>> /\ buffer_len' = 0
                     /\ pc' = "idle" /\ ~stopping'
        /\ lost' \in {lost, lost \cup Range(rest)}
        /\ pos' = pos /\ unsent_lines' = <<>>
        /\ UNCHANGED <<file, fpos, buf, last_segment, io_age, stuck_age, i, cur_buf_pos,
                       read_len, waited, received>>
    BY <1>11, <2>8 DEF NothingToSend, LoopOrReturn, startLoop, Return, ages, TypeOK, FlagTypes, Shape
  <2>9. buffer_len' \in {0, buffer_len} /\ pos' = buf /\ rest \in Seq(Line)
    BY <2>0, <2>8 DEF TypeOK, LineTypes, NumberTypes
  <2>1. LineTypes'
    BY <2>0, <2>8, <2>9, RangeOfLines, EmptySequence DEF TypeOK, LineTypes, NumberTypes
  <2>2. NumberTypes'
    BY <2>0, <2>8, <2>9 DEF TypeOK, LineTypes, NumberTypes, Shape
  <2>3. FlagTypes'
    BY <2>0 DEF TypeOK, NumberTypes, FlagTypes, PC
  <2>4. Shape'
    <3>1. pos' <= Len(file') /\ buf' = buf
      BY <2>0, <2>8, <2>9, <1>0 DEF TypeOK, NumberTypes
    <3>2. open' => buf' + buffer_len' = fpos' /\ pos' <= buf'
      BY <2>0, <2>8, <2>9 DEF TypeOK, NumberTypes
    <3>3. i' = 0 /\ cur_buf_pos' = 0 /\ unsent_lines' = <<>>
      BY <2>0, <2>8
    <3>4. /\ ~open' => lines' = <<>> /\ buffer_len' = 0 /\ ~stopping'
          /\ pc' # "idle" => open'
      BY <2>0
    <3> QED BY <3>1, <3>2, <3>3, <3>4 DEF Shape
  <2>5. Resume'
    BY <2>0, <2>8, <2>9 DEF TypeOK, NumberTypes, Shape, Resume
  <2>6. Straight(lines)'
    <3> SUFFICES ASSUME NEW k \in DOMAIN lines'
                 PROVE  /\ lines'[k].to <= buf' + cur_buf_pos'
                        /\ lines'[k].to <= pos' \/ pos' <= lines'[k].from
      BY DEF Straight
    <3>1. open' /\ k \in DOMAIN rest /\ lines'[k] = rest[k]
      BY <2>0
    <3>2. rest[k].to \in Nat /\ rest[k].from \in Nat
      BY <3>1, <2>9, LineEnds
    <3>3. rest[k].to <= buf + cur_buf_pos
      BY <3>1 DEF Straight
    <3> QED BY <2>0, <2>8, <2>9, <3>1, <3>2, <3>3 DEF TypeOK, NumberTypes
  <2>7. Straight(unsent_lines)'
    BY <2>0, <2>8, <2>9 DEF TypeOK, LineTypes, NumberTypes, Shape, Straight
  <2> QED BY <2>1, <2>2, <2>3, <2>4, <2>5, <2>6, <2>7 DEF TypeOK
<1>12. CASE RecordSent
  <2> DEFINE rest == unsent_lines
  <2>8. /\ pc = "sent" /\ i = 0 /\ cur_buf_pos = 0 /\ open
        /\ buf + buffer_len = fpos /\ pos <= buf
    BY <1>12 DEF RecordSent, Shape, Resume, TypeOK, NumberTypes
  <2>0. /\ pc' \in {"idle", "read"} /\ read_more' \in BOOLEAN
        /\ stopping' \in BOOLEAN /\ open' \in BOOLEAN
        /\ open' => lines' = rest /\ buffer_len' = buffer_len
        /\ ~open' => /\ lines' = <<>> /\ buffer_len' = 0
                     /\ pc' = "idle" /\ ~stopping'
        /\ lost' \in {lost, lost \cup Range(rest)}
        /\ pos' = fpos - buffer_len /\ unsent_lines' = <<>>
        /\ UNCHANGED <<file, fpos, buf, last_segment, io_age, stuck_age, i, cur_buf_pos,
                       read_len, waited, received>>
    BY <1>12, <2>8 DEF RecordSent, LoopOrReturn, startLoop, Return, recordedPos, ages, TypeOK, FlagTypes, Shape
  <2>9. buffer_len' \in {0, buffer_len} /\ pos' = buf /\ rest \in Seq(Line)
    BY <2>0, <2>8 DEF TypeOK, LineTypes, NumberTypes
  <2>1. LineTypes'
    BY <2>0, <2>8, <2>9, RangeOfLines, EmptySequence DEF TypeOK, LineTypes, NumberTypes
  <2>2. NumberTypes'
    BY <2>0, <2>8, <2>9 DEF TypeOK, LineTypes, NumberTypes, Shape
  <2>3. FlagTypes'
    BY <2>0 DEF TypeOK, NumberTypes, FlagTypes, PC
  <2>4. Shape'
    <3>1. pos' <= Len(file') /\ buf' = buf
      BY <2>0, <2>8, <2>9, <1>0 DEF TypeOK, NumberTypes
    <3>2. open' => buf' + buffer_len' = fpos' /\ pos' <= buf'
      BY <2>0, <2>8, <2>9 DEF TypeOK, NumberTypes
    <3>3. i' = 0 /\ cur_buf_pos' = 0 /\ unsent_lines' = <<>>
      BY <2>0, <2>8
    <3>4. /\ ~open' => lines' = <<>> /\ buffer_len' = 0 /\ ~stopping'
          /\ pc' # "idle" => open'
      BY <2>0
    <3> QED BY <3>1, <3>2, <3>3, <3>4 DEF Shape
  <2>5. Resume'
    BY <2>0, <2>8, <2>9 DEF TypeOK, NumberTypes, Shape, Resume
  <2>6. Straight(lines)'
    <3> SUFFICES ASSUME NEW k \in DOMAIN lines'
                 PROVE  /\ lines'[k].to <= buf' + cur_buf_pos'
                        /\ lines'[k].to <= pos' \/ pos' <= lines'[k].from
      BY DEF Straight
    <3>1. open' /\ k \in DOMAIN rest /\ lines'[k] = rest[k]
      BY <2>0
    <3>2. rest[k].to \in Nat /\ rest[k].from \in Nat
      BY <3>1, <2>9, LineEnds
    <3>3. rest[k].to <= buf + cur_buf_pos
      BY <3>1 DEF Straight
    <3> QED BY <2>0, <2>8, <2>9, <3>1, <3>2, <3>3 DEF TypeOK, NumberTypes
  <2>7. Straight(unsent_lines)'
    BY <2>0, <2>8, <2>9 DEF TypeOK, LineTypes, NumberTypes, Shape, Straight
  <2> QED BY <2>1, <2>2, <2>3, <2>4, <2>5, <2>6, <2>7 DEF TypeOK
<1>13. CASE Reopen
  <2>1. LineTypes'
    BY <1>13 DEF Reopen, locals, history, TypeOK, LineTypes, NumberTypes
  <2>2. NumberTypes'
    BY <1>13 DEF Reopen, locals, history, TypeOK, LineTypes, NumberTypes, Shape
  <2>3. FlagTypes'
    BY <1>13 DEF Reopen, locals, history, TypeOK, NumberTypes, FlagTypes, PC
  <2>4. Shape'
    BY <1>13 DEF Reopen, locals, history, TypeOK, LineTypes, NumberTypes, Shape
  <2>5. Resume'
    BY <1>13 DEF Reopen, locals, history, TypeOK, LineTypes, NumberTypes, Shape, Resume
  <2>6. Straight(lines)'
    BY <1>13 DEF Reopen, locals, history, TypeOK, LineTypes, NumberTypes, Shape, Straight
  <2>7. Straight(unsent_lines)'
    BY <1>13 DEF Reopen, locals, history, TypeOK, LineTypes, NumberTypes, Shape, Straight
  <2> QED BY <2>1, <2>2, <2>3, <2>4, <2>5, <2>6, <2>7 DEF TypeOK
<1>14. CASE Crash
  <2>0. Pending \subseteq Line
    BY RangeOfLines DEF Pending, TypeOK, LineTypes
  <2>1. LineTypes'
    BY <1>14, <2>0, EmptySequence DEF Crash, ages, TypeOK, LineTypes, NumberTypes
  <2>2. NumberTypes'
    BY <1>14 DEF Crash, ages, TypeOK, LineTypes, NumberTypes, Shape
  <2>3. FlagTypes'
    BY <1>14 DEF Crash, ages, TypeOK, NumberTypes, FlagTypes, PC
  <2>4. Shape'
    BY <1>14 DEF Crash, ages, TypeOK, LineTypes, NumberTypes, Shape
  <2>5. Resume'
    BY <1>14 DEF Crash, ages, TypeOK, LineTypes, NumberTypes, Shape, Resume
  <2>6. Straight(lines)'
    BY <1>14 DEF Crash, ages, TypeOK, LineTypes, NumberTypes, Shape, Straight
  <2>7. Straight(unsent_lines)'
    BY <1>14 DEF Crash, ages, TypeOK, LineTypes, NumberTypes, Shape, Straight
  <2> QED BY <2>1, <2>2, <2>3, <2>4, <2>5, <2>6, <2>7 DEF TypeOK
<1>15. CASE Write
  <2>1. LineTypes'
    BY <1>15, AppendToSequence DEF Write, code, ages, locals, history, TypeOK, LineTypes, NumberTypes, Byte
  <2>2. NumberTypes'
    BY <1>15, AppendToSequence DEF Write, code, ages, locals, history, TypeOK, LineTypes, NumberTypes, Shape
  <2>3. FlagTypes'
    BY <1>15 DEF Write, code, ages, locals, history, TypeOK, NumberTypes, FlagTypes, PC
  <2>4. Shape'
    BY <1>15, AppendToSequence DEF Write, code, ages, locals, history, TypeOK, LineTypes, NumberTypes, Shape
  <2>5. Resume'
    BY <1>15, AppendToSequence DEF Write, code, ages, locals, history, TypeOK, LineTypes, NumberTypes, Shape, Resume
  <2>6. Straight(lines)'
    BY <1>15, AppendToSequence DEF Write, code, ages, locals, history, TypeOK, LineTypes, NumberTypes, Shape, Straight
  <2>7. Straight(unsent_lines)'
    BY <1>15, AppendToSequence DEF Write, code, ages, locals, history, TypeOK, LineTypes, NumberTypes, Shape, Straight
  <2> QED BY <2>1, <2>2, <2>3, <2>4, <2>5, <2>6, <2>7 DEF TypeOK
<1>16. CASE Tick
  <2>1. LineTypes'
    BY <1>16 DEF Tick, Older, code, locals, history, TypeOK, LineTypes, NumberTypes
  <2>2. NumberTypes'
    BY <1>16 DEF Tick, Older, code, locals, history, TypeOK, LineTypes, NumberTypes, Shape
  <2>3. FlagTypes'
    BY <1>16 DEF Tick, Older, code, locals, history, TypeOK, NumberTypes, FlagTypes, PC
  <2>4. Shape'
    BY <1>16 DEF Tick, Older, code, locals, history, TypeOK, LineTypes, NumberTypes, Shape
  <2>5. Resume'
    BY <1>16 DEF Tick, Older, code, locals, history, TypeOK, LineTypes, NumberTypes, Shape, Resume
  <2>6. Straight(lines)'
    BY <1>16 DEF Tick, Older, code, locals, history, TypeOK, LineTypes, NumberTypes, Shape, Straight
  <2>7. Straight(unsent_lines)'
    BY <1>16 DEF Tick, Older, code, locals, history, TypeOK, LineTypes, NumberTypes, Shape, Straight
  <2> QED BY <2>1, <2>2, <2>3, <2>4, <2>5, <2>6, <2>7 DEF TypeOK
<1>17. CASE SetClockBack
  <2>1. LineTypes'
    BY <1>17 DEF SetClockBack, code, locals, history, TypeOK, LineTypes, NumberTypes
  <2>2. NumberTypes'
    BY <1>17 DEF SetClockBack, code, locals, history, TypeOK, LineTypes, NumberTypes, Shape
  <2>3. FlagTypes'
    BY <1>17 DEF SetClockBack, code, locals, history, TypeOK, NumberTypes, FlagTypes, PC
  <2>4. Shape'
    BY <1>17 DEF SetClockBack, code, locals, history, TypeOK, LineTypes, NumberTypes, Shape
  <2>5. Resume'
    BY <1>17 DEF SetClockBack, code, locals, history, TypeOK, LineTypes, NumberTypes, Shape, Resume
  <2>6. Straight(lines)'
    BY <1>17 DEF SetClockBack, code, locals, history, TypeOK, LineTypes, NumberTypes, Shape, Straight
  <2>7. Straight(unsent_lines)'
    BY <1>17 DEF SetClockBack, code, locals, history, TypeOK, LineTypes, NumberTypes, Shape, Straight
  <2> QED BY <2>1, <2>2, <2>3, <2>4, <2>5, <2>6, <2>7 DEF TypeOK
<1>18. CASE UNCHANGED vars
  <2>1. LineTypes'
    BY <1>18 DEF vars, code, locals, ages, history, TypeOK, LineTypes, NumberTypes
  <2>2. NumberTypes'
    BY <1>18 DEF vars, code, locals, ages, history, TypeOK, LineTypes, NumberTypes, Shape
  <2>3. FlagTypes'
    BY <1>18 DEF vars, code, locals, ages, history, TypeOK, NumberTypes, FlagTypes, PC
  <2>4. Shape'
    BY <1>18 DEF vars, code, locals, ages, history, TypeOK, LineTypes, NumberTypes, Shape
  <2>5. Resume'
    BY <1>18 DEF vars, code, locals, ages, history, TypeOK, LineTypes, NumberTypes, Shape, Resume
  <2>6. Straight(lines)'
    BY <1>18 DEF vars, code, locals, ages, history, TypeOK, LineTypes, NumberTypes, Shape, Straight
  <2>7. Straight(unsent_lines)'
    BY <1>18 DEF vars, code, locals, ages, history, TypeOK, LineTypes, NumberTypes, Shape, Straight
  <2> QED BY <2>1, <2>2, <2>3, <2>4, <2>5, <2>6, <2>7 DEF TypeOK
<1> QED BY <1>1, <1>2, <1>3, <1>4, <1>5, <1>6, <1>7, <1>8, <1>9, <1>10, <1>11, <1>12,
           <1>13, <1>14, <1>15, <1>16, <1>17, <1>18 DEF Next, OnNotify
-----------------------------------------------------------------------------
\* The type invariant: for every size of the batch, of a line and of the
\* buffer, onNotify keeps m_buffer_len within the buffer and the recorded
\* position and the read position within the file.
THEOREM TypeCorrect == Spec => []TypeOK
<1>1. IInv => TypeOK
  BY DEF IInv
<1> QED BY <1>1, InitInv, NextInv, PTL DEF Spec

\* Whenever onNotify is not running, the position it has recorded is where the
\* lines it has cut end.
THEOREM ResumesAtBoundaryAlways == Spec => []ResumesAtBoundary
<1>1. IInv => ResumesAtBoundary
  BY DEF IInv, ResumesAtBoundary, Resume, Shape
<1> QED BY <1>1, InitInv, NextInv, PTL DEF Spec

-----------------------------------------------------------------------------
\* What is accounted for stays so when no line is dropped and the boundary does
\* not advance ...
LEMMA StillCovered ==
    ASSUME NoByteSkipped, Boundary \in Nat, Boundary' \in Nat, Boundary' <= Boundary,
           received \cup lost \cup Pending
               \subseteq received' \cup lost' \cup Pending'
    PROVE  NoByteSkipped'
<1> DEFINE from == Boundary
           to   == Boundary'
<1>1. from \in Nat /\ to \in Nat /\ to <= from
  OBVIOUS
<1> HIDE DEF from, to
<1>2. \A b \in 0..(to - 1) : b \in 0..(from - 1)
  BY <1>1
<1>3. \A b \in 0..(to - 1) :
          \E l \in received' \cup lost' \cup Pending' : Covers(l, b)
  BY <1>2 DEF NoByteSkipped, from
<1> QED BY <1>3 DEF NoByteSkipped, Covers, to

\* ... and when a line l is cut that begins at the boundary and ends at the new
\* one.
LEMMA CoveredByNewLine ==
    ASSUME NoByteSkipped, Boundary \in Nat, Boundary' \in Nat, NEW l \in Line,
           l.from = Boundary, l.to = Boundary', l \in Pending',
           received \cup lost \cup Pending
               \subseteq received' \cup lost' \cup Pending'
    PROVE  NoByteSkipped'
<1> DEFINE from == Boundary
           to   == Boundary'
<1>1. from \in Nat /\ to \in Nat /\ l.from = from /\ l.to = to
  OBVIOUS
<1> HIDE DEF from, to
<1>2. ASSUME NEW b \in 0..(to - 1)
      PROVE  \E m \in received' \cup lost' \cup Pending' : Covers(m, b)
  <2>1. CASE b < from
    <3>1. b \in 0..(from - 1)
      BY <1>1, <2>1
    <3> QED BY <3>1 DEF NoByteSkipped, from
  <2>2. CASE from <= b
    <3>1. Covers(l, b)
      BY <1>1, <2>2 DEF Covers
    <3> QED BY <3>1
  <2> QED BY <1>1, <2>1, <2>2
<1> QED BY <1>2 DEF NoByteSkipped, Covers, to

\* The lines of a batch after one more was cut.
LEMMA RangeOfAppend ==
    ASSUME NEW s \in Seq(Line), NEW l \in Line
    PROVE  Range(Append(s, l)) = Range(s) \cup {l}
<1>1. /\ DOMAIN Append(s, l) = 1..(Len(s) + 1) /\ DOMAIN s = 1..Len(s)
      /\ \A k \in 1..Len(s) : Append(s, l)[k] = s[k]
      /\ Append(s, l)[Len(s) + 1] = l /\ Len(s) \in Nat
  BY AppendToSequence
<1>2. \A k \in 1..(Len(s) + 1) : k \in 1..Len(s) \/ k = Len(s) + 1
  BY <1>1
<1>3. Len(s) + 1 \in 1..(Len(s) + 1) /\ \A k \in 1..Len(s) : k \in 1..(Len(s) + 1)
  BY <1>1
<1> QED BY <1>1, <1>2, <1>3, Zenon DEF Range

\* The lines that receive_func leaves and those it takes are all of m_lines.
LEMMA ReceivedOrUnsent ==
    ASSUME lines \in Seq(Line), receiveLines
    PROVE  /\ Range(lines) \subseteq received' \cup Range(unsent_lines')
           /\ received \subseteq received'
<1>1. PICK kept \in Selections(Len(lines)) :
          /\ unsent_lines' = queueFull(kept)
          /\ received' = received \cup {lines[k] : k \in (1..Len(lines)) \ Range(kept)}
  BY DEF receiveLines
<1>2. ASSUME NEW k \in DOMAIN lines
      PROVE  lines[k] \in received' \cup Range(unsent_lines')
  <2>1. CASE k \in Range(kept)
    <3>1. PICK j \in DOMAIN kept : kept[j] = k
      BY <2>1 DEF Range
    <3>2. j \in DOMAIN queueFull(kept) /\ queueFull(kept)[j] = lines[k]
      BY <3>1 DEF queueFull
    <3> QED BY <3>2, <1>1 DEF Range
  <2>2. CASE k \notin Range(kept)
    BY <1>1, <2>2
  <2> QED BY <2>1, <2>2
<1> QED BY <1>1, <1>2 DEF Range

\* A step neither skips a byte nor drops a line that is not accounted for.
LEMMA NextCovered ==
    ASSUME IInv, IInv', NoByteSkipped, [Next]_vars
    PROVE  NoByteSkipped'
<1>0. /\ Boundary \in Nat /\ Boundary' \in Nat
      /\ lines \in Seq(Line) /\ unsent_lines \in Seq(Line)
  <2>1. Boundary \in Nat
    BY DEF IInv, TypeOK, NumberTypes, Boundary
  <2>2. Boundary' \in Nat
    <3>1. pos' \in Nat /\ buf' \in Nat
      BY DEF IInv, TypeOK, NumberTypes
    <3>2. cur_buf_pos' \in Nat
      BY DEF IInv, TypeOK, NumberTypes
    <3>3. Boundary' = pos' \/ Boundary' = buf' + cur_buf_pos'
      BY DEF Boundary
    <3> QED BY <3>1, <3>2, <3>3
  <2> QED BY <2>1, <2>2 DEF IInv, TypeOK, LineTypes
<1>1. CASE Notify \/ Stop \/ NothingToResend \/ Write \/ Tick \/ SetClockBack \/ UNCHANGED vars
  BY <1>0, <1>1, StillCovered DEF Notify, Stop, NothingToResend, Write, Tick, SetClockBack,
     vars, code, locals, history, Boundary, Pending, IInv, Shape
<1>2. CASE HandleUncleanedBuffer
  <2> DEFINE l == [from |-> buf, to |-> buf + buffer_len, cut |-> "stuck"]
  <2>1. /\ open /\ open' /\ cur_buf_pos = 0 /\ cur_buf_pos' = 0
        /\ received' = received /\ lost' = lost
        /\ Pending = Range(lines) /\ Pending' = Range(lines')
    BY <1>2 DEF HandleUncleanedBuffer, locals, history, Pending, IInv, Shape
  <2>2. CASE takeStuck
    <3>1. l \in Line /\ l.from = buf /\ l.to = buf + buffer_len
      BY DEF IInv, TypeOK, NumberTypes, Line
    <3>2. lines' = Append(lines, l) /\ buf' = buf + buffer_len
      BY <1>2, <2>2 DEF HandleUncleanedBuffer
    <3> HIDE DEF l
    <3>3. Range(lines') = Range(lines) \cup {l}
      BY <1>0, <3>1, <3>2, RangeOfAppend
    <3>4. l.from = Boundary /\ l.to = Boundary'
      BY <2>1, <3>1, <3>2 DEF Boundary, IInv, TypeOK, NumberTypes
    <3> QED BY <1>0, <2>1, <3>1, <3>3, <3>4, CoveredByNewLine
  <2>3. CASE ~takeStuck
    <3>1. lines' = lines /\ buf' = buf
      BY <1>2, <2>3 DEF HandleUncleanedBuffer
    <3> QED BY <1>0, <2>1, <3>1, StillCovered DEF Boundary
  <2> QED BY <2>2, <2>3
<1>3. CASE ResendLines \/ SendLines
  <2>1. /\ Pending = Range(lines) /\ Pending' = Range(unsent_lines')
        /\ Boundary' = Boundary /\ lost' = lost
    BY <1>3 DEF ResendLines, SendLines, code, Boundary, Pending
  <2>2. Range(lines) \subseteq received' \cup Range(unsent_lines') /\ received \subseteq received'
    BY <1>0, <1>3, ReceivedOrUnsent DEF ResendLines, SendLines
  <2> QED BY <1>0, <2>1, <2>2, StillCovered
<1>4. CASE RecordResent \/ RecordSent
  <2>1. /\ Pending = Range(unsent_lines) /\ open /\ cur_buf_pos = 0 /\ cur_buf_pos' = 0
        /\ pos' = fpos - buffer_len /\ buf' = buf /\ received' = received
        /\ buf + buffer_len = fpos
    BY <1>4 DEF RecordResent, RecordSent, recordedPos, Pending, IInv, Shape
  <2>2. /\ pc' \in {"idle", "read"}
        /\ \/ lines' = unsent_lines /\ lost' = lost
           \/ lines' = <<>> /\ lost' = lost \cup Range(unsent_lines)
    BY <1>4 DEF RecordResent, RecordSent, LoopOrReturn, Return
  <2>3. pos' = buf
    BY <2>1 DEF IInv, TypeOK, NumberTypes
  <2>4. Boundary' = Boundary
    BY <2>1, <2>3 DEF Boundary, IInv, TypeOK, NumberTypes
  <2>5. Pending' = Range(lines')
    BY <2>2 DEF Pending
  <2> QED BY <1>0, <2>1, <2>2, <2>4, <2>5, StillCovered
<1>5. CASE NothingToSend
  <2>1. /\ Pending = Range(lines) /\ lines = <<>> /\ lines' = <<>> /\ pc' \in {"idle", "read"}
        /\ received' = received /\ lost' \in {lost, lost \cup Range(lines)}
    BY <1>5 DEF NothingToSend, LoopOrReturn, Return, Pending
  <2>2. Pending' = Range(lines')
    BY <2>1 DEF Pending
  <2>3. Boundary' <= Boundary
    <3>1. pos <= buf + cur_buf_pos /\ open /\ pos' = pos /\ buf' = buf /\ cur_buf_pos' = cur_buf_pos
      BY <1>5 DEF NothingToSend, IInv, Shape, TypeOK, NumberTypes
    <3>2. Boundary = buf + cur_buf_pos /\ Boundary' \in {Boundary, pos}
      BY <3>1 DEF Boundary
    <3> QED BY <1>0, <3>1, <3>2
  <2> QED BY <1>0, <2>1, <2>2, <2>3, StillCovered
<1>6. CASE ReadChunk \/ EndScan
  <2>1. /\ lines' = lines /\ received' = received /\ lost' = lost /\ open /\ open'
        /\ \/ cur_buf_pos = 0 /\ cur_buf_pos' = 0 /\ buf' = buf
           \/ buf' = buf + cur_buf_pos /\ cur_buf_pos' = 0
    BY <1>6 DEF ReadChunk, EndScan, history, IInv, Shape
  <2>3. Boundary' = Boundary
    BY <1>0, <2>1 DEF Boundary
  <2>2. Pending = Range(lines) /\ Pending' = Range(lines')
    BY <1>6 DEF ReadChunk, EndScan, Pending
  <2> QED BY <1>0, <2>1, <2>2, <2>3, StillCovered
<1>7. CASE ScanByte
  <2> DEFINE l(why) == [from |-> buf + cur_buf_pos, to |-> buf + i + 1, cut |-> why]
  <2>1. /\ open /\ open' /\ buf' = buf /\ received' = received /\ lost' = lost
        /\ Pending = Range(lines) /\ Pending' = Range(lines')
    BY <1>7 DEF ScanByte, history, Pending, IInv, Shape
  <2>2. ASSUME NEW why \in {"delimiter", "max"},
               lines' = Append(lines, l(why)), cur_buf_pos' = i + 1
        PROVE  NoByteSkipped'
    <3>1. l(why) \in Line /\ l(why).from = buf + cur_buf_pos /\ l(why).to = buf + i + 1
      BY DEF IInv, TypeOK, NumberTypes, Line
    <3>2. lines' = Append(lines, l(why))
      BY <2>2
    <3> HIDE DEF l
    <3>3. Range(lines') = Range(lines) \cup {l(why)}
      BY <1>0, <3>1, <3>2, RangeOfAppend
    <3>4. l(why).from = Boundary /\ l(why).to = Boundary'
      BY <2>1, <2>2, <3>1 DEF Boundary, IInv, TypeOK, NumberTypes
    <3> QED BY <1>0, <2>1, <3>1, <3>3, <3>4, CoveredByNewLine
  <2>3. CASE UNCHANGED <<lines, cur_buf_pos>>
    BY <1>0, <2>1, <2>3, StillCovered DEF Boundary
  <2> QED BY <1>7, <2>2, <2>3 DEF ScanByte, cutHere, nextLine
<1>8. CASE Reopen
  <2>1. /\ ~open /\ open' /\ buf' = pos /\ cur_buf_pos' = 0
        /\ received' = received /\ lost' = lost /\ Pending' = Pending
    BY <1>8 DEF Reopen, locals, history, Pending, IInv, Shape
  <2> QED BY <1>0, <2>1, StillCovered DEF Boundary, IInv, TypeOK, NumberTypes
<1>9. CASE Crash
  <2>1. /\ open /\ ~open' /\ pos' = pos /\ received' = received
        /\ lost' = lost \cup {l \in Pending : l.to <= pos}
        /\ pos <= buf + cur_buf_pos
    BY <1>9 DEF Crash, IInv, Shape, TypeOK, NumberTypes
  <2>2. pos \in Nat /\ Boundary' = pos /\ pos <= Boundary
    BY <2>1 DEF Boundary, IInv, TypeOK, NumberTypes
  <2>3. \A l \in Pending : l \in Line /\ (l.to <= pos \/ pos <= l.from)
    BY <1>0, RangeOfLines DEF Pending, Range, IInv, Straight
  <2>4. ASSUME NEW b \in 0..(pos - 1)
        PROVE  \E l \in received' \cup lost' \cup Pending' : Covers(l, b)
    <3>1. PICK l \in received \cup lost \cup Pending : Covers(l, b)
      <4>1. b \in 0..(Boundary - 1)
        BY <1>0, <2>2
      <4> QED BY <4>1 DEF NoByteSkipped
    <3>2. CASE l \in Pending
      <4>1. l.from \in Nat /\ l.to \in Nat /\ l.from <= b
        BY <2>3, <3>1, <3>2 DEF Line, Covers
      <4>2. l.to <= pos
        BY <2>2, <2>3, <3>2, <4>1
      <4> QED BY <2>1, <3>1, <3>2, <4>2
    <3> QED BY <2>1, <3>1, <3>2
  <2> QED BY <2>2, <2>4 DEF NoByteSkipped, Covers
<1> QED BY <1>1, <1>2, <1>3, <1>4, <1>5, <1>6, <1>7, <1>8, <1>9 DEF Next, OnNotify
\* No byte of the log file is skipped: for every file, every size of the batch,
\* of a line and of the buffer, and whatever crashes, is stopped and reopened,
\* a byte before the boundary was handed over, waits, or was given up with a
\* handler that held its line.
THEOREM NoByteSkippedAlways == Spec => []NoByteSkipped
<1>1. Init => NoByteSkipped
  BY DEF Init, NoByteSkipped, Boundary
<1>2. IInv /\ IInv' /\ NoByteSkipped /\ [Next]_vars => NoByteSkipped'
  BY NextCovered
<1> QED BY <1>1, <1>2, InitInv, NextInv, PTL DEF Spec
-----------------------------------------------------------------------------
(***************************************************************************)
(* What a step can do to the lines: seven kinds of steps, from which the   *)
(* order of the lines, that they are handed over once, and the refinement  *)
(* of LogDelivery follow without looking at the actions again.             *)
(***************************************************************************)

\* The lines, the boundary and the position stay.
Quiet ==
    /\ UNCHANGED <<lines, unsent_lines, received, lost, pos>>
    /\ Pending' = Pending /\ Boundary' = Boundary

\* A line is cut that begins at the boundary.
CutLine(l) ==
    /\ Len(lines) < MaxLineAtOnce
    /\ l.from = Boundary /\ l.to = Boundary' /\ l.from < l.to /\ l.to <= fpos
    /\ lines' = Append(lines, l) /\ unsent_lines' = <<>> /\ unsent_lines = <<>>
    /\ Pending = Range(lines) /\ Pending' = Pending \cup {l}
    /\ UNCHANGED <<file, received, lost, pos>>

\* receive_func takes some of the lines.
Take ==
    /\ receiveLines
    /\ Pending = Range(lines) /\ Pending' = Range(unsent_lines')
    /\ UNCHANGED <<file, lines, lost, pos>> /\ Boundary' = Boundary

\* The position is recorded, and what was not taken becomes m_lines.
KeepUnsent ==
    /\ lines' = unsent_lines /\ unsent_lines' = <<>>
    /\ Pending' = Pending
    /\ UNCHANGED <<file, received, lost>>
    /\ Boundary' = Boundary /\ pos' = Boundary

\* The position is recorded, and the handler closed with what it has left.
GiveUp ==
    /\ lines' = <<>> /\ unsent_lines' = <<>>
    /\ Pending' = {} /\ lost' = lost \cup Pending
    /\ UNCHANGED <<file, received>>
    /\ Boundary' = Boundary /\ pos' = Boundary

\* The process is killed.
Killed ==
    /\ "crash" \in Faults
    /\ lines' = <<>> /\ unsent_lines' = <<>>
    /\ Pending' = {} /\ lost' = lost \cup {l \in Pending : l.to <= pos}
    /\ UNCHANGED <<file, received, pos>>
    /\ Boundary' = pos

\* What a variable of the state that IInv describes can be.
LEMMA Numbers ==
    ASSUME IInv
    PROVE  /\ pos \in Nat /\ buf \in Nat /\ fpos \in Nat /\ buffer_len \in Nat
           /\ i \in Nat /\ cur_buf_pos \in Nat /\ Len(file) \in Nat /\ fpos <= Len(file)
           /\ i <= buffer_len /\ cur_buf_pos <= i /\ read_len \in Nat
           /\ lines \in Seq(Line) /\ unsent_lines \in Seq(Line) /\ file \in Seq(Byte)
           /\ received \subseteq Line /\ lost \subseteq Line /\ Pending \subseteq Line
           /\ Boundary \in Nat
<1>1. /\ lines \in Seq(Line) /\ unsent_lines \in Seq(Line) /\ file \in Seq(Byte)
      /\ received \subseteq Line /\ lost \subseteq Line
  BY DEF IInv, TypeOK, LineTypes
<1>2. Pending \subseteq Line
  BY <1>1, RangeOfLines DEF Pending
<1>3. Len(file) \in Nat
  BY <1>1
<1>4. /\ pos \in Nat /\ buf \in Nat /\ fpos \in Nat /\ buffer_len \in Nat
      /\ i \in Nat /\ cur_buf_pos \in Nat /\ fpos <= Len(file)
      /\ i <= buffer_len /\ cur_buf_pos <= i /\ read_len \in Nat
  BY <1>3, ConfigAssumption DEF IInv, TypeOK, NumberTypes
<1>5. Boundary \in Nat
  BY <1>4 DEF Boundary
<1> QED BY <1>1, <1>2, <1>3, <1>4, <1>5

\* Every step is of one of these kinds, or the writer appends to the file.
LEMMA StepKinds ==
    ASSUME IInv, [Next]_vars
    PROVE  \/ Quiet /\ file' = file
           \/ Quiet /\ Write
           \/ \E l \in Line : CutLine(l)
           \/ Take \/ KeepUnsent \/ GiveUp \/ Killed
<1>0. /\ pos \in Nat /\ buf \in Nat /\ fpos \in Nat /\ buffer_len \in Nat
      /\ i \in Nat /\ cur_buf_pos \in Nat /\ i <= buffer_len /\ cur_buf_pos <= i
      /\ lines \in Seq(Line) /\ unsent_lines \in Seq(Line)
  BY Numbers
<1>1. CASE Notify \/ Stop \/ NothingToResend \/ Tick \/ SetClockBack \/ UNCHANGED vars
  BY <1>1 DEF Notify, Stop, NothingToResend, Tick, SetClockBack, Quiet,
     vars, code, locals, history, Boundary, Pending, IInv, Shape
<1>2. CASE Write
  BY <1>2 DEF Write, Quiet, code, locals, history, Boundary, Pending
<1>3. CASE HandleUncleanedBuffer
  <2> DEFINE l == [from |-> buf, to |-> buf + buffer_len, cut |-> "stuck"]
  <2>1. /\ open /\ open' /\ cur_buf_pos = 0 /\ cur_buf_pos' = 0
        /\ UNCHANGED <<file, received, lost, pos, unsent_lines>> /\ unsent_lines = <<>>
        /\ Pending = Range(lines) /\ Pending' = Range(lines') /\ buf + buffer_len = fpos
    BY <1>3 DEF HandleUncleanedBuffer, locals, history, Pending, IInv, Shape
  <2>2. CASE takeStuck
    <3>1. l \in Line /\ l.from = buf /\ l.to = buf + buffer_len
      BY <1>0 DEF Line
    <3>2. lines' = Append(lines, l) /\ buf' = buf + buffer_len
      BY <1>3, <2>2 DEF HandleUncleanedBuffer
    <3> HIDE DEF l
    <3>3. Range(lines') = Range(lines) \cup {l}
      BY <1>0, <3>1, <3>2, RangeOfAppend
    <3>4. l.from = Boundary /\ l.to = Boundary' /\ l.from < l.to /\ l.to <= fpos
      BY <1>0, <2>1, <2>2, <3>1, <3>2 DEF Boundary, takeStuck
    <3>5. CutLine(l)
      BY <2>1, <2>2, <3>2, <3>3, <3>4 DEF CutLine, takeStuck
    <3> QED BY <3>1, <3>5
  <2>3. CASE ~takeStuck
    <3>1. lines' = lines /\ buf' = buf
      BY <1>3, <2>3 DEF HandleUncleanedBuffer
    <3> QED BY <2>1, <3>1 DEF Boundary, Quiet
  <2> QED BY <2>2, <2>3
<1>4. CASE ResendLines \/ SendLines
  BY <1>4 DEF ResendLines, SendLines, code, Boundary, Pending, Take
<1>5. CASE RecordResent \/ RecordSent
  <2>1. /\ Pending = Range(unsent_lines) /\ open /\ cur_buf_pos = 0 /\ cur_buf_pos' = 0
        /\ pos' = fpos - buffer_len /\ buf' = buf /\ received' = received /\ file' = file
        /\ buf + buffer_len = fpos /\ unsent_lines' = <<>>
    BY <1>5 DEF RecordResent, RecordSent, recordedPos, Pending, IInv, Shape
  <2>2. /\ pc' \in {"idle", "read"}
        /\ \/ lines' = unsent_lines /\ lost' = lost
           \/ lines' = <<>> /\ lost' = lost \cup Range(unsent_lines)
    BY <1>5 DEF RecordResent, RecordSent, LoopOrReturn, Return
  <2>3. pos' = buf /\ Boundary = buf
    BY <1>0, <2>1 DEF Boundary
  <2>4. Boundary' = Boundary
    BY <1>0, <2>1, <2>3 DEF Boundary
  <2>5. Pending' = Range(lines')
    BY <2>2 DEF Pending
  <2>6. CASE lines' = unsent_lines /\ lost' = lost
    BY <2>1, <2>3, <2>4, <2>5, <2>6 DEF KeepUnsent
  <2>7. CASE lines' = <<>> /\ lost' = lost \cup Range(unsent_lines)
    <3>1. Pending' = {}
      BY <2>5, <2>7 DEF Range
    <3> QED BY <2>1, <2>3, <2>4, <2>7, <3>1 DEF GiveUp
  <2> QED BY <2>2, <2>6, <2>7
<1>6. CASE NothingToSend
  <2>1. /\ Pending = Range(lines) /\ lines = <<>> /\ lines' = <<>> /\ pc' \in {"idle", "read"}
        /\ received' = received /\ lost' \in {lost, lost \cup Range(lines)}
        /\ UNCHANGED <<file, pos, unsent_lines, buf, cur_buf_pos>> /\ unsent_lines = <<>>
        /\ pos = buf + cur_buf_pos /\ open
    BY <1>6 DEF NothingToSend, LoopOrReturn, Return, Pending, IInv, Shape, Resume
  <2>2. Range(lines) = {} /\ Pending' = {}
    BY <2>1 DEF Pending, Range
  <2>3. Boundary' = Boundary
    BY <2>1 DEF Boundary
  <2> QED BY <2>1, <2>2, <2>3 DEF Quiet
<1>7. CASE ReadChunk \/ EndScan
  <2>1. /\ UNCHANGED <<file, lines, received, lost, pos, unsent_lines>> /\ open /\ open'
        /\ \/ cur_buf_pos = 0 /\ cur_buf_pos' = 0 /\ buf' = buf
           \/ buf' = buf + cur_buf_pos /\ cur_buf_pos' = 0
    BY <1>7 DEF ReadChunk, EndScan, history, IInv, Shape
  <2>2. Pending' = Pending
    BY <1>7, <2>1 DEF ReadChunk, EndScan, Pending
  <2>3. Boundary' = Boundary
    BY <1>0, <2>1 DEF Boundary
  <2> QED BY <2>1, <2>2, <2>3 DEF Quiet
<1>8. CASE ScanByte
  <2> DEFINE l(why) == [from |-> buf + cur_buf_pos, to |-> buf + i + 1, cut |-> why]
  <2>1. /\ open /\ open' /\ buf' = buf /\ i < buffer_len /\ Len(lines) < MaxLineAtOnce
        /\ UNCHANGED <<file, received, lost, pos, unsent_lines>> /\ unsent_lines = <<>>
        /\ Pending = Range(lines) /\ Pending' = Range(lines') /\ buf + buffer_len = fpos
    BY <1>8 DEF ScanByte, history, Pending, IInv, Shape
  <2>2. ASSUME NEW why \in {"delimiter", "max"},
               lines' = Append(lines, l(why)), cur_buf_pos' = i + 1
        PROVE  \E m \in Line : CutLine(m)
    <3>1. l(why) \in Line /\ l(why).from = buf + cur_buf_pos /\ l(why).to = buf + i + 1
      BY <1>0 DEF Line
    <3>2. lines' = Append(lines, l(why))
      BY <2>2
    <3> HIDE DEF l
    <3>3. Range(lines') = Range(lines) \cup {l(why)}
      BY <1>0, <3>1, <3>2, RangeOfAppend
    <3>4. /\ l(why).from = Boundary /\ l(why).to = Boundary'
          /\ l(why).from < l(why).to /\ l(why).to <= fpos
      BY <1>0, <2>1, <2>2, <3>1 DEF Boundary
    <3>5. CutLine(l(why))
      BY <2>1, <3>2, <3>3, <3>4 DEF CutLine
    <3> QED BY <3>1, <3>5
  <2>3. CASE UNCHANGED <<lines, cur_buf_pos>>
    BY <2>1, <2>3 DEF Boundary, Quiet
  <2> QED BY <1>8, <2>2, <2>3 DEF ScanByte, cutHere, nextLine
<1>9. CASE Reopen
  <2>1. /\ ~open /\ open' /\ buf' = pos /\ cur_buf_pos' = 0 /\ pos' = pos
        /\ UNCHANGED <<file, lines, unsent_lines, received, lost>> /\ Pending' = Pending
    BY <1>9 DEF Reopen, locals, history, Pending, IInv, Shape
  <2> QED BY <1>0, <2>1 DEF Boundary, Quiet
<1>10. CASE Crash
  BY <1>10 DEF Crash, Killed, Boundary, Pending, Range
<1> QED BY <1>1, <1>2, <1>3, <1>4, <1>5, <1>6, <1>7, <1>8, <1>9, <1>10 DEF Next, OnNotify
-----------------------------------------------------------------------------
\* The lines of a vector follow one another in the file.
InOrder(s) == \A a, b \in DOMAIN s : a < b => s[a].to <= s[b].from

Batch ==
    /\ Len(lines) <= MaxLineAtOnce /\ Len(unsent_lines) <= MaxLineAtOnce
    /\ InOrder(lines) /\ InOrder(unsent_lines)

\* A line cut at the boundary comes after those that wait.
LEMMA AppendInOrder ==
    ASSUME NEW s \in Seq(Line), InOrder(s), NEW l \in Line,
           \A k \in DOMAIN s : s[k].to <= l.from
    PROVE  InOrder(Append(s, l))
<1>1. /\ DOMAIN Append(s, l) = 1..(Len(s) + 1) /\ DOMAIN s = 1..Len(s)
      /\ \A k \in 1..Len(s) : Append(s, l)[k] = s[k]
      /\ Append(s, l)[Len(s) + 1] = l /\ Len(s) \in Nat
  BY AppendToSequence
<1> SUFFICES ASSUME NEW a \in 1..(Len(s) + 1), NEW b \in 1..(Len(s) + 1), a < b
             PROVE  Append(s, l)[a].to <= Append(s, l)[b].from
  BY <1>1 DEF InOrder
<1>2. a \in 1..Len(s) /\ (b \in 1..Len(s) \/ b = Len(s) + 1)
  BY <1>1
<1> QED BY <1>1, <1>2 DEF InOrder

\* What librdkafka refuses stays in the order of the file, and is no more.
LEMMA UnsentInOrder ==
    ASSUME lines \in Seq(Line), InOrder(lines), receiveLines
    PROVE  InOrder(unsent_lines') /\ Len(unsent_lines') <= Len(lines)
<1>1. PICK kept \in Selections(Len(lines)) : unsent_lines' = queueFull(kept)
  BY DEF receiveLines
<1>2. PICK n \in 0..Len(lines) :
          /\ kept \in [1..n -> 1..Len(lines)]
          /\ \A a, b \in 1..n : a < b => kept[a] < kept[b]
  BY DEF Selections
<1>3. DOMAIN unsent_lines' = 1..n /\ \A k \in 1..n : unsent_lines'[k] = lines[kept[k]]
  BY <1>1, <1>2 DEF queueFull
<1>4. \A k \in 1..n : kept[k] \in DOMAIN lines
  BY <1>2
<1>5. InOrder(unsent_lines')
  BY <1>2, <1>3, <1>4 DEF InOrder
<1>6. unsent_lines' \in Seq(Line) /\ Len(lines) \in Nat /\ n <= Len(lines)
  BY <1>1, QueueFullLines
<1>7. Len(unsent_lines') = n
  BY <1>3, <1>6
<1> QED BY <1>5, <1>6, <1>7

\* A step keeps the lines in order.
LEMMA NextBatch ==
    ASSUME IInv, Batch, [Next]_vars
    PROVE  Batch'
<1>0. /\ lines \in Seq(Line) /\ unsent_lines \in Seq(Line) /\ MaxLineAtOnce \in Nat
      /\ Len(lines) \in Nat /\ Len(unsent_lines) \in Nat /\ Boundary \in Nat
  BY Numbers, ConfigAssumption
<1>e. Len(<<>>) = 0 /\ InOrder(<<>>)
  BY EmptySequence DEF InOrder
<1>1. CASE Quiet
  BY <1>1 DEF Quiet, Batch, InOrder
<1>2. ASSUME NEW l \in Line, CutLine(l) PROVE Batch'
  <2>1. /\ lines' = Append(lines, l) /\ Len(lines) < MaxLineAtOnce
        /\ unsent_lines' = <<>> /\ l.from = Boundary /\ Pending = Range(lines)
        /\ l.from < l.to /\ l.to <= fpos
    BY <1>2 DEF CutLine
  <2>2. Len(lines') = Len(lines) + 1
    BY <1>0, <2>1, AppendToSequence
  <2>3. lines # <<>> => open
    BY DEF IInv, Shape
  <2>4. \A k \in DOMAIN lines : lines[k].to <= l.from
    BY <1>0, <2>1, <2>3, EmptySequence DEF IInv, Straight, Boundary
  <2>5. InOrder(lines')
    BY <1>0, <2>1, <2>4, AppendInOrder DEF Batch
  <2> QED BY <1>0, <1>e, <2>1, <2>2, <2>5 DEF Batch, InOrder
<1>3. CASE Take
  <2>1. InOrder(unsent_lines') /\ Len(unsent_lines') <= Len(lines) /\ lines' = lines
    BY <1>0, <1>3, UnsentInOrder DEF Take, Batch
  <2>2. unsent_lines' \in Seq(Line)
    BY <1>0, <1>3, ReceiveLinesTypes, Numbers DEF Take
  <2>3. Len(unsent_lines') \in Nat
    BY <2>2
  <2> QED BY <1>0, <2>1, <2>3 DEF Batch, InOrder
<1>4. CASE KeepUnsent
  BY <1>0, <1>4, <1>e DEF KeepUnsent, Batch, InOrder
<1>5. CASE GiveUp \/ Killed
  BY <1>0, <1>5, <1>e DEF GiveUp, Killed, Batch, InOrder
<1> QED BY <1>1, <1>2, <1>3, <1>4, <1>5, StepKinds

\* A batch never has more lines than the task's batchsize, and they are in the
\* order of the file, whatever was refused and resent (io_handler.cc:112-236).
THEOREM BatchInOrderAlways == Spec => []BatchInOrder
<1>1. Init => Batch
  BY EmptySequence, ConfigAssumption DEF Init, Batch, InOrder
<1>2. IInv /\ Batch /\ [Next]_vars => Batch'
  BY NextBatch
<1>3. Batch => BatchInOrder
  BY DEF Batch, InOrder, BatchInOrder
<1> QED BY <1>1, <1>2, <1>3, InitInv, NextInv, PTL DEF Spec
-----------------------------------------------------------------------------
\* No delimiter among the n bytes from offset a.
Plain(a, n) == \A b \in a..(a + n - 1) : file[b + 1] # "delimiter"

\* What the scan has passed without cutting it, and what a complete scan has
\* left in the buffer: no delimiter, and less than a line may have.
Clean ==
    /\ i - cur_buf_pos < LineMaxBytes
    /\ pc = "scan" => Plain(buf + cur_buf_pos, i - cur_buf_pos)
    /\ open /\ last_segment /\ pc # "scan" =>
           buffer_len < LineMaxBytes /\ Plain(buf, buffer_len)

\* The bytes that are in the file stay when the writer appends.
LEMMA PlainStays ==
    ASSUME file \in Seq(Byte), NEW a \in Nat, NEW n \in Int, Plain(a, n), a + n <= Len(file),
           Write
    PROVE  \A b \in a..(a + n - 1) : file'[b + 1] # "delimiter"
<1>1. PICK c \in Byte : file' = Append(file, c)
  BY DEF Write
<1>2. \A k \in 1..Len(file) : file'[k] = file[k]
  BY <1>1, AppendToSequence
<1>3. \A b \in a..(a + n - 1) : b + 1 \in 1..Len(file)
  OBVIOUS
<1> QED BY <1>2, <1>3 DEF Plain

\* A step of the scan, and every other step, keeps the buffer clean.
LEMMA NextClean ==
    ASSUME IInv, Clean, [Next]_vars
    PROVE  Clean'
<1>0. /\ pos \in Nat /\ buf \in Nat /\ fpos \in Nat /\ buffer_len \in Nat
      /\ i \in Nat /\ cur_buf_pos \in Nat /\ i <= buffer_len /\ cur_buf_pos <= i
      /\ file \in Seq(Byte) /\ Len(file) \in Nat /\ fpos <= Len(file)
      /\ LineMaxBytes \in Nat \ {0} /\ BufferMaxBytes \in Nat
  BY Numbers, ConfigAssumption
<1>a. open => buf + buffer_len = fpos
  BY DEF IInv, Shape
<1>1. CASE Notify \/ Stop \/ NothingToResend \/ Tick \/ SetClockBack \/ UNCHANGED vars
           \/ ResendLines \/ SendLines
  <2>1. /\ UNCHANGED <<file, open, buf, buffer_len, last_segment, i, cur_buf_pos>>
        /\ pc = "scan" <=> pc' = "scan"
    BY <1>1 DEF Notify, Stop, NothingToResend, Tick, SetClockBack, ResendLines, SendLines,
       vars, code, locals
  <2> QED BY <2>1 DEF Clean, Plain
<1>2. CASE Write
  <2>1. UNCHANGED <<open, buf, buffer_len, last_segment, i, cur_buf_pos, pc>>
    BY <1>2 DEF Write, code, locals
  <2>2. ASSUME pc = "scan" PROVE Plain(buf + cur_buf_pos, i - cur_buf_pos)'
    <3>1. Plain(buf + cur_buf_pos, i - cur_buf_pos) /\ open
      BY <2>2 DEF Clean, IInv, Shape
    <3>2. (buf + cur_buf_pos) + (i - cur_buf_pos) <= Len(file)
      BY <1>0, <1>a, <3>1
    <3> DEFINE x == buf + cur_buf_pos
               y == i - cur_buf_pos
    <3>3. Plain(x, y) /\ x + y <= Len(file) /\ x \in Nat /\ y \in Int /\ x' = x /\ y' = y
      BY <1>0, <2>1, <3>1, <3>2
    <3>4. \A b \in x..(x + y - 1) : file'[b + 1] # "delimiter"
      <4> HIDE DEF x, y
      <4> QED BY <1>0, <1>2, <3>3, PlainStays
    <3> QED BY <2>1, <3>4 DEF Plain
  <2>3. ASSUME open, last_segment, pc # "scan" PROVE Plain(buf, buffer_len)'
    <3>1. Plain(buf, buffer_len) /\ buf + buffer_len <= Len(file)
      BY <1>0, <1>a, <2>3 DEF Clean
    <3>2. \A b \in buf..(buf + buffer_len - 1) : file'[b + 1] # "delimiter"
      BY <1>0, <1>2, <3>1, PlainStays
    <3> QED BY <2>1, <3>2 DEF Plain
  <2> QED BY <2>1, <2>2, <2>3 DEF Clean
<1>3. CASE HandleUncleanedBuffer
  <2>1. /\ UNCHANGED <<file, open, last_segment, i, cur_buf_pos>>
        /\ buffer_len' = 0 \/ UNCHANGED <<buf, buffer_len>>
        /\ pc # "scan" /\ pc' # "scan"
    BY <1>3 DEF HandleUncleanedBuffer, locals
  <2>2. CASE buffer_len' = 0
    <3>0. buf' \in Nat
      BY <1>0, <1>3 DEF HandleUncleanedBuffer
    <3>1. \A n \in Nat : n..(n + 0 - 1) = {}
      OBVIOUS
    <3>2. \A b \in buf'..(buf' + buffer_len' - 1) : FALSE
      BY <2>2, <3>0, <3>1
    <3> QED BY <1>0, <2>1, <2>2, <3>2 DEF Clean, Plain
  <2> QED BY <2>1, <2>2 DEF Clean, Plain
<1>4. CASE RecordResent \/ RecordSent \/ NothingToSend
  <2>1. /\ UNCHANGED <<file, buf, last_segment, i, cur_buf_pos>>
        /\ pc # "scan" /\ pc' # "scan" /\ open
        /\ open' => buffer_len' = buffer_len
    BY <1>4 DEF RecordResent, RecordSent, NothingToSend, LoopOrReturn, Return, IInv, Shape
  <2> QED BY <2>1 DEF Clean, Plain
<1>5. CASE ReadChunk
  <2>1. /\ i' = 0 /\ cur_buf_pos' = 0 /\ buf' = buf /\ file' = file
        /\ last_segment' => buffer_len' = 0
        /\ buf \in Nat
    BY <1>0, <1>5 DEF ReadChunk
  <2>2. buf..(buf + 0 - 1) = {} /\ (buf + 0)..((buf + 0) + (0 - 0) - 1) = {}
    BY <1>0
  <2> QED BY <1>0, <2>1, <2>2 DEF Clean, Plain
<1>6. CASE ScanByte
  <2>1. /\ i' = i + 1 /\ pc = "scan" /\ pc' = "scan" /\ UNCHANGED <<file, buf>>
        /\ \/ cur_buf_pos' = i + 1
           \/ /\ cur_buf_pos' = cur_buf_pos /\ file[buf + i + 1] # "delimiter"
              /\ i + 1 - cur_buf_pos < LineMaxBytes
    BY <1>0, <1>6 DEF ScanByte, cutHere, nextLine, tooLong, cur_line_len
  <2>2. CASE cur_buf_pos' = i + 1
    <3>1. (buf + (i + 1))..((buf + (i + 1)) + ((i + 1) - (i + 1)) - 1) = {}
      BY <1>0
    <3> QED BY <1>0, <2>1, <2>2, <3>1 DEF Clean, Plain
  <2>3. CASE /\ cur_buf_pos' = cur_buf_pos /\ file[buf + i + 1] # "delimiter"
             /\ i + 1 - cur_buf_pos < LineMaxBytes
    <3>1. ASSUME NEW b \in (buf + cur_buf_pos)..((buf + cur_buf_pos) + ((i + 1) - cur_buf_pos) - 1)
          PROVE  file[b + 1] # "delimiter"
      <4>1. b = buf + i \/ b \in (buf + cur_buf_pos)..((buf + cur_buf_pos) + (i - cur_buf_pos) - 1)
        BY <1>0
      <4>2. CASE b = buf + i
        BY <2>3, <4>2
      <4> QED BY <2>1, <4>1, <4>2 DEF Clean, Plain
    <3> QED BY <1>0, <2>1, <2>3, <3>1 DEF Clean, Plain
  <2> QED BY <2>1, <2>2, <2>3
<1>7. CASE EndScan
  <2>1. /\ i' = 0 /\ cur_buf_pos' = 0 /\ pc = "scan" /\ pc' # "scan" /\ file' = file
        /\ last_segment' => i = buffer_len
        /\ buf' = buf + cur_buf_pos /\ buffer_len' = buffer_len - cur_buf_pos
    BY <1>7 DEF EndScan
  <2> QED BY <1>0, <2>1 DEF Clean, Plain
<1>8. CASE Reopen
  BY <1>8 DEF Reopen, locals, Clean, IInv, Shape
<1>9. CASE Crash
  BY <1>0, <1>9 DEF Crash, Clean
<1> QED BY <1>1, <1>2, <1>3, <1>4, <1>5, <1>6, <1>7, <1>8, <1>9 DEF Next, OnNotify

\* A complete scan leaves less in the buffer than the longest line: for every
\* limit that config.cc accepts there is room for the next fread.
THEOREM BufferNeverWedgesAlways == Spec => []BufferNeverWedges
<1>1. Init => Clean
  BY ConfigAssumption DEF Init, Clean
<1>2. IInv /\ Clean /\ [Next]_vars => Clean'
  BY NextClean
<1>3. IInv /\ Clean => BufferNeverWedges
  BY Numbers, ConfigAssumption DEF Clean, BufferNeverWedges
<1> QED BY <1>1, <1>2, <1>3, InitInv, NextInv, PTL DEF Spec
-----------------------------------------------------------------------------
\* All the lines of which it is known what became of them.
AllLines == received \cup lost \cup Pending

\* What LinesAreCutRight says of one line.
CutRight(l) ==
    /\ l.from < l.to /\ l.to <= Len(file)
    /\ \A b \in l.from..(l.to - 2) : file[b + 1] # "delimiter"
    /\ (l.cut = "delimiter") = (file[l.to] = "delimiter")
    /\ l.to - l.from <= LineMaxBytes
    /\ l.cut = "max" => l.to - l.from = LineMaxBytes

\* A buffer that is stuck is a partial line.
LEMMA StuckLineCutRight ==
    ASSUME IInv, Clean, HandleUncleanedBuffer, takeStuck
    PROVE  CutRight([from |-> buf, to |-> buf + buffer_len, cut |-> "stuck"])
<1>0. /\ buf \in Nat /\ fpos \in Nat /\ buffer_len \in Nat
      /\ Len(file) \in Nat /\ fpos <= Len(file) /\ LineMaxBytes \in Nat
  BY Numbers, ConfigAssumption
<1>1. /\ buf + buffer_len = fpos /\ buffer_len < LineMaxBytes /\ buffer_len # 0
      /\ Plain(buf, buffer_len)
  BY DEF HandleUncleanedBuffer, takeStuck, Clean, IInv, Shape
<1>2. \A b \in buf..(buf + buffer_len - 2) : file[b + 1] # "delimiter"
  <2>1. \A b \in buf..(buf + buffer_len - 2) : b \in buf..(buf + buffer_len - 1)
    BY <1>0
  <2> QED BY <1>1, <2>1 DEF Plain
<1>3. file[buf + buffer_len] # "delimiter"
  <2>1. /\ buf + buffer_len - 1 \in buf..(buf + buffer_len - 1)
        /\ (buf + buffer_len - 1) + 1 = buf + buffer_len
    BY <1>0, <1>1
  <2> QED BY <1>1, <2>1 DEF Plain
<1> DEFINE l == [from |-> buf, to |-> buf + buffer_len, cut |-> "stuck"]
<1>4. l.from = buf /\ l.to = buf + buffer_len /\ l.cut = "stuck"
  OBVIOUS
<1> HIDE DEF l
<1>5. CutRight(l)
  BY <1>0, <1>1, <1>2, <1>3, <1>4 DEF CutRight
<1> QED BY <1>5 DEF l

\* The scan cuts at the first delimiter or at the length limit.
LEMMA ScannedLineCutRight ==
    ASSUME IInv, Clean, ScanByte, NEW why \in {"delimiter", "max"},
           (why = "delimiter") = (file[buf + i + 1] = "delimiter"),
           why = "max" => tooLong
    PROVE  CutRight([from |-> buf + cur_buf_pos, to |-> buf + i + 1, cut |-> why])
<1>0. /\ buf \in Nat /\ fpos \in Nat /\ buffer_len \in Nat
      /\ i \in Nat /\ cur_buf_pos \in Nat /\ i < buffer_len /\ cur_buf_pos <= i
      /\ Len(file) \in Nat /\ fpos <= Len(file) /\ LineMaxBytes \in Nat
  BY Numbers, ConfigAssumption DEF ScanByte
<1>1. /\ buf + buffer_len = fpos /\ i - cur_buf_pos < LineMaxBytes
      /\ Plain(buf + cur_buf_pos, i - cur_buf_pos)
  BY DEF ScanByte, Clean, IInv, Shape
<1>2. \A b \in (buf + cur_buf_pos)..(buf + i + 1 - 2) : file[b + 1] # "delimiter"
  <2>1. \A b \in (buf + cur_buf_pos)..(buf + i + 1 - 2) :
            b \in (buf + cur_buf_pos)..((buf + cur_buf_pos) + (i - cur_buf_pos) - 1)
    BY <1>0
  <2> QED BY <1>1, <2>1 DEF Plain
<1> DEFINE l == [from |-> buf + cur_buf_pos, to |-> buf + i + 1, cut |-> why]
<1>4. l.from = buf + cur_buf_pos /\ l.to = buf + i + 1 /\ l.cut = why
  OBVIOUS
<1> HIDE DEF l
<1>3. l.cut = "max" => l.to - l.from >= LineMaxBytes
  BY <1>0, <1>4 DEF tooLong, cur_line_len
<1>5. CutRight(l)
  BY <1>0, <1>1, <1>2, <1>3, <1>4 DEF CutRight
<1> QED BY <1>5 DEF l

\* The line that a step adds to m_lines is cut right.
LEMMA NewLineCutRight ==
    ASSUME IInv, Clean, [Next]_vars, NEW l \in Line, CutLine(l)
    PROVE  CutRight(l)
<1>0. lines \in Seq(Line)
  BY Numbers
<1>1. /\ lines' = Append(lines, l) /\ unsent_lines = <<>>
      /\ Len(lines') = Len(lines) + 1 /\ lines'[Len(lines) + 1] = l
      /\ lines' # <<>> /\ lines' # lines
  BY <1>0, AppendToSequence DEF CutLine
<1>2. HandleUncleanedBuffer \/ ScanByte
  BY <1>1 DEF Next, OnNotify, vars, code, Notify, Stop, ResendLines, NothingToResend,
     RecordResent, ReadChunk, EndScan, SendLines, NothingToSend, RecordSent, LoopOrReturn,
     Return, Reopen, Crash, Write, Tick, SetClockBack
<1>3. ASSUME NEW m \in Line, lines' = Append(lines, m) PROVE m = l
  BY <1>0, <1>1, <1>3, AppendToSequence
<1>4. CASE HandleUncleanedBuffer
  <2>1. takeStuck /\ lines' = Append(lines, [from |-> buf, to |-> buf + buffer_len, cut |-> "stuck"])
    BY <1>1, <1>4 DEF HandleUncleanedBuffer
  <2>2. [from |-> buf, to |-> buf + buffer_len, cut |-> "stuck"] \in Line
    BY Numbers DEF Line
  <2> QED BY <1>3, <1>4, <2>1, <2>2, StuckLineCutRight
<1>5. CASE ScanByte
  <2> DEFINE m(why) == [from |-> buf + cur_buf_pos, to |-> buf + i + 1, cut |-> why]
  <2>1. PICK why \in {"delimiter", "max"} :
            /\ (why = "delimiter") = (file[buf + i + 1] = "delimiter")
            /\ why = "max" => tooLong
            /\ lines' = Append(lines, m(why))
    BY <1>1, <1>5 DEF ScanByte, cutHere
  <2>2. m(why) \in Line
    BY Numbers DEF Line
  <2> QED BY <1>3, <1>5, <2>1, <2>2, ScannedLineCutRight
<1> QED BY <1>2, <1>4, <1>5

\* A line that was cut right stays so: the writer only appends.
LEMMA StaysCutRight ==
    ASSUME file \in Seq(Byte), NEW l \in Line, CutRight(l), file' = file \/ Write
    PROVE  CutRight(l)'
<1>0. l.from \in Nat /\ l.to \in Nat /\ Len(file) \in Nat
  BY DEF Line
<1>1. CASE file' = file
  BY <1>1 DEF CutRight
<1>2. CASE Write
  <2>1. PICK c \in Byte : file' = Append(file, c)
    BY <1>2 DEF Write
  <2>2. Len(file') = Len(file) + 1 /\ \A k \in 1..Len(file) : file'[k] = file[k]
    BY <2>1, AppendToSequence
  <2>3. l.to \in 1..Len(file) /\ \A b \in l.from..(l.to - 2) : b + 1 \in 1..Len(file)
    BY <1>0 DEF CutRight
  <2> QED BY <1>0, <2>2, <2>3 DEF CutRight
<1> QED BY <1>1, <1>2

\* Every line of the state after a step is a line of the state before, or the
\* one that was cut.
LEMMA WhereLinesComeFrom ==
    ASSUME IInv, [Next]_vars
    PROVE  \A l \in AllLines' : l \in AllLines \/ (l \in Line /\ CutLine(l))
<1>0. lines \in Seq(Line) /\ received \subseteq Line
  BY Numbers
<1>1. CASE Quiet \/ KeepUnsent \/ GiveUp \/ Killed
  BY <1>1 DEF Quiet, KeepUnsent, GiveUp, Killed, AllLines
<1>2. ASSUME NEW l \in Line, CutLine(l)
      PROVE  \A m \in AllLines' : m \in AllLines \/ m = l
  BY <1>2 DEF CutLine, AllLines
<1>3. CASE Take
  <2>1. PICK kept \in Selections(Len(lines)) :
          /\ unsent_lines' = queueFull(kept)
          /\ received' = received \cup {lines[k] : k \in (1..Len(lines)) \ Range(kept)}
    BY <1>3 DEF Take, receiveLines
  <2>2. Range(unsent_lines') \subseteq Range(lines)
    BY <1>0, <2>1, QueueFullLines DEF Range
  <2>3. received' \subseteq received \cup Range(lines)
    BY <1>0, <2>1 DEF Range
  <2> QED BY <1>3, <2>2, <2>3 DEF Take, AllLines
<1> QED BY <1>1, <1>2, <1>3, StepKinds

\* The step of LinesAreCutRight.
LEMMA NextCutRight ==
    ASSUME IInv, Clean, [Next]_vars, \A l \in AllLines : CutRight(l)
    PROVE  (\A l \in AllLines : CutRight(l))'
<1>0. file \in Seq(Byte) /\ AllLines \subseteq Line
  BY Numbers DEF AllLines
<1>1. file' = file \/ Write
  BY StepKinds DEF CutLine, Take, KeepUnsent, GiveUp, Killed
<1>2. ASSUME NEW l \in AllLines' PROVE CutRight(l)'
  <2>1. l \in Line /\ CutRight(l)
    BY <1>0, WhereLinesComeFrom, NewLineCutRight
  <2>2. CutRight(l)'
    BY <1>0, <1>1, <2>1, StaysCutRight
  <2> QED BY <2>2
<1> QED BY <1>2

\* A message is one line of the file, or LineMaxBytes of it: for every
\* delimiter, wherever the file is cut by fread, whatever the buffer's size,
\* and also for the line that is taken from a stuck buffer.
THEOREM LinesAreCutRightAlways == Spec => []LinesAreCutRight
<1> DEFINE Right == \A l \in AllLines : CutRight(l)
<1>1. Init => Clean /\ Right
  BY ConfigAssumption DEF Init, Clean, AllLines, Pending, Range
<1>2. IInv /\ Clean /\ Right /\ [Next]_vars => Clean' /\ Right'
  BY NextClean, NextCutRight
<1>3. Right => LinesAreCutRight
  BY DEF AllLines, CutRight, LinesAreCutRight
<1> HIDE DEF Right
<1> QED BY <1>1, <1>2, <1>3, InitInv, NextInv, PTL DEF Spec
-----------------------------------------------------------------------------
Apart(k, m) == k = m \/ k.to <= m.from \/ m.to <= k.from

\* Without a crash the boundary never goes back, so that a new line is behind
\* all the others.
Once ==
    /\ \A l \in AllLines : l.from < l.to /\ l.to <= Boundary
    /\ \A k, m \in AllLines : Apart(k, m)
    /\ received \cap (lost \cup Pending) = {} /\ lost \cap Pending = {}

\* What receive_func takes it does not leave as well: no two lines of m_lines
\* are the same.
LEMMA TakenNotKept ==
    ASSUME lines \in Seq(Line), InOrder(lines), received \cap Range(lines) = {},
           \A k \in DOMAIN lines : lines[k].from < lines[k].to, receiveLines
    PROVE  received' \cap Range(unsent_lines') = {}
<1>1. PICK kept \in Selections(Len(lines)) :
          /\ unsent_lines' = queueFull(kept)
          /\ received' = received \cup {lines[k] : k \in (1..Len(lines)) \ Range(kept)}
  BY DEF receiveLines
<1>2. \A j, k \in DOMAIN lines : lines[j] = lines[k] => j = k
  <2> SUFFICES ASSUME NEW j \in DOMAIN lines, NEW k \in DOMAIN lines, lines[j] = lines[k]
               PROVE  j = k
    OBVIOUS
  <2>1. /\ lines[j].from \in Nat /\ lines[j].to \in Nat /\ lines[j].from < lines[j].to
        /\ j \in Nat /\ k \in Nat
    BY LineEnds
  <2>2. ~(j < k) /\ ~(k < j)
    BY <2>1 DEF InOrder
  <2> QED BY <2>1, <2>2
<1>3. ASSUME NEW a \in DOMAIN unsent_lines' PROVE unsent_lines'[a] \notin received'
  <2>1. /\ kept[a] \in DOMAIN lines /\ unsent_lines'[a] = lines[kept[a]]
        /\ kept[a] \in Range(kept)
    <3>1. a \in DOMAIN kept
      BY <1>1, <1>3 DEF queueFull
    <3> QED BY <1>1, <1>3, <3>1, QueueFullLines DEF Range
  <2>2. lines[kept[a]] \notin received
    BY <2>1 DEF Range
  <2>3. \A k \in (1..Len(lines)) \ Range(kept) : lines[k] # lines[kept[a]]
    BY <1>2, <2>1
  <2> QED BY <1>1, <2>1, <2>2, <2>3
<1> QED BY <1>3 DEF Range

\* A step that is not a crash hands over no byte a second time.
LEMMA NextOnce ==
    ASSUME IInv, Batch, Once, [Next]_vars, "crash" \notin Faults
    PROVE  Once'
<1>0. /\ lines \in Seq(Line) /\ received \subseteq Line /\ AllLines \subseteq Line
      /\ Boundary \in Nat
  BY Numbers DEF AllLines
<1>1. CASE Quiet
  BY <1>1 DEF Quiet, Once, AllLines
<1>2. ASSUME NEW l \in Line, CutLine(l) PROVE Once'
  <2>1. /\ AllLines' = AllLines \cup {l} /\ received' = received
        /\ lost' \cup Pending' = (lost \cup Pending) \cup {l}
        /\ l.from = Boundary /\ l.to = Boundary' /\ l.from < l.to
    BY <1>2 DEF CutLine, AllLines
  <2>2. l.to \in Nat /\ \A k \in AllLines : k.from \in Nat /\ k.to \in Nat
    BY <1>0 DEF Line
  <2>3. \A k \in AllLines : k.to <= l.from
    BY <2>1 DEF Once
  <2>4. l \notin AllLines
    BY <1>0, <2>1, <2>2, <2>3
  <2>5. \A k \in AllLines : k.from < k.to /\ k.to <= Boundary'
    BY <1>0, <2>1, <2>2, <2>3 DEF Once
  <2>6. \A k, m \in AllLines' : Apart(k, m)
    BY <2>1, <2>3 DEF Once, Apart
  <2>7. received' \cap (lost' \cup Pending') = {} /\ lost' \cap Pending' = {}
    BY <1>2, <2>1, <2>4 DEF CutLine, Once, AllLines
  <2>8. \A k \in AllLines' : k.from < k.to /\ k.to <= Boundary'
    BY <1>0, <2>1, <2>2, <2>5
  <2> QED BY <2>6, <2>7, <2>8 DEF Once, Apart
<1>3. CASE Take
  <2>1. /\ Pending = Range(lines) /\ Pending' = Range(unsent_lines') /\ lost' = lost
        /\ Boundary' = Boundary /\ receiveLines
    BY <1>3 DEF Take
  <2>2. AllLines' \subseteq AllLines
    <3>1. ASSUME NEW l \in Line, CutLine(l) PROVE FALSE
      <4>1. lines' = lines /\ lines' = Append(lines, l)
        BY <1>3, <3>1 DEF Take, CutLine
      <4> QED BY <1>0, <4>1, AppendToSequence
    <3> QED BY <3>1, WhereLinesComeFrom
  <2>3. received' \cap Range(unsent_lines') = {}
    <3>1. \A k \in DOMAIN lines : lines[k].from < lines[k].to
      BY <2>1 DEF Once, AllLines, Range
    <3> QED BY <1>0, <2>1, <3>1, TakenNotKept DEF Once, Batch
  <2>4. received' \cap lost' = {}
    <3>1. received' \subseteq received \cup Range(lines)
      BY <1>0, <2>1 DEF receiveLines, Range
    <3> QED BY <2>1, <3>1 DEF Once
  <2>5. lost' \cap Pending' = {}
    BY <1>0, <2>1, ReceiveLinesTypes DEF Once, Range
  <2> QED BY <2>1, <2>2, <2>3, <2>4, <2>5 DEF Once, Apart
<1>4. CASE KeepUnsent \/ GiveUp
  BY <1>4 DEF KeepUnsent, GiveUp, Once, AllLines, Apart
<1> QED BY <1>1, <1>2, <1>3, <1>4, StepKinds DEF Killed

\* As long as the process is not killed, each byte of the file is in exactly one
\* line, and each line is taken by receive_func, waits, or was given up with a
\* handler, never two of these: resending, stopping and reopening repeat nothing.
THEOREM ExactlyOnceAlways == Spec => []ExactlyOnce
<1> DEFINE Inv == "crash" \notin Faults => Once
<1>1. Init => Batch /\ Inv
  BY EmptySequence, ConfigAssumption
     DEF Init, Batch, InOrder, Once, AllLines, Pending, Range
<1>2. IInv /\ Batch /\ Inv /\ [Next]_vars => Batch' /\ Inv'
  BY NextBatch, NextOnce
<1>3. Inv => ExactlyOnce
  BY DEF ExactlyOnce, Once, AllLines, Apart
<1> HIDE DEF Inv
<1> QED BY <1>1, <1>2, <1>3, InitInv, NextInv, PTL DEF Spec
-----------------------------------------------------------------------------
\* Lines that wait between two notifications were offered to receive_func at
\* the last one, so that the handler is no older than the time since it began.
Recent ==
    /\ io_age >= 0
    /\ pc \in {"resent", "sent"} => io_age <= waited
    /\ open /\ pc = "idle" /\ lines # <<>> => io_age <= waited

\* With a clock that is not set back a step keeps it so.
LEMMA NextRecent ==
    ASSUME IInv, Recent, [Next]_vars, "clock" \notin Faults
    PROVE  Recent'
<1>0. io_age \in Int /\ waited \in Nat /\ SilentMax \in Nat
  BY ConfigAssumption DEF IInv, TypeOK, NumberTypes
<1>1. CASE Notify \/ Stop \/ NothingToResend \/ Write \/ UNCHANGED vars
  BY <1>0, <1>1 DEF Notify, Stop, NothingToResend, Write, vars, code, ages, Recent
<1>2. CASE HandleUncleanedBuffer
  BY <1>0, <1>2 DEF HandleUncleanedBuffer, updateLastIOTime, Recent
<1>3. CASE ResendLines \/ SendLines
  BY <1>0, <1>3 DEF ResendLines, SendLines, receiveLines, updateLastIOTime, Recent
<1>4. CASE RecordResent \/ RecordSent
  <2>1. io_age <= waited /\ io_age' = io_age /\ waited' = waited /\ pc' \in {"idle", "read"}
    BY <1>4 DEF RecordResent, RecordSent, LoopOrReturn, Return, ages, Recent
  <2> QED BY <1>0, <2>1 DEF Recent
<1>5. CASE NothingToSend
  <2>1. io_age' = io_age /\ lines' = <<>> /\ pc' \in {"idle", "read"}
    BY <1>5 DEF NothingToSend, LoopOrReturn, Return, ages
  <2> QED BY <1>0, <2>1 DEF Recent
<1>6. CASE ReadChunk \/ ScanByte \/ EndScan
  BY <1>0, <1>6 DEF ReadChunk, ScanByte, EndScan, ages, Recent
<1>7. CASE Reopen
  BY <1>0, <1>7 DEF Reopen, Recent, IInv, Shape
<1>8. CASE Crash
  BY <1>0, <1>8 DEF Crash, ages, Recent
<1>9. CASE Tick
  <2>1. pc # "idle" => open
    BY DEF IInv, Shape
  <2>2. open => waited' = waited + 1
    BY <1>9 DEF Tick
  <2>3. io_age' = io_age \/ io_age' = io_age + 1
    BY <1>9 DEF Tick, Older
  <2> QED BY <1>0, <1>9, <2>1, <2>2, <2>3 DEF Tick, code, Recent
<1> QED BY <1>1, <1>2, <1>3, <1>4, <1>5, <1>6, <1>7, <1>8, <1>9
        DEF Next, OnNotify, SetClockBack

\* A tail watcher that counts as inactive has no line left to send, whatever
\* the notification interval and however long receive_func takes, as long as the
\* time from one notification to the next is not longer than the silent time
\* (isStateSilentMaxMsValid for the interval, the note in io_handler.cc:215-222
\* for the callbacks) and the clock is not set back.
THEOREM InactiveIsDrainedAlways == Spec => []InactiveIsDrained
<1> DEFINE Inv == "clock" \notin Faults => Recent
<1>1. Init => Inv
  BY DEF Init, Recent
<1>2. IInv /\ Inv /\ [Next]_vars => Inv'
  BY NextRecent
<1>3. IInv /\ Inv => InactiveIsDrained
  <2> SUFFICES ASSUME IInv, "clock" \notin Faults, Recent, open, pc = "idle", ~isActive,
                      lines # <<>>
               PROVE  FALSE
    BY DEF InactiveIsDrained
  <2>1. io_age >= 0 /\ io_age <= waited
    BY DEF Recent
  <2>2. /\ waited \in Nat /\ waited <= NotifyGap /\ NotifyGap <= SilentMax /\ io_age \in Int
        /\ NotifyGap \in Nat /\ SilentMax \in Nat
    BY ConfigAssumption DEF IInv, TypeOK, NumberTypes
  <2>3. ~Expired(io_age, SilentMax)
    BY <2>1, <2>2 DEF Expired
  <2> QED BY <2>3 DEF isActive
<1> HIDE DEF Inv
<1> QED BY <1>1, <1>2, <1>3, InitInv, NextInv, PTL DEF Spec

-----------------------------------------------------------------------------
(***************************************************************************)
(* The refinement: each kind of step is one step of LogDelivery.           *)
(***************************************************************************)

\* The bytes of two sets of lines, and of one line.
LEMMA BytesOfSets ==
    /\ BytesOf({}) = {}
    /\ \A S, T : BytesOf(S \cup T) = BytesOf(S) \cup BytesOf(T)
    /\ \A l : BytesOf({l}) = l.from..(l.to - 1)
BY DEF BytesOf

\* Delivering some of the lines delivers their bytes and no others: the lines
\* of m_lines do not overlap.
LEMMA BytesTaken ==
    ASSUME lines \in Seq(Line), InOrder(lines), receiveLines
    PROVE  /\ BytesOf(Range(unsent_lines')) \subseteq BytesOf(Range(lines))
           /\ BytesOf(received') = BytesOf(received) \cup
                  (BytesOf(Range(lines)) \ BytesOf(Range(unsent_lines')))
<1>1. PICK kept \in Selections(Len(lines)) :
          /\ unsent_lines' = queueFull(kept)
          /\ received' = received \cup {lines[k] : k \in (1..Len(lines)) \ Range(kept)}
  BY DEF receiveLines
<1> DEFINE K     == Range(kept)
           taken == {lines[k] : k \in (1..Len(lines)) \ K}
           left  == {lines[k] : k \in K}
<1>2. K \subseteq 1..Len(lines)
  BY QueueFullLines DEF Range
<1>3. Range(unsent_lines') = left
  BY <1>1 DEF Range, queueFull
<1>4. Range(lines) = taken \cup left
  <2>1. DOMAIN lines = 1..Len(lines)
    OBVIOUS
  <2>2. Range(lines) = {lines[k] : k \in 1..Len(lines)}
    BY <2>1 DEF Range
  <2> HIDE DEF K
  <2> QED BY <1>2, <2>2
<1>5. ASSUME NEW k \in 1..Len(lines), NEW j \in 1..Len(lines), k # j,
             NEW b \in lines[k].from..(lines[k].to - 1), b \in lines[j].from..(lines[j].to - 1)
      PROVE  FALSE
  <2>1. /\ lines[k].from \in Nat /\ lines[k].to \in Nat
        /\ lines[j].from \in Nat /\ lines[j].to \in Nat
    BY LineEnds
  <2>2. k < j \/ j < k
    BY <1>5
  <2>3. lines[k].to <= lines[j].from \/ lines[j].to <= lines[k].from
    BY <2>2 DEF InOrder
  <2> QED BY <1>5, <2>1, <2>3
<1>6. BytesOf(taken) \cap BytesOf(left) = {}
  <2> SUFFICES ASSUME NEW b, b \in BytesOf(taken), b \in BytesOf(left) PROVE FALSE
    OBVIOUS
  <2>1. PICK k \in (1..Len(lines)) \ K : b \in lines[k].from..(lines[k].to - 1)
    BY DEF BytesOf
  <2>2. PICK j \in K : b \in lines[j].from..(lines[j].to - 1)
    BY DEF BytesOf
  <2> QED BY <1>2, <1>5, <2>1, <2>2
<1>7. received' = received \cup taken
  BY <1>1
<1> HIDE DEF K, taken, left
<1>8. /\ BytesOf(Range(lines)) = BytesOf(taken) \cup BytesOf(left)
      /\ BytesOf(received') = BytesOf(received) \cup BytesOf(taken)
  BY <1>4, <1>7, BytesOfSets
<1> QED BY <1>3, <1>6, <1>8

\* The lines that a crash gives up are the bytes that were held and are before
\* the recorded position: no line straddles it.
LEMMA BytesBefore ==
    ASSUME IInv
    PROVE  BytesOf({l \in Pending : l.to <= pos}) = {b \in BytesOf(Pending) : b < pos}
<1>0. pos \in Nat /\ lines \in Seq(Line) /\ unsent_lines \in Seq(Line)
  BY Numbers
<1>1. \A l \in Pending : /\ l.from \in Nat /\ l.to \in Nat
                         /\ l.to <= pos \/ pos <= l.from
  BY <1>0, LineEnds DEF Pending, Range, IInv, Straight
<1>2. ASSUME NEW l \in Pending, NEW b \in l.from..(l.to - 1)
      PROVE  l.to <= pos <=> b < pos
  BY <1>0, <1>1
<1>3. ASSUME NEW b, b \in BytesOf({l \in Pending : l.to <= pos})
      PROVE  b \in BytesOf(Pending) /\ b < pos
  <2>1. PICK l \in {l \in Pending : l.to <= pos} : b \in l.from..(l.to - 1)
    BY <1>3 DEF BytesOf
  <2> QED BY <1>2, <2>1 DEF BytesOf
<1>4. ASSUME NEW b \in BytesOf(Pending), b < pos
      PROVE  b \in BytesOf({l \in Pending : l.to <= pos})
  <2>1. PICK l \in Pending : b \in l.from..(l.to - 1)
    BY DEF BytesOf
  <2> QED BY <1>2, <1>4, <2>1 DEF BytesOf
<1> QED BY <1>3, <1>4

\* Each step of IOHandler is a step of LogDelivery, or leaves it as it is.
LEMMA StepOfDelivery ==
    ASSUME IInv, Batch, [Next]_vars
    PROVE  [Delivery!DNext]_(Delivery!dvars)
<1>0. /\ lines \in Seq(Line) /\ file \in Seq(Byte) /\ Len(file) \in Nat /\ Boundary \in Nat
      /\ fpos <= Len(file) /\ fpos \in Nat
  BY Numbers
<1>1. CASE Quiet /\ file' = file
  BY <1>1 DEF Quiet, Delivery!dvars, BytesOf
<1>2. CASE Quiet /\ Write
  <2>1. Len(file') = Len(file) + 1 /\ Len(file) < MaxFileLen
    BY <1>0, <1>2, AppendToSequence DEF Write
  <2>2. Delivery!Grow
    BY <1>2, <2>1 DEF Quiet, Delivery!Grow, BytesOf
  <2> QED BY <2>2 DEF Delivery!DNext
<1>3. ASSUME NEW l \in Line, CutLine(l) PROVE Delivery!Cut
  <2>1. /\ l.from = Boundary /\ l.to = Boundary' /\ l.from < l.to /\ l.to <= fpos
        /\ Pending' = Pending \cup {l} /\ UNCHANGED <<file, received, lost, pos>>
    BY <1>3 DEF CutLine
  <2>2. l.from \in Nat /\ l.to \in Nat
    BY DEF Line
  <2>3. Boundary' \in (Boundary + 1)..Len(file)
    BY <1>0, <2>1, <2>2
  <2>4. BytesOf(Pending') = BytesOf(Pending) \cup Boundary..(Boundary' - 1)
    <3>1. BytesOf(Pending') = BytesOf(Pending) \cup BytesOf({l})
      BY <2>1, BytesOfSets
    <3>2. BytesOf({l}) = l.from..(l.to - 1)
      BY BytesOfSets
    <3> QED BY <2>1, <3>1, <3>2
  <2> QED BY <2>1, <2>3, <2>4 DEF Delivery!Cut, BytesOf
<1>4. CASE Take
  <2>1. /\ Pending = Range(lines) /\ Pending' = Range(unsent_lines')
        /\ UNCHANGED <<file, lost, pos>> /\ Boundary' = Boundary /\ receiveLines
    BY <1>4 DEF Take
  <2>2. /\ BytesOf(Pending') \in SUBSET BytesOf(Pending)
        /\ BytesOf(received') = BytesOf(received) \cup (BytesOf(Pending) \ BytesOf(Pending'))
    BY <1>0, <2>1, BytesTaken DEF Batch
  <2>3. Delivery!Deliver
    BY <2>1, <2>2 DEF Delivery!Deliver, BytesOf
  <2> QED BY <2>3 DEF Delivery!DNext
<1>5. CASE KeepUnsent
  <2>1. Delivery!Record
    BY <1>5 DEF KeepUnsent, Delivery!Record, BytesOf
  <2> QED BY <2>1 DEF Delivery!DNext
<1>6. CASE GiveUp
  <2>1. BytesOf(Pending') = {} /\ BytesOf(lost') = BytesOf(lost) \cup BytesOf(Pending)
    BY <1>6, BytesOfSets DEF GiveUp
  <2>2. Delivery!Stop
    BY <1>6, <2>1 DEF GiveUp, Delivery!Stop, BytesOf
  <2> QED BY <2>2 DEF Delivery!DNext
<1>7. CASE Killed
  <2>1. /\ BytesOf(Pending') = {}
        /\ BytesOf(lost') = BytesOf(lost) \cup {b \in BytesOf(Pending) : b < pos}
    <3> DEFINE before == {l \in Pending : l.to <= pos}
    <3>1. lost' = lost \cup before /\ Pending' = {}
      BY <1>7 DEF Killed
    <3>2. BytesOf(before) = {b \in BytesOf(Pending) : b < pos}
      BY BytesBefore
    <3> HIDE DEF before
    <3>3. BytesOf(lost') = BytesOf(lost) \cup BytesOf(before)
      BY <3>1, BytesOfSets
    <3> QED BY <3>1, <3>2, <3>3, BytesOfSets
  <2>2. Delivery!Kill
    BY <1>7, <2>1 DEF Killed, Delivery!Kill, BytesOf
  <2> QED BY <2>2 DEF Delivery!DNext
<1> QED BY <1>1, <1>2, <1>3, <1>4, <1>5, <1>6, <1>7, StepKinds DEF Delivery!DNext

\* IOHandler implements LogDelivery, for every configuration and every file:
\* what LogDeliveryProofs shows of LogDelivery holds of it.
THEOREM ImplementsDeliveryAlways == Spec => ImplementsDelivery
<1>1. Init => Delivery!DInit
  BY EmptySequence, BytesOfSets DEF Init, Delivery!DInit, Pending, Range, Boundary
<1>2. Init => Batch
  BY EmptySequence, ConfigAssumption DEF Init, Batch, InOrder
<1>3. IInv /\ Batch /\ [Next]_vars => Batch' /\ [Delivery!DNext]_(Delivery!dvars)
  BY NextBatch, StepOfDelivery
<1> QED BY <1>1, <1>2, <1>3, InitInv, NextInv, PTL DEF Spec, ImplementsDelivery, Delivery!DSpec
=============================================================================
