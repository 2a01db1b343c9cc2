---------------------------- MODULE LogRingProofs ----------------------------
(***************************************************************************)
(* What TLAPS proves of LogRing, for a ring and lines of any size and any  *)
(* number of tasks.                                                        *)
(***************************************************************************)
EXTENDS LogRing, SequenceTheorems, TLAPS

Locked == {"ring", "copy", "copy rest"}

(* The mutex is held by the task that is in the section it protects.       *)
Exclusive ==
  \A t \in Tasks : s_mutex = t <=> pc[t] \in Locked

OnlyServerCopies ==
  \A t \in Tasks : pc[t] \in {"ask", "copy", "copy rest"} => t = Server

LinesInBounds ==
  \A t \in Tasks : written[t] <= len[t] /\ (pc[t] # "ring" => written[t] = 0)

(* Until the ring has wrapped, the next byte goes right behind the last.   *)
HeadFollows == Count < Size => s_head = Count

FirstPiece ==
  pc[Server] = "copy rest" =>
    copied = IF Wrapped THEN Slice(s_head, TailLen) ELSE Slice(0, s_used)

Safety ==
  TypeOK /\ Exclusive /\ OnlyServerCopies /\ LinesInBounds /\ HeadFollows
    /\ FirstPiece

-----------------------------------------------------------------------------
(* An index that runs off the end of the ring comes in again at its start. *)
LEMMA Wrap ==
  ASSUME NEW i \in Nat, i < 2 * Size
  PROVE  i % Size = IF i < Size THEN i ELSE i - Size
<1>1. Size \in Nat /\ Size > 0
  BY LogRingAssumption
<1>2. CASE i < Size
  BY <1>1, <1>2
<1>3. CASE i >= Size
  BY <1>1, <1>3
<1> QED
  BY <1>2, <1>3, <1>1

LEMMA CountRange ==
  ASSUME TypeOK PROVE Fresh \in Nat /\ Count \in 0 .. Size /\ Oldest \in Index
<1>1. \A t \in Tasks : written[t] \in 0 .. LineMax
  BY DEF TypeOK
<1>2. s_mutex \in Tasks \/ s_mutex = "nobody"
  BY DEF TypeOK
<1>3. Fresh \in 0 .. LineMax
  BY <1>1, <1>2, LogRingAssumption DEF Fresh
<1>4. Fresh \in Nat
  BY <1>3, LogRingAssumption
<1>5. s_used \in 0 .. Size /\ s_head \in Index
  BY DEF TypeOK
<1>6. Count \in 0 .. Size
  BY <1>4, <1>5, LogRingAssumption DEF Count, Clamped
<1> QED
  BY <1>4, <1>5, <1>6, LogRingAssumption DEF Oldest, Index

LEMMA WindowIsSeq ==
  TypeOK => Window \in Seq(Bytes) /\ Len(Window) = Count
<1> SUFFICES ASSUME TypeOK PROVE Window \in Seq(Bytes) /\ Len(Window) = Count
  OBVIOUS
<1>1. Count \in 0 .. Size /\ Oldest \in Index
  BY CountRange
<1>2. ASSUME NEW i \in 1 .. Count PROVE (Oldest + i - 1) % Size \in Index
  BY <1>1, <1>2, Wrap, LogRingAssumption DEF Index
<1>3. \A i \in 1 .. Count : Window[i] \in Bytes
  BY <1>2 DEF TypeOK, Window
<1> QED
  BY <1>1, <1>3 DEF Window

LEMMA InitSafe == Init => Safety
<1> SUFFICES ASSUME Init PROVE Safety
  OBVIOUS
<1>1. TypeOK
  BY LogRingAssumption DEF Init, TypeOK, Index, Bytes
<1>2. Exclusive /\ OnlyServerCopies /\ FirstPiece
  BY LogRingAssumption DEF Init, Exclusive, Locked, OnlyServerCopies, FirstPiece
<1>3. LinesInBounds
  <2>1. ASSUME NEW t \in Tasks PROVE written[t] <= len[t] /\ written[t] = 0
    BY DEF Init
  <2> QED
    BY <2>1 DEF LinesInBounds
<1>4. HeadFollows
  BY LogRingAssumption DEF Init, HeadFollows, Count, Clamped, Fresh
<1> QED
  BY <1>1, <1>2, <1>3, <1>4 DEF Safety

-----------------------------------------------------------------------------
LEMMA HeadRange ==
  ASSUME TypeOK
  PROVE  /\ s_head \in Nat /\ s_head < Size /\ s_used \in Nat /\ s_used <= Size
         /\ Size \in Nat
<1>1. s_head \in 0 .. Size - 1 /\ s_used \in 0 .. Size
  BY DEF TypeOK, Index
<1> QED
  BY <1>1, LogRingAssumption

(* The pieces a snapshot copies lie within the ring.                       *)
LEMMA SliceIsSeq ==
  ASSUME TypeOK
  PROVE  /\ Slice(0, s_used) \in Seq(Bytes) /\ Len(Slice(0, s_used)) = s_used
         /\ Slice(0, s_head) \in Seq(Bytes) /\ Len(Slice(0, s_head)) = s_head
         /\ Slice(s_head, TailLen) \in Seq(Bytes)
         /\ Len(Slice(s_head, TailLen)) = TailLen
         /\ TailLen \in Nat
<1>1. /\ s_head \in Nat /\ s_head < Size /\ s_used \in Nat /\ s_used <= Size
      /\ Size \in Nat
  BY HeadRange
<1>2. TailLen \in Nat /\ s_head + TailLen = Size
  BY <1>1 DEF TailLen
<1>3. ASSUME NEW i \in Nat, NEW n \in Nat, i + n <= Size
      PROVE  Slice(i, n) \in Seq(Bytes) /\ Len(Slice(i, n)) = n
  <2>1. ASSUME NEW k \in 1 .. n PROVE s_buf[i + k - 1] \in Bytes
    <3>1. i + k - 1 \in 0 .. Size - 1
      BY <1>1, <1>3
    <3> QED
      BY <3>1 DEF TypeOK, Index
  <2> QED
    BY <2>1 DEF Slice
<1> QED
  BY <1>1, <1>2, <1>3

LEMMA TypesStep == Safety /\ [Next]_vars => TypeOK'
<1> SUFFICES ASSUME Safety, [Next]_vars PROVE TypeOK'
  OBVIOUS
<1> USE DEF ring, Goes, Unlocks
<1>0. TypeOK
  BY DEF Safety
<1>a. Size \in Nat /\ Size > 0 /\ LineMax \in Nat /\ LineMax > 0 /\ Server \in Tasks
  BY LogRingAssumption
<1>b. s_head \in Nat /\ s_head < Size /\ s_used \in Nat /\ s_used <= Size
  BY <1>0, HeadRange
<1>c. ASSUME NEW t \in Tasks
      PROVE  /\ len[t] \in Nat /\ len[t] <= LineMax
             /\ written[t] \in Nat /\ written[t] <= LineMax
  <2>1. len[t] \in 0 .. LineMax /\ written[t] \in 0 .. LineMax
    BY <1>0 DEF TypeOK
  <2> QED
    BY <2>1, <1>a
<1>1. ASSUME NEW t \in Tasks, Format(t) PROVE TypeOK'
  <2>1. PICK n \in 1 .. LineMax + 1 : len' = [len EXCEPT ![t] = Truncated(n)]
    BY <1>1 DEF Format
  <2>2. Truncated(n) \in 0 .. LineMax
    BY <1>a DEF Truncated
  <2> QED
    BY <1>0, <1>1, <2>1, <2>2 DEF Format, TypeOK
<1>2. ASSUME NEW t \in Tasks, TakeForLine(t) PROVE TypeOK'
  BY <1>0, <1>2 DEF TakeForLine, TypeOK
<1>3. ASSUME NEW t \in Tasks, DropLine(t) PROVE TypeOK'
  <2>1. 0 \in 0 .. LineMax
    BY <1>a
  <2> QED
    BY <1>0, <1>3, <2>1 DEF DropLine, Over, TypeOK
<1>4. ASSUME NEW t \in Tasks, WriteByte(t) PROVE TypeOK'
  <2>1. written[t] < len[t]
    BY <1>4 DEF WriteByte
  <2>2. /\ written[t] + 1 \in 1 .. LineMax /\ len[t] \in 1 .. LineMax
        /\ written[t] + 1 \in 0 .. LineMax
    BY <2>1, <1>a, <1>c
  <2>3. <<t, written[t] + 1, len[t]>> \in Bytes
    BY <2>2 DEF Bytes
  <2>4. s_buf' \in [Index -> Bytes]
    BY <1>0, <1>4, <2>3 DEF WriteByte, TypeOK
  <2>5. written' \in [Tasks -> 0 .. LineMax]
    BY <1>0, <1>4, <2>2 DEF WriteByte, TypeOK
  <2>6. s_head + 1 \in Nat /\ s_head + 1 < 2 * Size
    BY <1>a, <1>b
  <2>7. s_head' \in Index
    BY <1>4, <1>a, <1>b, <2>6, Wrap DEF WriteByte, Advances, Index
  <2> QED
    BY <1>0, <1>4, <2>4, <2>5, <2>7 DEF WriteByte, TypeOK
<1>5. ASSUME NEW t \in Tasks, LineDone(t) PROVE TypeOK'
  <2>1. Clamped(len[t]) \in 0 .. Size /\ 0 \in 0 .. LineMax
    BY <1>a, <1>b, <1>c DEF Clamped
  <2> QED
    BY <1>0, <1>5, <2>1 DEF LineDone, Over, TypeOK
<1>6. CASE Ask
  BY <1>0, <1>6 DEF Ask, TypeOK
<1>7. CASE TakeForCopy
  BY <1>0, <1>7, <1>a DEF TakeForCopy, TypeOK
<1>8. CASE GiveUp
  BY <1>0, <1>8 DEF GiveUp, TypeOK
<1>9. CASE NoMemory
  BY <1>0, <1>9 DEF NoMemory, OutOfMemoryUnlocks, TypeOK
<1>10. CASE CopyOldest
  <2>1. copied' \in Seq(Bytes)
    BY <1>0, <1>10, SliceIsSeq DEF CopyOldest
  <2> QED
    BY <1>0, <1>10, <2>1 DEF CopyOldest, TypeOK
<1>11. CASE CopyRest
  <2>1. copied \in Seq(Bytes)
    BY <1>0 DEF TypeOK
  <2>2. copied \o Slice(0, s_head) \in Seq(Bytes)
    <3>1. Slice(0, s_head) \in Seq(Bytes)
      BY <1>0, SliceIsSeq
    <3> QED
      BY <2>1, <3>1, ConcatProperties
  <2>3. snap' \in Seq(Bytes)
    BY <1>11, <2>1, <2>2 DEF CopyRest
  <2>4. copied' \in Seq(Bytes)
    BY <1>11, EmptySeq DEF CopyRest
  <2> QED
    BY <1>0, <1>11, <2>3, <2>4 DEF CopyRest, TypeOK
<1>12. CASE UNCHANGED vars
  BY <1>0, <1>12 DEF vars, TypeOK
<1> QED
  BY <1>1, <1>2, <1>3, <1>4, <1>5, <1>6, <1>7, <1>8, <1>9, <1>10, <1>11, <1>12
  DEF Next, LogStep

LEMMA LocksStep == Safety /\ [Next]_vars => Exclusive' /\ OnlyServerCopies'
<1> SUFFICES ASSUME Safety, [Next]_vars PROVE Exclusive' /\ OnlyServerCopies'
  OBVIOUS
<1> USE LogRingAssumption
    DEF Exclusive, OnlyServerCopies, Locked, Goes, Unlocks, Unlocked, Over
<1>0. Exclusive /\ OnlyServerCopies /\ TypeOK
  BY DEF Safety
<1>1. /\ pc \in [Tasks -> {"out", "lock", "ring", "ask", "copy", "copy rest"}]
      /\ s_mutex \in Tasks \union {"nobody"}
  BY <1>0 DEF TypeOK
<1>2. ASSUME NEW t \in Tasks, Format(t) PROVE Exclusive' /\ OnlyServerCopies'
  BY <1>0, <1>1, <1>2 DEF Format
<1>3. ASSUME NEW t \in Tasks, TakeForLine(t) PROVE Exclusive' /\ OnlyServerCopies'
  BY <1>0, <1>1, <1>3 DEF TakeForLine
<1>4. ASSUME NEW t \in Tasks, DropLine(t) PROVE Exclusive' /\ OnlyServerCopies'
  BY <1>0, <1>1, <1>4 DEF DropLine
<1>5. ASSUME NEW t \in Tasks, WriteByte(t) PROVE Exclusive' /\ OnlyServerCopies'
  BY <1>0, <1>1, <1>5 DEF WriteByte
<1>6. ASSUME NEW t \in Tasks, LineDone(t) PROVE Exclusive' /\ OnlyServerCopies'
  BY <1>0, <1>1, <1>6 DEF LineDone
<1>7. CASE Ask
  BY <1>0, <1>1, <1>7 DEF Ask
<1>8. CASE TakeForCopy
  BY <1>0, <1>1, <1>8 DEF TakeForCopy
<1>9. CASE GiveUp
  BY <1>0, <1>1, <1>9 DEF GiveUp
<1>10. CASE NoMemory
  BY <1>0, <1>1, <1>10 DEF NoMemory, OutOfMemoryUnlocks
<1>11. CASE CopyOldest
  BY <1>0, <1>1, <1>11 DEF CopyOldest
<1>12. CASE CopyRest
  BY <1>0, <1>1, <1>12 DEF CopyRest
<1>13. CASE UNCHANGED vars
  BY <1>0, <1>13 DEF vars
<1> QED
  BY <1>2, <1>3, <1>4, <1>5, <1>6, <1>7, <1>8, <1>9, <1>10, <1>11, <1>12, <1>13
  DEF Next, LogStep

LEMMA LinesStep == Safety /\ [Next]_vars => LinesInBounds'
<1> SUFFICES ASSUME Safety, [Next]_vars, NEW u \in Tasks
             PROVE  (written[u] <= len[u] /\ (pc[u] # "ring" => written[u] = 0))'
  BY DEF LinesInBounds
<1> USE DEF Goes, Over
<1>0. /\ written[u] <= len[u] /\ (pc[u] # "ring" => written[u] = 0)
      /\ pc \in [Tasks -> {"out", "lock", "ring", "ask", "copy", "copy rest"}]
      /\ len \in [Tasks -> 0 .. LineMax] /\ written \in [Tasks -> 0 .. LineMax]
  BY DEF Safety, LinesInBounds, TypeOK
<1>a. written[u] \in Nat /\ len[u] \in Nat
  <2>1. written[u] \in 0 .. LineMax /\ len[u] \in 0 .. LineMax
    BY <1>0
  <2> QED
    BY <2>1, LogRingAssumption
<1>1. ASSUME NEW t \in Tasks, Format(t)
      PROVE (written[u] <= len[u] /\ (pc[u] # "ring" => written[u] = 0))'
  <2>1. PICK n \in 1 .. LineMax + 1 : len' = [len EXCEPT ![t] = Truncated(n)]
    BY <1>1 DEF Format
  <2>2. Truncated(n) \in Nat /\ 0 <= Truncated(n)
    BY LogRingAssumption DEF Truncated
  <2>3. CASE t = u
    BY <1>0, <1>1, <2>1, <2>2, <2>3 DEF Format
  <2>4. CASE t # u
    BY <1>0, <1>1, <2>1, <2>4 DEF Format
  <2> QED
    BY <2>3, <2>4
<1>2. ASSUME NEW t \in Tasks, TakeForLine(t)
      PROVE (written[u] <= len[u] /\ (pc[u] # "ring" => written[u] = 0))'
  <2>1. UNCHANGED <<len, written>> /\ (pc'[u] # "ring" => pc[u] # "ring")
    BY <1>0, <1>2 DEF TakeForLine
  <2> QED
    BY <1>0, <2>1
<1>3. ASSUME NEW t \in Tasks, DropLine(t)
      PROVE (written[u] <= len[u] /\ (pc[u] # "ring" => written[u] = 0))'
  <2>1. CASE t = u
    <3>1. written'[u] = 0 /\ len'[u] = 0
      BY <1>0, <1>3, <2>1 DEF DropLine
    <3> QED
      BY <3>1
  <2>2. CASE t # u
    BY <1>0, <1>3, <2>2 DEF DropLine
  <2> QED
    BY <2>1, <2>2
<1>4. ASSUME NEW t \in Tasks, WriteByte(t)
      PROVE (written[u] <= len[u] /\ (pc[u] # "ring" => written[u] = 0))'
  <2>1. CASE t = u
    <3>1. written[u] < len[u] /\ written'[u] = written[u] + 1 /\ len'[u] = len[u]
      BY <1>0, <1>4, <2>1 DEF WriteByte
    <3>2. pc'[u] = "ring"
      BY <1>0, <1>4, <2>1 DEF WriteByte
    <3> QED
      BY <1>a, <3>1, <3>2
  <2>2. CASE t # u
    BY <1>0, <1>4, <2>2 DEF WriteByte
  <2> QED
    BY <2>1, <2>2
<1>5. ASSUME NEW t \in Tasks, LineDone(t)
      PROVE (written[u] <= len[u] /\ (pc[u] # "ring" => written[u] = 0))'
  <2>1. CASE t = u
    <3>1. written'[u] = 0 /\ len'[u] = 0
      BY <1>0, <1>5, <2>1 DEF LineDone
    <3> QED
      BY <3>1
  <2>2. CASE t # u
    BY <1>0, <1>5, <2>2 DEF LineDone
  <2> QED
    BY <2>1, <2>2
<1>6. CASE Ask \/ TakeForCopy \/ GiveUp \/ NoMemory \/ CopyOldest \/ CopyRest
  <2>1. UNCHANGED <<len, written>>
    BY <1>6 DEF Ask, TakeForCopy, GiveUp, NoMemory, CopyOldest, CopyRest
  <2>2. pc'[u] # "ring" => pc[u] # "ring"
    BY <1>0, <1>6, LogRingAssumption
    DEF Ask, TakeForCopy, GiveUp, NoMemory, CopyOldest, CopyRest
  <2> QED
    BY <1>0, <2>1, <2>2
<1>7. CASE UNCHANGED vars
  BY <1>0, <1>7 DEF vars
<1> QED
  BY <1>1, <1>2, <1>3, <1>4, <1>5, <1>6, <1>7 DEF Next, LogStep

-----------------------------------------------------------------------------
(* Nothing but a byte written moves the window: neither the clamped count  *)
(* at the end of a line, nor whoever else takes and returns the mutex.     *)
LEMMA FreshStays ==
  ASSUME Safety, [Next]_vars, \A t \in Tasks : ~WriteByte(t) /\ ~LineDone(t)
  PROVE  UNCHANGED <<s_buf, s_head, s_used, Fresh>>
<1> USE DEF Goes, ring, Unlocked, Unlocks
<1>0. /\ pc \in [Tasks -> {"out", "lock", "ring", "ask", "copy", "copy rest"}]
      /\ s_mutex \in Tasks \union {"nobody"}
      /\ \A t \in Tasks : s_mutex = t <=> pc[t] \in {"ring", "copy", "copy rest"}
      /\ \A t \in Tasks : pc[t] # "ring" => written[t] = 0
      /\ Server \in Tasks /\ "nobody" \notin Tasks
  BY LogRingAssumption DEF Safety, TypeOK, Exclusive, Locked, LinesInBounds
<1>1. UNCHANGED <<s_buf, s_head, s_used, written>>
  BY DEF Next, LogStep, Format, TakeForLine, DropLine, Ask, TakeForCopy, GiveUp,
         NoMemory, CopyOldest, CopyRest, vars
<1>2. ASSUME NEW t \in Tasks, Format(t) PROVE UNCHANGED Fresh
  BY <1>0, <1>2 DEF Format, Fresh
<1>3. ASSUME NEW t \in Tasks, TakeForLine(t) PROVE UNCHANGED Fresh
  BY <1>0, <1>3 DEF TakeForLine, Fresh
<1>4. ASSUME NEW t \in Tasks, DropLine(t) PROVE UNCHANGED Fresh
  BY <1>0, <1>4 DEF DropLine, Over, Fresh
<1>5. CASE Ask
  BY <1>0, <1>1, <1>5 DEF Ask, Fresh
<1>6. CASE TakeForCopy
  BY <1>0, <1>1, <1>6 DEF TakeForCopy, Fresh
<1>7. CASE GiveUp
  BY <1>0, <1>1, <1>7 DEF GiveUp, Fresh
<1>8. CASE NoMemory
  BY <1>0, <1>1, <1>8 DEF NoMemory, OutOfMemoryUnlocks, Fresh
<1>9. CASE CopyOldest
  BY <1>0, <1>1, <1>9 DEF CopyOldest, Fresh
<1>10. CASE CopyRest
  BY <1>0, <1>1, <1>10 DEF CopyRest, Fresh
<1>11. CASE UNCHANGED vars
  BY <1>11 DEF vars, Fresh
<1> QED
  BY <1>1, <1>2, <1>3, <1>4, <1>5, <1>6, <1>7, <1>8, <1>9, <1>10, <1>11
  DEF Next, LogStep

LEMMA LineDoneCounts ==
  ASSUME Safety, NEW t \in Tasks, LineDone(t)
  PROVE  UNCHANGED <<s_buf, s_head, Count>>
<1>0. TypeOK
  BY DEF Safety
<1>1. /\ pc[t] = "ring" /\ written[t] = len[t] /\ s_used' = Clamped(len[t])
      /\ s_mutex' = "nobody" /\ UNCHANGED <<s_buf, s_head>>
  BY DEF LineDone, Unlocks
<1>2. s_mutex = t /\ t # "nobody"
  BY <1>1, LogRingAssumption DEF Safety, Exclusive, Locked
<1>3. Fresh = len[t] /\ Fresh' = 0
  BY <1>1, <1>2 DEF Fresh
<1>4. Count = s_used' /\ Count \in 0 .. Size
  BY <1>0, <1>1, <1>3, CountRange DEF Count
<1>5. Count' = s_used'
  BY <1>3, <1>4, LogRingAssumption DEF Count, Clamped
<1> QED
  BY <1>1, <1>4, <1>5

LEMMA WindowStays ==
  ASSUME Safety, [Next]_vars, \A t \in Tasks : ~WriteByte(t)
  PROVE  UNCHANGED <<s_buf, s_head, Count, Window>>
<1>1. UNCHANGED <<s_buf, s_head, Count>>
  <2>1. CASE \E t \in Tasks : LineDone(t)
    BY <2>1, LineDoneCounts
  <2>2. CASE \A t \in Tasks : ~LineDone(t)
    BY <2>2, FreshStays DEF Count, Clamped
  <2> QED
    BY <2>1, <2>2
<1>2. UNCHANGED Oldest
  BY <1>1 DEF Oldest
<1> QED
  BY <1>1, <1>2 DEF Window

(* A byte written goes behind the last one and, once the ring has wrapped, *)
(* in the place of the oldest.                                             *)
LEMMA WriteSlides ==
  ASSUME Safety, NEW t \in Tasks, WriteByte(t)
  PROVE  /\ HeadFollows'
         /\ Window' = Abstract!Slid(Window, <<t, written[t] + 1, len[t]>>)
<1> DEFINE b == <<t, written[t] + 1, len[t]>>
<1>0. TypeOK /\ TypeOK' /\ HeadFollows
  <2>1. TypeOK'
    BY TypesStep DEF Next, LogStep
  <2> QED
    BY <2>1 DEF Safety
<1>1. /\ pc[t] = "ring" /\ pc' = pc /\ s_mutex' = s_mutex /\ s_used' = s_used
      /\ s_buf' = [s_buf EXCEPT ![s_head] = b]
      /\ s_head' = (s_head + 1) % Size
      /\ written'[t] = written[t] + 1
  BY <1>0 DEF WriteByte, Advances, TypeOK
<1>2. s_mutex = t /\ t # "nobody"
  BY <1>1, LogRingAssumption DEF Safety, Exclusive, Locked
<1>3. Fresh = written[t] /\ Fresh' = written[t] + 1 /\ Fresh \in Nat
  BY <1>0, <1>1, <1>2, CountRange DEF Fresh
<1>4. /\ s_head \in Nat /\ s_head < Size /\ s_used \in Nat /\ s_used <= Size
      /\ Size \in Nat /\ Size > 0
  BY <1>0, HeadRange, LogRingAssumption
<1>5. Count' = IF Count < Size THEN Count + 1 ELSE Size
  BY <1>1, <1>3, <1>4 DEF Count, Clamped
<1>6. Count \in Nat /\ Count <= Size /\ Oldest \in Nat /\ Oldest < Size
  BY <1>0, <1>4, CountRange DEF Index
<1>7. Count < Size => s_head = Count
  BY <1>0 DEF HeadFollows
<1>8. s_head' = IF s_head + 1 < Size THEN s_head + 1 ELSE 0
  BY <1>1, <1>4, Wrap
<1>h. s_head' \in Nat /\ s_head' < Size
  BY <1>4, <1>8
<1>9. HeadFollows'
  BY <1>4, <1>5, <1>6, <1>7, <1>8 DEF HeadFollows
<1>10. Window \in Seq(Bytes) /\ Len(Window) = Count
  BY <1>0, WindowIsSeq
<1>a. b \in Bytes
  <2>1. /\ written[t] \in 0 .. LineMax /\ len[t] \in 0 .. LineMax
        /\ written[t] < len[t]
    BY <1>0 DEF TypeOK, WriteByte
  <2>2. written[t] + 1 \in 1 .. LineMax /\ len[t] \in 1 .. LineMax
    BY <2>1, LogRingAssumption
  <2> QED
    BY <2>2 DEF Bytes
<1>b. Window' \in Seq(Bytes) /\ Len(Window') = Count'
  <2>1. TypeOK'
    BY <1>0
  <2>2. (Window \in Seq(Bytes) /\ Len(Window) = Count)'
    BY <2>1, WindowIsSeq, PTL
  <2> QED
    BY <2>2
<1>11. Window' = [i \in 1 .. Count' |-> s_buf'[(Oldest' + i - 1) % Size]]
  BY DEF Window
<1>12. CASE Count < Size
  <2>1. Oldest = 0 /\ Oldest' = 0 /\ Count' = Count + 1 /\ s_head = Count
    BY <1>4, <1>5, <1>6, <1>7, <1>8, <1>12 DEF Oldest
  <2>2. ASSUME NEW i \in 1 .. Count + 1
        PROVE  (0 + i - 1) % Size = i - 1 /\ i - 1 \in Index
    <3>1. 0 + i - 1 = i - 1 /\ i - 1 \in Nat /\ i - 1 < Size
      BY <1>4, <1>6, <1>12, <2>2
    <3> QED
      BY <1>4, <3>1, Wrap DEF Index
  <2>3. ASSUME NEW i \in 1 .. Count PROVE Window'[i] = Window[i]
    <3>1. i \in 1 .. Count + 1 /\ i - 1 # s_head
      BY <1>6, <2>1, <2>3
    <3>2. s_buf'[i - 1] = s_buf[i - 1]
      BY <1>0, <1>1, <2>2, <3>1 DEF TypeOK
    <3>3. Window[i] = s_buf[i - 1]
      BY <2>1, <2>2, <2>3, <3>1 DEF Window
    <3>4. Window'[i] = s_buf'[i - 1]
      BY <1>11, <2>1, <2>2, <3>1
    <3> QED
      BY <3>2, <3>3, <3>4
  <2>4. Window'[Count + 1] = b
    <3>1. Count + 1 \in 1 .. Count + 1 /\ Count + 1 - 1 = s_head
      BY <1>6, <2>1
    <3>2. (0 + (Count + 1) - 1) % Size = s_head
      <4>1. 0 + (Count + 1) - 1 = s_head
        BY <1>6, <2>1
      <4>2. s_head % Size = s_head
        BY <1>4, Wrap
      <4> QED
        BY <4>1, <4>2
    <3>3. Window'[Count + 1] = s_buf'[s_head]
      BY <1>11, <2>1, <3>1, <3>2
    <3>4. s_head \in Index /\ s_buf \in [Index -> Bytes]
      BY <1>0 DEF TypeOK
    <3> QED
      BY <1>1, <3>3, <3>4
  <2>5. Append(Window, b) \in Seq(Bytes) /\ Len(Append(Window, b)) = Count + 1
    BY <1>10, <1>a
  <2>6. ASSUME NEW i \in 1 .. Count + 1 PROVE Window'[i] = Append(Window, b)[i]
    <3>1. CASE i = Count + 1
      BY <1>10, <2>4, <3>1
    <3>2. CASE i # Count + 1
      <4>1. i \in 1 .. Count
        BY <1>6, <2>6, <3>2
      <4> QED
        BY <1>10, <2>3, <4>1
    <3> QED
      BY <3>1, <3>2
  <2>7. Window' = Append(Window, b)
    BY <1>b, <2>1, <2>5, <2>6, SeqEqual
  <2> QED
    BY <1>9, <1>10, <1>12, <2>7 DEF Abstract!Slid
<1>13. CASE Count = Size
  <2>1. Oldest = s_head /\ Oldest' = s_head' /\ Count' = Size
    BY <1>4, <1>5, <1>13 DEF Oldest
  <2>2. Window # <<>> /\ Tail(Window) \in Seq(Bytes) /\ Len(Tail(Window)) = Size - 1
    BY <1>4, <1>10, <1>13, HeadTailProperties
  <2>3. ASSUME NEW i \in 1 .. Size - 1 PROVE Window'[i] = Tail(Window)[i]
    <3>1. i \in 1 .. Size /\ i + 1 \in 1 .. Size /\ s_head + (i + 1) - 1 = s_head + i
      BY <1>4, <2>3
    <3>2. Tail(Window)[i] = s_buf[(s_head + i) % Size]
      <4>1. Tail(Window)[i] = Window[i + 1]
        BY <1>10, <2>2, <2>3, HeadTailProperties
      <4>2. Window[i + 1] = s_buf[(s_head + (i + 1) - 1) % Size]
        BY <1>13, <2>1, <3>1 DEF Window
      <4> QED
        BY <3>1, <4>1, <4>2
    <3>3. Window'[i] = s_buf'[(s_head' + i - 1) % Size]
      BY <1>11, <2>1, <3>1
    <3>4. (s_head + i) % Size = IF s_head + i < Size THEN s_head + i ELSE s_head + i - Size
      BY <1>4, <2>3, Wrap
    <3> DEFINE j == s_head' + i - 1
    <3>5. j \in Nat /\ j < 2 * Size
      BY <1>4, <1>8, <2>3
    <3>6. j % Size = IF j < Size THEN j ELSE j - Size
      <4> HIDE DEF j
      <4> QED
        BY <3>5, Wrap
    <3>7. /\ (s_head' + i - 1) % Size = (s_head + i) % Size
          /\ (s_head + i) % Size # s_head
          /\ (s_head + i) % Size \in Index
      BY <1>4, <1>8, <2>3, <3>4, <3>6 DEF Index
    <3> QED
      BY <1>0, <1>1, <3>2, <3>3, <3>7 DEF TypeOK
  <2>4. Window'[Size] = b
    <3>1. Window'[Size] = s_buf'[(s_head' + Size - 1) % Size]
      BY <1>4, <1>11, <2>1
    <3>2. s_head' + Size - 1 \in Nat /\ s_head' + Size - 1 < 2 * Size
      BY <1>4, <1>8
    <3>3. (s_head' + Size - 1) % Size = s_head
      BY <1>4, <1>8, <3>2, Wrap
    <3>4. s_head \in Index /\ s_buf \in [Index -> Bytes]
      BY <1>0 DEF TypeOK
    <3> QED
      BY <1>1, <3>1, <3>3, <3>4
  <2>5. /\ Append(Tail(Window), b) \in Seq(Bytes)
        /\ Len(Append(Tail(Window), b)) = Size
    BY <1>4, <1>a, <2>2
  <2>6. ASSUME NEW i \in 1 .. Size PROVE Window'[i] = Append(Tail(Window), b)[i]
    <3>1. CASE i = Size
      BY <1>4, <2>2, <2>4, <3>1
    <3>2. CASE i # Size
      <4>1. i \in 1 .. Size - 1
        BY <1>4, <2>6, <3>2
      <4> QED
        BY <2>2, <2>3, <4>1
    <3> QED
      BY <3>1, <3>2
  <2>7. Window' = Append(Tail(Window), b)
    BY <1>b, <2>1, <2>5, <2>6, SeqEqual
  <2> QED
    BY <1>4, <1>9, <1>10, <1>13, <2>7 DEF Abstract!Slid
<1> QED
  BY <1>4, <1>6, <1>12, <1>13

LEMMA HeadStep == Safety /\ [Next]_vars => HeadFollows'
<1> SUFFICES ASSUME Safety, [Next]_vars PROVE HeadFollows'
  OBVIOUS
<1>1. CASE \E t \in Tasks : WriteByte(t)
  BY <1>1, WriteSlides
<1>2. CASE \A t \in Tasks : ~WriteByte(t)
  BY <1>2, WindowStays DEF Safety, HeadFollows
<1> QED
  BY <1>1, <1>2

(* What was copied first stays true of the ring: nobody else writes.       *)
LEMMA PieceStep == Safety /\ [Next]_vars => FirstPiece'
<1> SUFFICES ASSUME Safety, [Next]_vars, (pc[Server] = "copy rest")'
             PROVE  (copied = IF Wrapped THEN Slice(s_head, TailLen)
                                         ELSE Slice(0, s_used))'
  BY DEF FirstPiece
<1> USE DEF Wrapped, TailLen, Slice
<1>0. /\ pc \in [Tasks -> {"out", "lock", "ring", "ask", "copy", "copy rest"}]
      /\ Server \in Tasks /\ FirstPiece
      /\ \A t \in Tasks : s_mutex = t <=> pc[t] \in {"ring", "copy", "copy rest"}
  BY LogRingAssumption DEF Safety, TypeOK, Exclusive, Locked
<1>1. CASE CopyOldest
  BY <1>1 DEF CopyOldest, ring
<1>2. CASE pc[Server] = "copy rest" /\ UNCHANGED <<ring, copied>>
  BY <1>0, <1>2 DEF FirstPiece, ring
<1>3. ASSUME NEW t \in Tasks, LogStep(t) PROVE pc[Server] = "copy rest" /\ UNCHANGED <<ring, copied>>
  <2>1. pc[Server] = "copy rest" /\ t # Server
    BY <1>0, <1>3 DEF LogStep, Format, TakeForLine, DropLine, WriteByte, LineDone,
                      Goes, Over
  <2>2. pc[t] # "ring"
    BY <1>0, <2>1
  <2> QED
    BY <1>3, <2>1, <2>2 DEF LogStep, Format, TakeForLine, DropLine, WriteByte, LineDone
<1>4. CASE Ask \/ TakeForCopy \/ GiveUp \/ NoMemory \/ CopyRest
  BY <1>0, <1>4 DEF Ask, TakeForCopy, GiveUp, NoMemory, CopyRest, Goes
<1>5. CASE UNCHANGED vars
  BY <1>2, <1>5 DEF vars
<1> QED
  BY <1>1, <1>2, <1>3, <1>4, <1>5 DEF Next

(* The mutex, the lines under way and the ring's indices agree.            *)
THEOREM SafetyHolds == Spec => []Safety
<1>1. Safety /\ [Next]_vars => Safety'
  BY TypesStep, LocksStep, LinesStep, HeadStep, PieceStep DEF Safety
<1> QED
  BY <1>1, InitSafe, PTL DEF Spec

(* The variables keep their types: in particular s_head never leaves the   *)
(* ring and s_used never exceeds it.                                       *)
THEOREM LogTypeCorrect == Spec => []TypeOK
<1>1. Safety => TypeOK
  BY DEF Safety
<1> QED
  BY <1>1, SafetyHolds, PTL

-----------------------------------------------------------------------------
(* The two pieces of a snapshot are the window.                            *)
HalfCopied == pc[Server] = "copy rest"

LEMMA PiecesAreWindow ==
  ASSUME Safety, HalfCopied
  PROVE  Window = IF Wrapped THEN copied \o Slice(0, s_head) ELSE copied
<1>0. TypeOK /\ HeadFollows /\ FirstPiece /\ Server \in Tasks
  BY LogRingAssumption DEF Safety
<1>1. /\ s_head \in Nat /\ s_head < Size /\ s_used \in Nat /\ s_used <= Size
      /\ Size \in Nat /\ Size > 0
  BY <1>0, HeadRange, LogRingAssumption
<1>2. s_mutex = Server
  BY <1>0 DEF Safety, Exclusive, Locked, HalfCopied
<1>3. Count = s_used
  <2>1. Fresh = 0
    BY <1>2 DEF Fresh, HalfCopied
  <2> QED
    BY <1>1, <2>1 DEF Count, Clamped
<1>4. Window \in Seq(Bytes) /\ Len(Window) = Count
  BY <1>0, WindowIsSeq
<1>5. CASE ~Wrapped
  <2>1. copied = Slice(0, s_used) /\ Oldest = 0
    <3>1. copied = Slice(0, s_used)
      BY <1>0, <1>5 DEF FirstPiece, HalfCopied
    <3>2. s_used < Size
      BY <1>1, <1>5 DEF Wrapped
    <3> QED
      BY <1>3, <3>1, <3>2 DEF Oldest
  <2>2. ASSUME NEW i \in 1 .. s_used PROVE s_buf[(0 + i - 1) % Size] = s_buf[0 + i - 1]
    <3> DEFINE j == 0 + i - 1
    <3>1. j \in Nat /\ j < Size /\ j < 2 * Size
      BY <1>1, <2>2
    <3>2. j % Size = j
      <4> HIDE DEF j
      <4> QED
        BY <3>1, Wrap
    <3> QED
      BY <3>2
  <2>3. Window = Slice(0, s_used)
    BY <1>3, <2>1, <2>2 DEF Window, Slice
  <2> QED
    BY <1>5, <2>1, <2>3
<1>6. CASE Wrapped
  <2> DEFINE one == Slice(s_head, TailLen)
             two == Slice(0, s_head)
  <2>1. copied = one /\ Oldest = s_head /\ Count = Size
    <3>1. copied = one
      BY <1>0, <1>6 DEF FirstPiece, HalfCopied
    <3>2. Count = Size
      BY <1>3, <1>6 DEF Wrapped
    <3>3. ~(Count < Size)
      BY <1>1, <3>2
    <3> QED
      BY <3>1, <3>2, <3>3 DEF Oldest
  <2>2. /\ one \in Seq(Bytes) /\ Len(one) = TailLen
        /\ two \in Seq(Bytes) /\ Len(two) = s_head
        /\ TailLen = Size - s_head
    BY <1>0, SliceIsSeq DEF TailLen
  <2>3. /\ one \o two \in Seq(Bytes) /\ Len(one \o two) = Size
        /\ \A i \in 1 .. Size : (one \o two)[i] =
               IF i <= Size - s_head THEN one[i] ELSE two[i - (Size - s_head)]
    <3> HIDE DEF one, two
    <3>1. TailLen + s_head = Size
      BY <1>1, <2>2
    <3> QED
      BY <2>2, <3>1, ConcatProperties
  <2>4. ASSUME NEW i \in 1 .. Size PROVE Window[i] = (one \o two)[i]
    <3> DEFINE j == s_head + i - 1
    <3>1. j \in Nat /\ j < 2 * Size
      BY <1>1
    <3>2. j % Size = IF j < Size THEN j ELSE j - Size
      <4> HIDE DEF j
      <4> QED
        BY <3>1, Wrap
    <3>3. Window[i] = s_buf[j % Size]
      BY <2>1 DEF Window
    <3>4. CASE i <= Size - s_head
      <4>1. i \in 1 .. TailLen /\ j < Size
        BY <1>1, <2>2, <3>4
      <4>2. one[i] = s_buf[j]
        BY <4>1 DEF Slice
      <4> QED
        BY <2>3, <3>2, <3>3, <3>4, <4>1, <4>2
    <3>5. CASE ~(i <= Size - s_head)
      <4>1. /\ i - (Size - s_head) \in 1 .. s_head /\ ~(j < Size)
            /\ 0 + (i - (Size - s_head)) - 1 = j - Size
        BY <1>1, <3>5
      <4>2. two[i - (Size - s_head)] = s_buf[j - Size]
        BY <4>1 DEF Slice
      <4> QED
        BY <2>3, <3>2, <3>3, <3>5, <4>1, <4>2
    <3> QED
      BY <3>4, <3>5
  <2>5. Window = one \o two
    <3> HIDE DEF one, two
    <3> QED
      BY <1>4, <2>1, <2>3, <2>4, SeqEqual
  <2> QED
    BY <1>6, <2>1, <2>5
<1> QED
  BY <1>5, <1>6

-----------------------------------------------------------------------------
InLine == s_mutex # "nobody" /\ pc[s_mutex] = "ring"

LEMMA InLineOf ==
  ASSUME Safety, NEW t \in Tasks, s_mutex = t
  PROVE  InLine <=> pc[t] = "ring"
BY LogRingAssumption DEF InLine

(* Every step of the ring is a step of the window, or changes nothing it   *)
(* shows.                                                                  *)
LEMMA StepRefines == Safety /\ Safety' /\ [Next]_vars => [Abstract!Next]_(Abstract!vars)
<1> SUFFICES ASSUME Safety, Safety', [Next]_vars
             PROVE  [Abstract!Next]_(Abstract!vars)
  OBVIOUS
<1> USE DEF Goes, Unlocked, Unlocks, Over
<1>0. /\ pc \in [Tasks -> {"out", "lock", "ring", "ask", "copy", "copy rest"}]
      /\ s_mutex \in Tasks \union {"nobody"} /\ "nobody" \notin Tasks
      /\ \A t \in Tasks : s_mutex = t <=> pc[t] \in {"ring", "copy", "copy rest"}
      /\ Server \in Tasks
  BY LogRingAssumption DEF Safety, TypeOK, Exclusive, Locked
<1>00. InLine \in BOOLEAN /\ InLine' \in BOOLEAN
  BY DEF InLine
<1>1. ASSUME NEW t \in Tasks, WriteByte(t) PROVE \E b \in Bytes : Abstract!Add(b)
  <2> DEFINE b == <<t, written[t] + 1, len[t]>>
  <2>1. b \in Bytes
    <3>1. written[t] \in 0 .. LineMax /\ len[t] \in 0 .. LineMax /\ written[t] < len[t]
      BY <1>1 DEF Safety, TypeOK, WriteByte
    <3>2. written[t] + 1 \in 1 .. LineMax /\ len[t] \in 1 .. LineMax
      BY <3>1, LogRingAssumption
    <3> QED
      BY <3>2 DEF Bytes
  <2>2. Window' = Abstract!Slid(Window, b)
    BY <1>1, WriteSlides
  <2>3. InLine /\ UNCHANGED <<InLine, snap>>
    BY <1>0, <1>1 DEF WriteByte, InLine
  <2>4. Abstract!Add(b)
    BY <2>2, <2>3 DEF Abstract!Add, InLine
  <2> QED
    BY <2>1, <2>4
<1>2. CASE \A t \in Tasks : ~WriteByte(t)
  <2>0. UNCHANGED Window
    BY <1>2, WindowStays
  <2>1. ASSUME NEW t \in Tasks, TakeForLine(t) PROVE Abstract!BeginLine
    <3>1. ~InLine /\ InLine' /\ UNCHANGED snap
      BY <1>0, <2>1 DEF TakeForLine, InLine
    <3> QED
      BY <2>0, <3>1, Zenon DEF Abstract!BeginLine, InLine
  <2>2. ASSUME NEW t \in Tasks, LineDone(t) PROVE Abstract!EndLine
    <3>1. InLine /\ ~InLine' /\ UNCHANGED snap
      BY <1>0, <2>2 DEF LineDone, InLine
    <3> QED
      BY <2>0, <3>1, Zenon DEF Abstract!EndLine, InLine
  <2>3. ASSUME CopyRest PROVE Abstract!Snapshot
    <3>1. ~InLine /\ ~InLine'
      BY <1>0, <2>3 DEF CopyRest, InLine
    <3>2. snap' = Window
      <4>1. HalfCopied
        BY <2>3 DEF CopyRest, HalfCopied
      <4>2. snap' = IF Wrapped THEN copied \o Slice(0, s_head) ELSE copied
        BY <2>3 DEF CopyRest
      <4> QED
        BY <4>1, <4>2, PiecesAreWindow
    <3>3. InLine' = InLine
      BY <1>00, <3>1
    <3> QED
      BY <2>0, <3>1, <3>2, <3>3, Zenon DEF Abstract!Snapshot, InLine
  <2>4. ASSUME NEW t \in Tasks, Format(t) \/ DropLine(t) PROVE UNCHANGED <<InLine, snap>>
    <3>1. UNCHANGED <<s_mutex, snap>>
      BY <2>4 DEF Format, DropLine
    <3>2. s_mutex # t
      BY <1>0, <2>4 DEF Format, DropLine
    <3>3. s_mutex # "nobody" => pc'[s_mutex] = pc[s_mutex]
      BY <1>0, <2>4, <3>2 DEF Format, DropLine
    <3> QED
      BY <3>1, <3>3 DEF InLine
  <2>5. ASSUME Ask \/ TakeForCopy \/ GiveUp \/ NoMemory \/ CopyOldest
        PROVE  UNCHANGED <<InLine, snap>>
    <3>1. UNCHANGED snap
      BY <2>5 DEF Ask, TakeForCopy, GiveUp, NoMemory, CopyOldest
    <3>2. ASSUME Ask \/ GiveUp PROVE InLine' <=> InLine
      <4>1. s_mutex' = s_mutex /\ s_mutex # Server
        BY <1>0, <3>2 DEF Ask, GiveUp
      <4>2. s_mutex # "nobody" => pc'[s_mutex] = pc[s_mutex]
        BY <1>0, <3>2, <4>1 DEF Ask, GiveUp
      <4> QED
        BY <4>1, <4>2 DEF InLine
    <3>3. ASSUME TakeForCopy \/ NoMemory \/ CopyOldest PROVE ~InLine /\ ~InLine'
      <4>1. CASE TakeForCopy
        BY <1>0, <4>1 DEF TakeForCopy, InLine
      <4>2. CASE NoMemory
        BY <1>0, <4>2 DEF NoMemory, OutOfMemoryUnlocks, InLine
      <4>3. CASE CopyOldest
        BY <1>0, <4>3 DEF CopyOldest, InLine, ring
      <4> QED
        BY <3>3, <4>1, <4>2, <4>3
    <3>4. InLine' = InLine
      <4>1. InLine' <=> InLine
        BY <2>5, <3>2, <3>3
      <4> QED
        BY <1>00, <4>1
    <3> QED
      BY <3>1, <3>4
  <2>6. ASSUME UNCHANGED vars PROVE UNCHANGED <<InLine, snap>>
    <3>1. UNCHANGED <<s_mutex, pc, snap>>
      BY <2>6 DEF vars
    <3> QED
      BY <3>1 DEF InLine
  <2>7. ASSUME UNCHANGED <<InLine, snap>> PROVE UNCHANGED Abstract!vars
    BY <2>0, <2>7, Zenon DEF Abstract!vars, InLine
  <2> QED
    BY <1>2, <2>1, <2>2, <2>3, <2>4, <2>5, <2>6, <2>7
    DEF Next, LogStep, Abstract!Next
<1> QED
  BY <1>1, <1>2 DEF Abstract!Next

(* The ring implements the window: log_buffer.h's "the current buffer      *)
(* contents in chronological order", for any ring, lines and tasks.        *)
THEOREM RingImplementsWindow == Spec => ImplementsWindow
<1>1. Init => Abstract!Init
  <2> SUFFICES ASSUME Init PROVE Abstract!Init
    OBVIOUS
  <2>1. s_mutex = "nobody" /\ snap = <<>> /\ s_used = 0
    BY DEF Init
  <2>2. Count = 0
    BY <2>1, LogRingAssumption DEF Count, Clamped, Fresh
  <2>3. Window = <<>>
    BY <2>2 DEF Window
  <2> QED
    BY <2>1, <2>3 DEF Abstract!Init
<1> QED
  BY <1>1, StepRefines, SafetyHolds, PTL DEF Spec, ImplementsWindow, Abstract!Spec

-----------------------------------------------------------------------------
(* In the window, after a byte comes the next of its line, or the first of *)
(* another; and its last byte ends a line, or is the one written last.     *)

NextTo(b, c) ==
  IF b[2] < b[3] THEN c = <<b[1], b[2] + 1, b[3]>> ELSE c[2] = 1

Joined(s) == \A i \in 1 .. Len(s) : i < Len(s) => NextTo(s[i], s[i + 1])

EndsWell ==
  \A i \in 1 .. Len(Window) : i = Len(Window) =>
    IF Fresh > 0 THEN Window[i] = <<s_mutex, Fresh, len[s_mutex]>>
                 ELSE ~(Window[i][2] < Window[i][3])

Unbroken == Joined(Window) /\ EndsWell /\ LinesWhole

LEMMA SlidJoins ==
  ASSUME NEW s \in Seq(Bytes), NEW b \in Bytes, Joined(s), Len(s) <= Size,
         \A i \in 1 .. Len(s) : i = Len(s) => NextTo(s[i], b)
  PROVE  /\ Joined(Abstract!Slid(s, b)) /\ Abstract!Slid(s, b) \in Seq(Bytes)
         /\ \A i \in 1 .. Len(Abstract!Slid(s, b)) :
              i = Len(Abstract!Slid(s, b)) => Abstract!Slid(s, b)[i] = b
<1>1. Size \in Nat /\ Size > 0 /\ Len(s) \in Nat
  BY LogRingAssumption
<1>2. CASE Len(s) < Size
  <2> DEFINE n == Append(s, b)
  <2>1. Abstract!Slid(s, b) = n
    BY <1>2 DEF Abstract!Slid
  <2>2. /\ n \in Seq(Bytes) /\ Len(n) = Len(s) + 1
        /\ \A i \in 1 .. Len(s) : n[i] = s[i]
        /\ n[Len(s) + 1] = b
    BY AppendProperties
  <2> HIDE DEF n
  <2>3. ASSUME NEW i \in 1 .. Len(n), i < Len(n) PROVE NextTo(n[i], n[i + 1])
    <3>1. i \in 1 .. Len(s) /\ n[i] = s[i]
      BY <1>1, <2>2, <2>3
    <3>2. CASE i = Len(s)
      BY <2>2, <3>1, <3>2
    <3>3. CASE i < Len(s)
      <4>1. i + 1 \in 1 .. Len(s)
        BY <1>1, <3>1, <3>3
      <4>2. n[i + 1] = s[i + 1]
        BY <2>2, <4>1
      <4> QED
        BY <3>1, <3>3, <4>2 DEF Joined
    <3> QED
      BY <1>1, <3>1, <3>2, <3>3
  <2>4. Joined(n)
    BY <2>3 DEF Joined
  <2> QED
    BY <1>1, <2>1, <2>2, <2>4
<1>3. CASE ~(Len(s) < Size)
  <2> DEFINE n == Append(Tail(s), b)
  <2>1. Abstract!Slid(s, b) = n /\ Len(s) = Size /\ s # <<>>
    BY <1>1, <1>3 DEF Abstract!Slid
  <2>2. /\ Tail(s) \in Seq(Bytes) /\ Len(Tail(s)) = Len(s) - 1
        /\ \A i \in 1 .. Len(Tail(s)) : Tail(s)[i] = s[i + 1]
    BY <2>1, HeadTailProperties
  <2>3. /\ n \in Seq(Bytes) /\ Len(n) = Len(s)
        /\ \A i \in 1 .. Len(s) - 1 : n[i] = s[i + 1]
        /\ n[Len(s)] = b
    BY <1>1, <2>1, <2>2, AppendProperties
  <2> HIDE DEF n
  <2>4. ASSUME NEW i \in 1 .. Len(n), i < Len(n) PROVE NextTo(n[i], n[i + 1])
    <3>1. i \in 1 .. Len(s) - 1 /\ i + 1 \in 1 .. Len(s) /\ n[i] = s[i + 1]
      BY <1>1, <2>3, <2>4
    <3>2. CASE i + 1 = Len(s)
      BY <2>3, <3>1, <3>2
    <3>3. CASE i + 1 < Len(s)
      <4>1. i + 1 \in 1 .. Len(s) - 1
        BY <1>1, <3>1, <3>3
      <4>2. n[i + 1] = s[(i + 1) + 1]
        BY <2>3, <4>1
      <4> QED
        BY <3>1, <3>3, <4>2 DEF Joined
    <3> QED
      BY <1>1, <3>1, <3>2, <3>3
  <2>5. Joined(n)
    BY <2>4 DEF Joined
  <2> QED
    BY <1>1, <2>1, <2>3, <2>5
<1> QED
  BY <1>2, <1>3

LEMMA WriteJoins ==
  ASSUME Safety, Unbroken, NEW t \in Tasks, WriteByte(t)
  PROVE  Unbroken'
<1> DEFINE b == <<t, written[t] + 1, len[t]>>
<1>1. /\ written[t] \in Nat /\ len[t] \in Nat /\ written[t] < len[t] /\ len[t] <= LineMax
      /\ s_mutex = t /\ t # "nobody" /\ pc[t] = "ring"
      /\ written \in [Tasks -> 0 .. LineMax] /\ pc' = pc
      /\ s_mutex' = s_mutex /\ len' = len /\ snap' = snap
      /\ written' = [written EXCEPT ![t] = @ + 1]
  <2>1. /\ written[t] \in 0 .. LineMax /\ len[t] \in 0 .. LineMax /\ LineMax \in Nat
        /\ written \in [Tasks -> 0 .. LineMax]
    BY LogRingAssumption DEF Safety, TypeOK
  <2>2. /\ pc[t] = "ring" /\ written[t] < len[t] /\ UNCHANGED <<s_mutex, pc, len, snap>>
        /\ written' = [written EXCEPT ![t] = @ + 1]
    BY DEF WriteByte
  <2>3. s_mutex = t /\ t # "nobody"
    BY <2>2, LogRingAssumption DEF Safety, Exclusive, Locked
  <2>4. written[t] \in Nat /\ len[t] \in Nat /\ len[t] <= LineMax
    BY <2>1
  <2> QED
    BY <2>1, <2>2, <2>3, <2>4
<1>2. b \in Bytes
  BY <1>1, LogRingAssumption DEF Bytes
<1>3. Window' = Abstract!Slid(Window, b)
  BY WriteSlides
<1>4. Fresh = written[t] /\ Fresh' = written[t] + 1
  BY <1>1 DEF Fresh
<1>5. Window \in Seq(Bytes) /\ Len(Window) <= Size
  BY WindowIsSeq, CountRange, LogRingAssumption DEF Safety
<1>6. \A i \in 1 .. Len(Window) : i = Len(Window) => NextTo(Window[i], b)
  <2> TAKE i \in 1 .. Len(Window)
  <2> HAVE i = Len(Window)
  <2>1. CASE Fresh > 0
    <3>1. Window[i] = <<t, written[t], len[t]>>
      BY <1>1, <1>4, <2>1 DEF Unbroken, EndsWell
    <3> QED
      BY <1>1, <3>1 DEF NextTo
  <2>2. CASE ~(Fresh > 0)
    BY <1>1, <1>4, <2>2 DEF Unbroken, EndsWell, NextTo
  <2> QED
    BY <2>1, <2>2
<1>7. /\ Joined(Window)'
      /\ \A i \in 1 .. Len(Window') : i = Len(Window') => Window'[i] = b
  <2> HIDE DEF b
  <2> QED
    BY <1>2, <1>3, <1>5, <1>6, SlidJoins DEF Unbroken, Joined
<1>8. EndsWell'
  BY <1>1, <1>4, <1>7 DEF EndsWell
<1>9. LinesWhole'
  BY <1>1 DEF Unbroken, LinesWhole
<1> QED
  BY <1>7, <1>8, <1>9 DEF Unbroken

LEMMA OthersKeep ==
  ASSUME Safety, Unbroken, [Next]_vars, \A t \in Tasks : ~WriteByte(t)
  PROVE  Unbroken'
<1>1. UNCHANGED Window
  BY WindowStays
<1>0. /\ pc \in [Tasks -> {"out", "lock", "ring", "ask", "copy", "copy rest"}]
      /\ s_mutex \in Tasks \union {"nobody"} /\ "nobody" \notin Tasks
      /\ \A t \in Tasks : s_mutex = t <=> pc[t] \in {"ring", "copy", "copy rest"}
      /\ Server \in Tasks
      /\ len \in [Tasks -> 0 .. LineMax] /\ written \in [Tasks -> 0 .. LineMax]
  BY LogRingAssumption DEF Safety, TypeOK, Exclusive, Locked
<1>2. Joined(Window)'
  BY <1>1 DEF Unbroken, Joined
<1>3. EndsWell'
  <2>1. ASSUME NEW t \in Tasks, LineDone(t) PROVE EndsWell'
    <3>1. Fresh = len[t] /\ Fresh' = 0 /\ s_mutex = t
      BY <1>0, <2>1 DEF LineDone, Unlocks, Fresh
    <3>2. len[t] \in Nat
      <4>1. len[t] \in 0 .. LineMax
        BY <1>0
      <4> QED
        BY <4>1, LogRingAssumption
    <3>3. ASSUME NEW i \in 1 .. Len(Window), i = Len(Window)
          PROVE  ~(Window[i][2] < Window[i][3])
      <4>1. CASE len[t] > 0
        <5>1. Window[i] = <<t, len[t], len[t]>>
          BY <3>1, <3>3, <4>1 DEF Unbroken, EndsWell
        <5> QED
          BY <3>2, <5>1
      <4>2. CASE ~(len[t] > 0)
        BY <3>1, <3>3, <4>2 DEF Unbroken, EndsWell
      <4> QED
        BY <4>1, <4>2
    <3> QED
      BY <1>1, <3>1, <3>3 DEF EndsWell
  <2>2. CASE \A t \in Tasks : ~LineDone(t)
    <3>1. Fresh' = Fresh
      BY <2>2, FreshStays
    <3>2. Fresh > 0 => s_mutex' = s_mutex /\ len'[s_mutex] = len[s_mutex]
      <4> HAVE Fresh > 0
      <4>1. s_mutex \in Tasks /\ pc[s_mutex] = "ring"
        <5>1. s_mutex # "nobody" /\ pc[s_mutex] = "ring"
          <6>1. Fresh # 0
            OBVIOUS
          <6> QED
            BY <6>1 DEF Fresh
        <5> QED
          BY <1>0, <5>1
      <4>2. ASSUME NEW t \in Tasks, Format(t) \/ DropLine(t)
            PROVE  s_mutex' = s_mutex /\ len'[s_mutex] = len[s_mutex]
        <5>1. pc[t] # "ring" /\ s_mutex' = s_mutex
          BY <4>2 DEF Format, DropLine
        <5> QED
          BY <1>0, <4>1, <4>2, <5>1 DEF Format, DropLine, Over
      <4>3. ASSUME NEW t \in Tasks, TakeForLine(t) PROVE FALSE
        BY <1>0, <4>1, <4>3 DEF TakeForLine, Unlocked
      <4>4. ASSUME Ask \/ GiveUp \/ CopyOldest \/ UNCHANGED vars
            PROVE  s_mutex' = s_mutex /\ len' = len
        BY <4>4 DEF Ask, GiveUp, CopyOldest, vars
      <4>5. ASSUME TakeForCopy \/ NoMemory \/ CopyRest PROVE FALSE
        BY <1>0, <4>1, <4>5 DEF TakeForCopy, NoMemory, CopyRest, Unlocked
      <4> QED
        BY <2>2, <4>2, <4>3, <4>4, <4>5 DEF Next, LogStep
    <3> QED
      BY <1>1, <3>1, <3>2 DEF Unbroken, EndsWell
  <2> QED
    BY <2>1, <2>2
<1>4. LinesWhole'
  <2>1. CASE CopyRest
    <3>1. Fresh = 0 /\ HalfCopied
      BY <1>0, <2>1 DEF CopyRest, Fresh, HalfCopied
    <3>2. snap' = Window
      BY <2>1, <3>1, PiecesAreWindow DEF CopyRest
    <3>3. Window \in Seq(Bytes)
      BY WindowIsSeq DEF Safety
    <3>4. DOMAIN Window = 1 .. Len(Window) /\ Len(Window) \in Nat
      BY <3>3
    <3>5. ASSUME NEW i \in 1 .. Len(Window)
          PROVE  IF Window[i][2] < Window[i][3]
                   THEN /\ i < Len(Window)
                        /\ Window[i + 1] = <<Window[i][1], Window[i][2] + 1, Window[i][3]>>
                   ELSE i < Len(Window) => Window[i + 1][2] = 1
      <4>1. i < Len(Window) => NextTo(Window[i], Window[i + 1])
        BY DEF Unbroken, Joined
      <4>2. i = Len(Window) => ~(Window[i][2] < Window[i][3])
        BY <3>1 DEF Unbroken, EndsWell
      <4> DEFINE n == Len(Window)
      <4>3. i < Len(Window) \/ i = Len(Window)
        <5>1. n \in Nat /\ i \in 1 .. n
          BY <3>4
        <5> HIDE DEF n
        <5>2. i < n \/ i = n
          BY <5>1
        <5> QED
          BY <5>2 DEF n
      <4> QED
        BY <4>1, <4>2, <4>3 DEF NextTo
    <3> QED
      BY <3>2, <3>4, <3>5 DEF LinesWhole
  <2>2. CASE UNCHANGED snap
    BY <2>2 DEF Unbroken, LinesWhole
  <2>3. CopyRest \/ UNCHANGED snap
    BY DEF Next, LogStep, Format, TakeForLine, DropLine, WriteByte, LineDone, Ask,
           TakeForCopy, GiveUp, NoMemory, CopyOldest, vars
  <2> QED
    BY <2>1, <2>2, <2>3
<1> QED
  BY <1>2, <1>3, <1>4 DEF Unbroken

(* In a snapshot no line is cut by another or lacks its end, whoever logs  *)
(* while it is taken (ring_write and log_buffer_snapshot under s_mutex).   *)
THEOREM SnapshotsHaveWholeLines == Spec => []LinesWhole
<1>1. Init => Unbroken
  <2> SUFFICES ASSUME Init PROVE Unbroken
    OBVIOUS
  <2>1. Len(Window) = 0 /\ snap = <<>>
    <3>1. s_mutex = "nobody" /\ s_used = 0
      BY DEF Init
    <3>2. Count = 0
      BY <3>1, LogRingAssumption DEF Count, Clamped, Fresh
    <3> QED
      BY <3>2, InitSafe, WindowIsSeq DEF Init, Safety
  <2>2. Joined(Window) /\ EndsWell
    BY <2>1 DEF Joined, EndsWell
  <2>3. LinesWhole
    BY <2>1 DEF LinesWhole
  <2> QED
    BY <2>2, <2>3 DEF Unbroken
<1>2. Safety /\ Unbroken /\ [Next]_vars => Unbroken'
  <2> SUFFICES ASSUME Safety, Unbroken, [Next]_vars PROVE Unbroken'
    OBVIOUS
  <2>1. CASE \E t \in Tasks : WriteByte(t)
    BY <2>1, WriteJoins
  <2>2. CASE \A t \in Tasks : ~WriteByte(t)
    BY <2>2, OthersKeep
  <2> QED
    BY <2>1, <2>2
<1>3. Unbroken => LinesWhole
  BY DEF Unbroken
<1> QED
  BY <1>1, <1>2, <1>3, SafetyHolds, PTL DEF Spec
=============================================================================
