------------------------------- MODULE LogRing -------------------------------
(***************************************************************************)
(* The log buffer, main/log_buffer.c: every task that logs writes its line *)
(* into one ring, byte after byte, under s_mutex; the HTTP server's task   *)
(* copies the ring out under the same mutex, in two pieces when the ring   *)
(* has wrapped.  A task that waits too long for the mutex drops its line   *)
(* (50 ms) or gives up its snapshot (200 ms).                              *)
(*                                                                         *)
(* A byte is named by the task, its place in the line and the length of    *)
(* the line, so that a torn line can be told from a whole one.             *)
(***************************************************************************)
EXTENDS Naturals, Sequences

CONSTANTS
  Tasks,    \* the tasks that log
  Server,   \* the one that also serves GET /logs
  Size,     \* LOG_BUFFER_SIZE
  LineMax   \* sizeof(line) - 1

ASSUME LogRingAssumption ==
  /\ Size \in Nat \ {0} /\ LineMax \in Nat \ {0}
  /\ Server \in Tasks /\ "nobody" \notin Tasks

VARIABLES
  s_buf, s_head, s_used,
  s_mutex,          \* its holder
  pc,               \* where each task is
  len, written,     \* its line: the length, the bytes already in the ring
  copied,           \* the snapshot under way
  snap              \* the last snapshot that was answered

ring == <<s_buf, s_head, s_used>>
vars == <<ring, s_mutex, pc, len, written, copied, snap>>

Index == 0 .. Size - 1
Bytes == Tasks \X (1 .. LineMax) \X (1 .. LineMax)

-----------------------------------------------------------------------------
(* Defective variants. *)

NeverWraps == s_head' = IF s_head + 1 < Size THEN s_head + 1 ELSE s_head
LockKept == UNCHANGED s_mutex
NotExclusive == TRUE

-----------------------------------------------------------------------------
Init ==
  /\ s_buf \in [Index -> {<<Server, 1, 1>>}] /\ s_head = 0 /\ s_used = 0
  /\ s_mutex = "nobody"
  /\ pc = [t \in Tasks |-> "out"]
  /\ len = [t \in Tasks |-> 0] /\ written = [t \in Tasks |-> 0]
  /\ copied = <<>> /\ snap = <<>>

Goes(t, place) == pc' = [pc EXCEPT ![t] = place]

Unlocked == s_mutex = "nobody"
Unlocks == s_mutex' = "nobody"

Truncated(n) == IF n > LineMax THEN LineMax ELSE n

(* The hook returns, and its local line is gone.                           *)
Over(t) == Goes(t, "out") /\ len' = [len EXCEPT ![t] = 0]

(* log_vprintf_hook formats a line; an empty one never reaches the ring.   *)
Format(t) ==
  /\ pc[t] = "out" /\ Goes(t, "lock")
  /\ \E n \in 1 .. LineMax + 1 : len' = [len EXCEPT ![t] = Truncated(n)]
  /\ UNCHANGED <<ring, s_mutex, written, copied, snap>>

TakeForLine(t) ==
  /\ pc[t] = "lock" /\ Unlocked
  /\ s_mutex' = t /\ Goes(t, "ring")
  /\ UNCHANGED <<ring, len, written, copied, snap>>

(* The mutex is not had within 50 ms: the line is dropped.                 *)
DropLine(t) ==
  /\ pc[t] = "lock" /\ s_mutex # "nobody"
  /\ Over(t)
  /\ UNCHANGED <<ring, s_mutex, written, copied, snap>>

Advances == s_head' = (s_head + 1) % Size

(* One turn of ring_write's loop.                                          *)
WriteByte(t) ==
  /\ pc[t] = "ring" /\ written[t] < len[t]
  /\ s_buf' = [s_buf EXCEPT ![s_head] = <<t, written[t] + 1, len[t]>>]
  /\ Advances
  /\ written' = [written EXCEPT ![t] = @ + 1]
  /\ UNCHANGED <<s_used, s_mutex, pc, len, copied, snap>>

Clamped(n) == IF s_used + n > Size THEN Size ELSE s_used + n

(* Its last lines, and the mutex is given back.                            *)
LineDone(t) ==
  /\ pc[t] = "ring" /\ written[t] = len[t]
  /\ s_used' = Clamped(len[t])
  /\ Unlocks /\ Over(t) /\ written' = [written EXCEPT ![t] = 0]
  /\ UNCHANGED <<s_buf, s_head, copied, snap>>

(* log_buffer_snapshot, for GET /logs.                                     *)
Ask ==
  /\ pc[Server] = "out" /\ Goes(Server, "ask")
  /\ UNCHANGED <<ring, s_mutex, len, written, copied, snap>>

TakeForCopy ==
  /\ pc[Server] = "ask" /\ Unlocked
  /\ s_mutex' = Server /\ Goes(Server, "copy")
  /\ UNCHANGED <<ring, len, written, copied, snap>>

(* The mutex is not had within 200 ms: "(log buffer empty)".               *)
GiveUp ==
  /\ pc[Server] = "ask" /\ s_mutex # "nobody"
  /\ Goes(Server, "out")
  /\ UNCHANGED <<ring, s_mutex, len, written, copied, snap>>

OutOfMemoryUnlocks == Unlocks

NoMemory ==
  /\ pc[Server] = "copy"
  /\ OutOfMemoryUnlocks /\ Goes(Server, "out")
  /\ UNCHANGED <<ring, len, written, copied, snap>>

(* n bytes of the ring from index i on, as memcpy takes them.              *)
Slice(i, n) == [k \in 1 .. n |-> s_buf[i + k - 1]]

Wrapped == s_used = Size
TailLen == Size - s_head

CopyOldest ==
  /\ pc[Server] = "copy" /\ Goes(Server, "copy rest")
  /\ copied' = IF Wrapped THEN Slice(s_head, TailLen) ELSE Slice(0, s_used)
  /\ UNCHANGED <<ring, s_mutex, len, written, snap>>

CopyRest ==
  /\ pc[Server] = "copy rest"
  /\ snap' = IF Wrapped THEN copied \o Slice(0, s_head) ELSE copied
  /\ copied' = <<>>
  /\ Unlocks /\ Goes(Server, "out")
  /\ UNCHANGED <<ring, len, written>>

LogStep(t) == Format(t) \/ TakeForLine(t) \/ DropLine(t) \/ WriteByte(t) \/ LineDone(t)

Next ==
  \/ \E t \in Tasks : LogStep(t)
  \/ Ask \/ TakeForCopy \/ GiveUp \/ NoMemory \/ CopyOldest \/ CopyRest

Spec == Init /\ [][Next]_vars

(* What runs under the mutex runs to its end: it does not block, and the   *)
(* mutex lends its holder the priority of those who wait.                  *)
FairSpec ==
  /\ Spec
  /\ \A t \in Tasks : WF_vars(WriteByte(t) \/ LineDone(t))
  /\ WF_vars(NoMemory \/ CopyOldest \/ CopyRest)

-----------------------------------------------------------------------------
(* Properties. *)

(* The bytes of the line under way that are already in the ring.           *)
Fresh == IF s_mutex # "nobody" /\ pc[s_mutex] = "ring" THEN written[s_mutex] ELSE 0
Count == Clamped(Fresh)

(* What the ring holds, oldest byte first.                                 *)
Oldest == IF Count < Size THEN 0 ELSE s_head
Window == [i \in 1 .. Count |-> s_buf[(Oldest + i - 1) % Size]]

(* The types of the variables.                                             *)
TypeOK ==
  /\ s_buf \in [Index -> Bytes] /\ s_head \in Index /\ s_used \in 0 .. Size
  /\ s_mutex \in Tasks \union {"nobody"}
  /\ pc \in [Tasks -> {"out", "lock", "ring", "ask", "copy", "copy rest"}]
  /\ len \in [Tasks -> 0 .. LineMax] /\ written \in [Tasks -> 0 .. LineMax]
  /\ copied \in Seq(Bytes) /\ snap \in Seq(Bytes)

(* log_buffer.h: a snapshot is "the current buffer contents in             *)
(* chronological order".  The ring, its wrapping index and the clamped     *)
(* count implement a window that slides over all that is logged, and a     *)
(* snapshot is that window between two lines, whoever logs meanwhile.      *)
Abstract ==
  INSTANCE LogWindow WITH
    window <- Window,
    inLine <- s_mutex # "nobody" /\ pc[s_mutex] = "ring"
ImplementsWindow == Abstract!Spec

(* In a snapshot no line is cut by another, none lacks its end, and none   *)
(* but the oldest its beginning: after a byte comes the next of its line,  *)
(* and after the last of a line the first of another or nothing.           *)
LinesWhole ==
  \A i \in DOMAIN snap :
    LET b == snap[i] IN
      IF b[2] < b[3]
        THEN i < Len(snap) /\ snap[i + 1] = <<b[1], b[2] + 1, b[3]>>
        ELSE i < Len(snap) => snap[i + 1][2] = 1

(* A mutex that is taken is given back, on the path without memory too:    *)
(* otherwise every later line of every task would be dropped.              *)
MutexReturned == (s_mutex # "nobody") ~> (s_mutex = "nobody")
==============================================================================
