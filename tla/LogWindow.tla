------------------------------ MODULE LogWindow ------------------------------
(***************************************************************************)
(* What main/log_buffer.c promises: a window on the last Size bytes of all *)
(* the lines that were logged.  Lines enter it one at a time, byte after   *)
(* byte, and a snapshot is the window as it is between two lines.          *)
(***************************************************************************)
EXTENDS Naturals, Sequences

CONSTANTS
  Size,     \* the bytes kept
  Bytes     \* what a byte can be

VARIABLES
  window,   \* the latest bytes, oldest first
  inLine,   \* a line is being added
  snap      \* the last snapshot that was given out

vars == <<window, inLine, snap>>

(* s with b at its end, less what no longer fits at its front. *)
Slid(s, b) == IF Len(s) < Size THEN Append(s, b) ELSE Append(Tail(s), b)

Init == window = <<>> /\ inLine = FALSE /\ snap = <<>>

BeginLine == ~inLine /\ inLine' = TRUE /\ UNCHANGED <<window, snap>>

Add(b) == inLine /\ window' = Slid(window, b) /\ UNCHANGED <<inLine, snap>>

EndLine == inLine /\ inLine' = FALSE /\ UNCHANGED <<window, snap>>

Snapshot == ~inLine /\ snap' = window /\ UNCHANGED <<window, inLine>>

Next == BeginLine \/ (\E b \in Bytes : Add(b)) \/ EndLine \/ Snapshot

Spec == Init /\ [][Next]_vars
==============================================================================
