----------------------------- MODULE FormFields -----------------------------
(***************************************************************************)
(* form_get and url_decode_inplace of main/wifi.c: a field of a form is    *)
(* found, cut to the size of its buffer and decoded within that buffer.    *)
(* Strings are sequences of character codes; code 0 ends a C string.       *)
(***************************************************************************)
EXTENDS Naturals, Sequences

Plus == 43   Minus == 45   Percent == 37   Equals == 61   Ampersand == 38   Space == 32
Blanks == {Space} \union 9 .. 13
Digits == 48 .. 57 \union 65 .. 70 \union 97 .. 102

First(S) == CHOOSE i \in S : \A j \in S : i <= j

Take(s, n) == SubSeq(s, 1, IF n < Len(s) THEN n ELSE Len(s))

(* Up to the first code 0. *)
CString(s) == Take(s, First({i \in DOMAIN s : s[i] = 0} \union {Len(s) + 1}) - 1)

(* Defective variant: looks for the name anywhere. *)
AnyPlace(body, p) == p + 1

-----------------------------------------------------------------------------
Digit(c) == IF c < 58 THEN c - 48 ELSE IF c < 71 THEN c - 55 ELSE c - 87

(* (char)strtol(hex, NULL, 16) of two characters. *)
Hex(a, b) ==
  IF a \in Digits THEN IF b \in Digits THEN 16 * Digit(a) + Digit(b) ELSE Digit(a)
  ELSE IF b \notin Digits THEN 0
  ELSE IF a \in {Plus} \union Blanks THEN Digit(b)
  ELSE IF a = Minus THEN (256 - Digit(b)) % 256 ELSE 0

Escapes(s, r) == s[r] = Percent /\ r + 2 <= Len(s)

(* The character that stands at r, and how many it is written with. *)
Meant(s, r) == IF s[r] = Plus THEN Space
               ELSE IF Escapes(s, r) THEN Hex(s[r + 1], s[r + 2])
               ELSE s[r]
Width(s, r) == IF Escapes(s, r) THEN 3 ELSE 1

(* url_decode_inplace's loop, turn by turn: the buffer is read at r and    *)
(* written at w.                                                           *)
Turn(d) ==
  IF d.r > Len(d.buf) THEN d
  ELSE [buf |-> [d.buf EXCEPT ![d.w] = Meant(d.buf, d.r)],
        r |-> d.r + Width(d.buf, d.r), w |-> d.w + 1]

Turns(s) ==
  LET turn[n \in 0 .. Len(s)] ==
        IF n = 0 THEN [buf |-> s, r |-> 1, w |-> 1] ELSE Turn(turn[n - 1])
  IN  turn

DecodedInPlace(s) == CString(Take(Turns(s)[Len(s)].buf, Turns(s)[Len(s)].w - 1))

(* The ampersand, or the end, that ends what is at p. *)
Stop(body, p) ==
  First({i \in p .. Len(body) : body[i] = Ampersand} \union {Len(body) + 1})

(* To the next field. *)
Skip(body, p) == IF Stop(body, p) > Len(body) THEN Len(body) + 1 ELSE Stop(body, p) + 1

IsField(body, p, name) ==
  /\ p + Len(name) <= Len(body)
  /\ SubSeq(body, p, p + Len(name) - 1) = name
  /\ body[p + Len(name)] = Equals

Raw(body, p, name) ==
  SubSeq(body, p + Len(name) + 1, Stop(body, p + Len(name) + 1) - 1)

(* No string: 256 is not a character. *)
Absent == <<256>>

(* What is found from each place on, and how form_get looks for it. *)
Found(body, name, out_size) ==
  LET at[p \in 1 .. Len(body) + 1] ==
        IF p > Len(body) THEN Absent
        ELSE IF IsField(body, p, name)
          THEN DecodedInPlace(Take(Raw(body, p, name), out_size - 1))
        ELSE at[Skip(body, p)]
  IN  at

form_get(body, name, out_size) == Found(body, name, out_size)[1]

-----------------------------------------------------------------------------
(* The reference: the fields of a form are what its ampersands part, and   *)
(* an escape stands for one character, whatever was decoded before it.     *)

FieldStarts(body) == {1} \union {i + 1 : i \in {j \in DOMAIN body : body[j] = Ampersand}}

(* What each end of s means. *)
Meanings(s) ==
  LET d[i \in 1 .. Len(s) + 1] ==
        IF i > Len(s) THEN <<>> ELSE <<Meant(s, i)>> \o d[i + Width(s, i)]
  IN  d

Decoded(s) == Meanings(s)[1]

Value(body, name) ==
  LET starts == {p \in FieldStarts(body) : IsField(body, p, name)}
  IN  IF starts = {} THEN Absent ELSE Raw(body, First(starts), name)

Strings(chars, n) == UNION {[1 .. k -> chars] : k \in 0 .. n}

(* A field is found wherever it stands in the form, is read as it was      *)
(* typed if it fits its buffer as it is encoded, and never overflows it.   *)
ReadsAsTyped(bodies, names, sizes) ==
  \A body \in bodies, name \in names, out_size \in sizes :
    LET v == Value(body, name)
        out == form_get(body, name, out_size) IN
      IF v = Absent THEN out = Absent
      ELSE /\ Len(v) < out_size => out = CString(Decoded(v))
           /\ Len(out) < out_size
==============================================================================
