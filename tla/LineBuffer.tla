----------------------------- MODULE LineBuffer -----------------------------
(***************************************************************************)
(* The buffer of read_all_line (experiment/usecases/line_processor.c):      *)
(* characters are read behind its end and lines popped from its beginning.  *)
(* b is the memory allocated for it, Cap + 1 characters, and ep the end it  *)
(* has for the code; index i of the code is place i + 1.  "n" and "r" are   *)
(* the characters '\n' and '\r'.                                            *)
(***************************************************************************)
EXTENDS Integers, SequencesExt

CONSTANTS
  Cap,        \* MAX_LINE_LENGTH
  NUL

ASSUME CapAssumption == Cap \in Nat \ {0}
ASSUME NulAssumption == NUL \notin {"n", "r"}

\* What the memory behind the buffer holds is what was in the buffer when it was
\* allocated.
WithBehind(b, junk) == b \o [i \in 1 .. Cap + 4 |-> junk]

\* read_into_buffer_single: a regular file gives all there is room for, and
\* nothing when there is none.
Available(ep, rest) == IF Cap - ep <= 0 THEN 0 ELSE Min({Cap - ep, Len(rest)})

WithRead(b, ep, text) ==
  IF text = <<>> THEN b
  ELSE SubSeq(b, 1, ep) \o text \o SubSeq(b, ep + Len(text) + 1, Cap + 1)

\* pop_line_from_buffer stops at a newline or behind a carriage return, at the
\* latest at the character behind the end; in mem, the buffer and what is behind.
Stops(mem, ep) ==
  {i \in 0 .. ep + 1 : (i <= ep /\ mem[i + 1] = "n") \/ (i > 0 /\ mem[i] = "r")}

\* The rest moves to the beginning and the end one behind where it was.  (Mutant:
\* the newline stays in the buffer.)
NewlineStays(b, mem, ep, i) == SubSeq(mem, i + 1, i + 1 + ep) \o SubSeq(b, ep + 2, Cap + 1)
Shifted(b, mem, ep, i) == SubSeq(mem, i + 2, i + 2 + ep) \o SubSeq(b, ep + 2, Cap + 1)

\* Writing behind the buffer, or through the pointer that is where the buffer's
\* end is taken to be (*buff[MAX_LINE_LENGTH]), is undefined.
PopIsUndefined(b, ep, junk) ==
  IF Stops(WithBehind(b, junk), ep) = {} THEN ep = Cap ELSE ep > Cap

HasLine(b, ep, junk) == Stops(WithBehind(b, junk), ep) # {}

\* The line popped, a C string, and what the buffer is then.
PopLine(b, ep, junk) ==
  LET mem == WithBehind(b, junk)
      i == Min(Stops(mem, ep))
      len == IF i > 0 /\ mem[i] = "r" THEN i - 1 ELSE i
      nul == SelectInSeq(mem, LAMBDA c : c = NUL)
  IN  [line |-> SubSeq(mem, 1, IF nul \in 1 .. len THEN nul - 1 ELSE len),
       b |-> Shifted(b, mem, ep, i)]
=============================================================================
