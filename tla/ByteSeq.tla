------------------------------ MODULE ByteSeq ------------------------------
(***************************************************************************)
(* What Go's make / copy and the file-offset write(2) do to a sequence of  *)
(* bytes, as the handle code of internal/mountfs/fs.go uses them.          *)
(***************************************************************************)
EXTENDS Integers, Sequences

Zero == "0"                  \* the NUL byte: make([]byte, n) is n of these
Empty == << >>

\* A string of bytes, and nothing else.
IsBytes(s) == Len(s) \in Nat /\ s = [i \in 1..Len(s) |-> s[i]]

LongerLen(s, t) == IF Len(s) >= Len(t) THEN Len(s) ELSE Len(t)

(***************************************************************************)
(* The buffer after Write(data, off): grown with NUL bytes up to           *)
(* off + Len(data) when it is shorter, then data copied over it at off     *)
(* (off counts from 0).                                                    *)
(***************************************************************************)
Splice(buf, off, chunk) ==
  LET need == off + Len(chunk)
      size == IF need > Len(buf) THEN need ELSE Len(buf)
  IN [i \in 1..size |->
        IF off < i /\ i <= need THEN chunk[i - off]
        ELSE IF i <= Len(buf) THEN buf[i] ELSE Zero]

\* write(2) of payload at offset 0 of a file that holds old: the bytes of old
\* beyond the payload stay.
WriteAtStart(old, payload) ==
  [i \in 1..LongerLen(payload, old) |->
        IF i <= Len(payload) THEN payload[i] ELSE old[i]]

\* What a write that fails after k bytes has sent, and what truncate(2) keeps.
FirstBytes(s, k) == SubSeq(s, 1, k)
=============================================================================
