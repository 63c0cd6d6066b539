------------------------------- MODULE TtyInput -------------------------------
(***************************************************************************)
(* TTY.read_secret (server.py): a line is edited byte by byte while the    *)
(* user types characters, and a character may be several bytes of UTF-8.   *)
(* A byte is its class; what is typed arrives in chunks that may end       *)
(* inside a character.                                                     *)
(***************************************************************************)
EXTENDS Integers, SequencesExt

CONSTANTS
  CharSize,  \* the sizes in bytes of the characters that the user types
  MaxKeys    \* bound: the keys pressed during one read

ASSUME SizesAreUtf8 == CharSize \subseteq 1..4
ASSUME MaxKeysIsNat == MaxKeys \in Nat

(***************************************************************************)
(* "ascii" is 0x20-0x7E, "lead" 11xxxxxx and "cont" 10xxxxxx; "erase" is   *)
(* Backspace or DEL, "kill" Ctrl-U, "enter" CR or LF, "cancel" Ctrl-C or   *)
(* Ctrl-D, "control" any other byte below 0x20, "zero" a byte wiped.       *)
(***************************************************************************)
Text == {"ascii", "lead", "cont"}
Command == {"erase", "kill", "enter", "cancel", "control"}

\* A character of n bytes, as UTF-8.
Utf8(n) == [i \in 1..n |-> IF n = 1 THEN "ascii" ELSE IF i = 1 THEN "lead" ELSE "cont"]
Character == {Utf8(n) : n \in CharSize}
Key == Character \union {<<b>> : b \in Command}

Byte == Text \union Command

VARIABLES
  typed,    \* history: the keys pressed since the read began
  meant,    \* history: the line that the user means by those before the first Enter
  pending,  \* their bytes that are not read yet
  chunk,    \* the bytes that were read, and that the loop has not handled
  data,     \* the password so far
  outcome   \* "reading", or how the read ended: "returned" or "raised"

vars == <<typed, meant, pending, chunk, data, outcome>>

TypeOK ==
  /\ typed \in Seq(Key) /\ Len(typed) <= MaxKeys
  /\ meant \in Seq(Text)
  /\ pending \in Seq(Byte) /\ chunk \in Seq(Byte)
  /\ data \in Seq(Text \union {"zero"})
  /\ outcome \in {"reading", "returned", "raised"}

Init ==
  /\ typed = <<>> /\ meant = <<>>
  /\ pending = <<>> /\ chunk = <<>> /\ data = <<>>
  /\ outcome = "reading"
-------------------------------------------------------------------------------
\* line without the character that it ends with.
WithoutLast(line) ==
  CHOOSE rest \in {SubSeq(line, 1, m) : m \in 0..Len(line)} :
    \E char \in Character : line = rest \o char

\* What a user means by a key: Backspace removes "the last UTF-8 codepoint" (server.py:85).
Edit(line, key) ==
  CASE key \in Character -> line \o key
    [] key = <<"erase">> /\ line # <<>> -> WithoutLast(line)
    [] key = <<"kill">> -> <<>>
    [] OTHER -> line

Entered == <<"enter">> \in Range(typed)

Press(key) ==
  /\ outcome = "reading"
  /\ Len(typed) < MaxKeys
  /\ typed' = Append(typed, key)
  /\ meant' = IF Entered THEN meant ELSE Edit(meant, key)
  /\ pending' = pending \o key
  /\ UNCHANGED <<chunk, data, outcome>>

\* The next n bytes are read, when the last ones are handled.
Receive(n) ==
  /\ outcome = "reading" /\ chunk = <<>>
  /\ chunk' = SubSeq(pending, 1, n)
  /\ pending' = SubSeq(pending, n + 1, Len(pending))
  /\ UNCHANGED <<typed, meant, outcome>>

\* Mutant: the buffer starts anew with each chunk.
ReadChunk == \E n \in 1..Len(pending) : Receive(n) /\ data' = <<>>

\* _read_some.
ReadSome == \E n \in 1..Len(pending) : Receive(n) /\ UNCHANGED data

\* buf without the continuation bytes that it ends with.
WithoutTail(buf) == SubSeq(buf, 1, Max({0} \union {i \in DOMAIN buf : buf[i] # "cont"}))

\* Mutant: the last byte only.
PopByte(buf) == Front(buf)

\* _pop_utf8.
PopUtf8(buf) ==
  LET rest == WithoutTail(Front(buf))
  IN IF buf = <<>> THEN buf
     ELSE IF rest # <<>> /\ Last(rest) = "lead" THEN Front(rest) ELSE rest

Wiped(buf) == [i \in DOMAIN buf |-> "zero"]

\* Mutant: bytes below 0x20 are not left out.
EditedRaw(buf, byte) ==
  CASE byte = "erase" -> PopUtf8(buf)
    [] byte = "kill" -> <<>>
    [] OTHER -> Append(buf, byte)

\* What a byte that does not end the read makes of the buffer.
Edited(buf, byte) ==
  CASE byte = "erase" -> PopUtf8(buf)
    [] byte = "kill" -> <<>>
    [] byte = "control" -> buf
    [] OTHER -> Append(buf, byte)

\* The `for' loop takes the next byte of the chunk; what follows Enter or Ctrl-C in the
\* chunk is dropped.
HandleByte ==
  LET byte == Head(chunk) IN
    /\ outcome = "reading" /\ chunk # <<>>
    /\ chunk' = Tail(chunk)
    /\ \/ byte = "enter" /\ outcome' = "returned" /\ UNCHANGED data
       \/ byte = "cancel" /\ outcome' = "raised" /\ data' = Wiped(data)
       \/ byte \notin {"enter", "cancel"} /\ data' = Edited(data, byte) /\ UNCHANGED outcome
    /\ UNCHANGED <<typed, meant, pending>>

\* The task is cancelled, the input ends, or the terminal cannot be read.
Fail ==
  /\ outcome = "reading" /\ chunk = <<>>
  /\ outcome' = "raised"
  /\ data' = Wiped(data)
  /\ UNCHANGED <<typed, meant, pending, chunk>>

Next == (\E key \in Key : Press(key)) \/ ReadSome \/ HandleByte \/ Fail

Spec == Init /\ [][Next]_vars
-------------------------------------------------------------------------------
(***************************************************************************)
(* Properties.                                                             *)
(***************************************************************************)
\* What is returned is what the user means: Backspace removes "the last UTF-8 codepoint
\* from the byte buffer" (server.py:85), wherever the chunks begin and end.
ReturnsWhatIsMeant == outcome = "returned" => data = meant

\* It is so for a password of one-byte characters, and for one without any.
OneKindOfCharacter ==
  \/ \A i \in DOMAIN typed : typed[i] # Utf8(1)
  \/ \A i \in DOMAIN typed : typed[i] \in Character => typed[i] = Utf8(1)

ReturnsOneKindAsMeant == OneKindOfCharacter => ReturnsWhatIsMeant

\* The byte i of s belongs to a character that is there from its first byte to its last:
\* n bytes from the first one, f.
InCharacter(s, i) ==
  \E n \in CharSize, f \in 1..i :
    /\ i < f + n /\ f + n <= Len(s) + 1
    /\ \A j \in 1..n : s[f + j - 1] = Utf8(n)[j]
    /\ f + n <= Len(s) => s[f + n] # "cont"

\* Whatever is erased, no character is cut in two: every continuation byte of a line that
\* is returned follows its lead byte, and each lead byte has all that belong to it.
ReturnsWholeCharacters ==
  outcome = "returned" => \A i \in 1..Len(data) : InCharacter(data, i)
===============================================================================
