---------------------------- MODULE DockerLogs -----------------------------
(***************************************************************************)
(* The output of containers on its way to the user: Docker's framing of it *)
(* as the agent undoes it (cmd/blackark-agent/main.go, decodeDockerLogs),  *)
(* and the lines `blackark logs` gets (internal/control/server.go, logs).  *)
(* A text is a sequence of bytes.                                          *)
(***************************************************************************)
EXTENDS Integers, FiniteSets, Sequences, SequencesExt

Byte == 0..255
NUL == 0
NewLine == 10

\* Docker sends what a container writes in frames: stream, three bytes of 0, and
\* the size in four bytes, most significant first.
Frame(stream, text) ==
    LET n == Len(text)
    IN <<stream, 0, 0, 0, n \div 16777216, (n \div 65536) % 256, (n \div 256) % 256, n % 256>> \o text

\* A length for which four bytes are enough.
Fits(text) == Len(text) \div 16777216 \in Byte

SlipSize(src) == src[5]
Size(src) == src[5] * 16777216 + src[6] * 65536 + src[7] * 256 + src[8]

\* src starts with a frame that is there as a whole.
Framed(src) == Len(src) >= 8 /\ src[1] <= 2 /\ Size(src) <= Len(src) - 8

\* A turn of the loop: the first frame is taken off, as long as there is one.
Unframe(r) ==
    IF Framed(r.src)
    THEN [src |-> SubSeq(r.src, 9 + Size(r.src), Len(r.src)),
          out |-> r.out \o SubSeq(r.src, 9, 8 + Size(r.src))]
    ELSE r

\* What does not end with a whole frame, and what is no frame, comes back as it is.
Unframed(src) ==
    LET round[i \in 0..Len(src)] ==
            IF i = 0 THEN [src |-> src, out |-> <<>>] ELSE Unframe(round[i - 1])
        end == round[Len(src)]
    IN IF end.out = <<>> \/ end.src # <<>> THEN end.src ELSE end.out

----------------------------------------------------------------------------
\* UTF-8: how many bytes a rune has, what its second may be, and where it is.
RuneLen(b) ==
    CASE b \in 0..127 -> 1
      [] b \in 194..223 -> 2
      [] b \in 224..239 -> 3
      [] b \in 240..244 -> 4
      [] OTHER -> 0
Second(b) ==
    CASE b = 224 -> 160..191
      [] b = 237 -> 128..159
      [] b = 240 -> 144..191
      [] b = 244 -> 128..143
      [] OTHER -> 128..191
RuneAt(s, i) ==
    LET n == RuneLen(s[i])
    IN IF /\ i + n - 1 <= Len(s)
          /\ n > 1 => s[i + 1] \in Second(s[i])
          /\ \A k \in (i + 2)..(i + n - 1) : s[k] \in 128..191
       THEN i..(i + n - 1)
       ELSE {}
Runes(s) == UNION {RuneAt(s, i) : i \in 1..Len(s)}

\* strings.ToValidUTF8: each run of bytes outside of runes gives one U+FFFD.
Replacement == <<239, 191, 189>>
Piece(s, good, i) ==
    IF i \in good THEN <<s[i]>> ELSE IF i = 1 \/ i - 1 \in good THEN Replacement ELSE <<>>
ToValid(s) == LET good == Runes(s) IN FlattenSeq([i \in 1..Len(s) |-> Piece(s, good, i)])

Decode(src) == ToValid(Unframed(src))

----------------------------------------------------------------------------
\* strings.Split and strings.Join at newlines: a byte goes to the last line so far,
\* a newline begins another.
AddByte(lines, b) ==
    IF b = NewLine THEN Append(lines, <<>>)
    ELSE Append(Front(lines), Append(Last(lines), b))
SplitLines(text) ==
    LET lines[i \in 0..Len(text)] == IF i = 0 THEN << <<>> >> ELSE AddByte(lines[i - 1], text[i])
    IN lines[Len(text)]
JoinLines(lines) == FlattenSeq([i \in 1..Len(lines) |-> IF i = 1 THEN lines[1] ELSE <<NewLine>> \o lines[i]])

SlipLastLines(lines, limit) == IF Len(lines) > limit THEN SubSeq(lines, Len(lines) - limit, Len(lines)) ELSE lines
LastLines(lines, limit) == IF Len(lines) > limit THEN SubSeq(lines, Len(lines) - limit + 1, Len(lines)) ELSE lines

\* The logs of all of an app's instances, the last lines of them, and a newline.
Logs(texts, limit) == JoinLines(LastLines(SplitLines(FlattenSeq(texts)), limit)) \o <<NewLine>>

=============================================================================
