----------------------------- MODULE UrlCoding -----------------------------
(***************************************************************************)
(* The coding of command arguments (string_url_encode, string_url_decode). *)
(* Texts and encodings are sequences of bytes without the NUL that ends    *)
(* them in C.  A byte is printed as a signed int in hex, so a small one    *)
(* yields one digit and a NUL in place of the second, which ends the       *)
(* encoding there, and one above 127 yields eight digits, cut to "ff".     *)
(***************************************************************************)
EXTENDS Naturals, Sequences, SequencesExt

Byte == 1 .. 255
Percent == 37
Graph == 33 .. 126     \* isgraph

\* The characters of the hex digits, and back.
Hex(d) == IF d < 10 THEN 48 + d ELSE 87 + d
Digit(c) == IF c < 58 THEN c - 48 ELSE c - 87

\* Mutant of Plain: a percent sign is copied.
PlainPercent(b) == b \in Graph

Plain(b) == b \in Graph \ {Percent}

\* What is left of the three bytes that are written for b.
Escape(b) ==
    IF b < 16 THEN <<Percent, Hex(b)>>
    ELSE IF b < 128 THEN <<Percent, Hex(b \div 16), Hex(b % 16)>>
    ELSE <<Percent, Hex(15), Hex(15)>>

Width(b) == IF Plain(b) THEN 1 ELSE 3
Code(b) == IF Plain(b) THEN <<b>> ELSE Escape(b)

\* string_url_encode into a buffer of n bytes: what does not fit is cut off,
\* at the first byte that does not.
Encode(text, n) ==
    LET enc[i \in 1 .. Len(text) + 1] ==
            [room \in 0 .. n - 1 |->
                IF i > Len(text) \/ room < Width(text[i]) THEN <<>>
                ELSE IF text[i] < 16 THEN Code(text[i])
                ELSE Code(text[i]) \o enc[i + 1][room - Width(text[i])]]
    IN  enc[1][n - 1]

\* string_url_decode of an encoding: an escape without two digits ends it.
Decode(str, n) ==
    LET dec[i \in 1 .. Len(str) + 1] ==
            [room \in 0 .. n |->
                IF i > Len(str) \/ room = 0 THEN <<>>
                ELSE IF str[i] # Percent THEN <<str[i]>> \o dec[i + 1][room - 1]
                ELSE IF Len(str) - i < 2 THEN <<>>
                ELSE <<16 * Digit(str[i + 1]) + Digit(str[i + 2])>> \o dec[i + 3][room - 1]]
    IN  dec[1][n]
=============================================================================
