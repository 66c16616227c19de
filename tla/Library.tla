------------------------------ MODULE Library ------------------------------
(***************************************************************************)
(* The boards' library, whose calls keep nothing: formatting of text       *)
(* (snprintf and uprintf of lib/vsprintf.c and lib/uprintf.c), a directive *)
(* of the format at a time, and the functions on bits, checksums and       *)
(* numbers: clz and ctz of lib/utils.c, crc_ccitt of lib/crc_ccitt.c, which*)
(* the SD card's driver calls once for each part of a block, and strtoul of*)
(* lib/stdlib.c.  A character is its digit, or one of the numbers below;   *)
(* those from 16 on are no digits, and the case of letters is left out.    *)
(* Each function is followed by what it should compute; MCBoard compares   *)
(* the two on the inputs it gives.                                         *)
(***************************************************************************)
EXTENDS Integers, Sequences, SequencesExt, FiniteSetsExt, Bitwise

TMP_NUM_BUF_SIZE == 20
Minus == 16
Plus == 17
Space == 18
LetterX == 19
Nul == 20
Letter == 21

----------------------------------------------------------------------------
Repeat(c, n) == [i \in 1 .. n |-> c]
Magnitude(n) == IF n < 0 THEN -n ELSE n

\* The digits of a number, of which 0 has one.
Digits(n, base) ==
    LET len == CHOOSE k \in 1 .. 10 : n < base ^ k /\ (k = 1 \/ n >= base ^ (k - 1))
    IN [i \in 1 .. len |-> (n \div base ^ (len - i)) % base]

Base(item) == IF item.kind = "x" THEN 16 ELSE 10
Prefix(item) ==
    IF item.num < 0 THEN <<Minus>> ELSE IF "+" \in item.flags THEN <<Plus>>
    ELSE IF " " \in item.flags THEN <<Space>>
    ELSE IF "#" \in item.flags THEN <<0, LetterX>> ELSE << >>

\* A signed number leaves room for its sign in the width, before which zeros go,
\* but not spaces.
FieldWidth(item) ==
    IF item.kind = "d" /\ item.width > 0 THEN item.width - 1 ELSE item.width
PadTo(text, c, n) == Repeat(c, n - Len(text)) \o text
convert(item) ==
    LET digits == Digits(Magnitude(item.num), Base(item))
        zeros == IF "0" \in item.flags THEN PadTo(digits, 0, FieldWidth(item)) ELSE digits
    IN PadTo(Prefix(item) \o zeros, Space, FieldWidth(item))

TextOf(item) == IF item.kind \in {"d", "u", "x"} THEN convert(item) ELSE item.text

Overlay(buf, from, text) ==
    [i \in 1 .. Len(buf) |-> IF i - from \in 1 .. Len(text) THEN text[i - from] ELSE buf[i]]

----------------------------------------------------------------------------
(* vsnprintf: the buffer, the position of the next character, where the    *)
(* text of each directive went, and whether a number did not fit.          *)

SmallerOf(a, b) == IF a < b THEN a ELSE b
Capacity(buf) == Len(buf) - 1       \* the last place is for the terminating null byte

\* A text stops at the end of the buffer.  A number that does not fit is written as
\* far as it goes and takes the position back by what is missing, and a position
\* before the buffer is where the call is left: what it writes there is not its own.
Missing(s, item) == Len(TextOf(item)) - (Capacity(s.buf) - s.pos)
Moved(s, item) ==
    IF Missing(s, item) <= 0 THEN Len(TextOf(item))
    ELSE IF item.kind \in {"d", "u", "x"} THEN -Missing(s, item) ELSE Capacity(s.buf) - s.pos

Directive(s, item) ==
    LET text == SubSeq(TextOf(item), 1, SmallerOf(Len(TextOf(item)), Capacity(s.buf) - s.pos))
    IN IF s.pos \notin 0 .. Capacity(s.buf) - 1 THEN s
       ELSE [buf |-> Overlay(s.buf, s.pos, text),
             pos |-> s.pos + Moved(s, item),
             fields |-> Append(s.fields, [item |-> item, from |-> s.pos, to |-> s.pos + Len(text)]),
             cut |-> s.cut \/ (item.kind \in {"d", "u", "x"} /\ Missing(s, item) > 0)]

vsnprintf(format, size) ==
    LET s == FoldLeft(Directive, [buf |-> Repeat(Letter, size), pos |-> 0, fields |-> << >>, cut |-> FALSE],
                      format)
    IN [s EXCEPT !.buf = Overlay(s.buf, s.pos, <<Nul>>)]

\* What a field says, read back: its digits are the number's, its sign is the
\* number's, its spaces come first, and it is as wide as asked, but for the place of
\* the sign.
Reads(field, item) ==
    LET digits == SelectSeq(field, LAMBDA c : c < 16)
    IN /\ FoldLeft(LAMBDA n, c : n * Base(item) + c, 0, digits) = Magnitude(item.num)
       /\ item.num < 0 <=> \E i \in 1 .. Len(field) : field[i] = Minus
       /\ \A i, j \in 1 .. Len(field) : i < j /\ field[j] = Space => field[i] = Space
       /\ Len(field) >= FieldWidth(item)

\* Nothing is written after the buffer, which ends with a null byte; and unless a
\* number was cut every directive that fits is there, in order and readable, and
\* the call returns the length of the text.
PrintedIsRight(format, size) ==
    LET s == vsnprintf(format, size)
    IN /\ s.pos <= Capacity(s.buf)
       /\ ~s.cut =>
            /\ s.buf[s.pos + 1] = Nul
            /\ \A i \in 1 .. s.pos : s.buf[i] # Nul
            /\ Len(s.fields) < Len(format) => s.pos = Capacity(s.buf)
            /\ \A k \in 1 .. Len(s.fields) :
                  LET f == s.fields[k]
                      field == SubSeq(s.buf, f.from + 1, f.to)
                  IN /\ f.from = (IF k = 1 THEN 0 ELSE s.fields[k - 1].to) /\ f.to <= s.pos
                     /\ IF f.item.kind \in {"d", "u", "x"} THEN Reads(field, f.item)
                        ELSE IsPrefix(field, f.item.text)

----------------------------------------------------------------------------
(* Bits, checksums and numbers. *)

\* Each step of the two counts halves what is left of the word.
bval_clz == <<0, 1, 2, 2, 3, 3, 3, 3, 4, 4, 4, 4, 4, 4, 4, 4>>
bval_ctz == <<4, 0, 1, 0, 2, 0, 1, 0, 3, 0, 1, 0, 2, 0, 1, 0>>

\* The word's upper half, when it has a bit set, or its lower one.
Upper(s, width) ==
    IF s.x < 2 ^ width THEN s ELSE [x |-> s.x \div 2 ^ width, r |-> s.r - width]
clz(x) ==
    LET last == Upper(Upper(Upper([x |-> x, r |-> 32], 16), 8), 4)
    IN last.r - bval_clz[last.x + 1]

\* The word's lower half, when it has a bit set, or its upper one.
Lower(s, width) ==
    IF s.x % 2 ^ width # 0 THEN s ELSE [x |-> s.x \div 2 ^ width, r |-> s.r + width]
ctz(x) ==
    LET last == Lower(Lower(Lower([x |-> x, r |-> 0], 16), 8), 4)
    IN IF x % 2 = 1 THEN 0 ELSE last.r + bval_ctz[(last.x % 16) + 1]

crc_ccitt_table ==
    <<\h0000, \h1021, \h2042, \h3063, \h4084, \h50a5, \h60c6, \h70e7, \h8108, \h9129, \ha14a,
      \hb16b, \hc18c, \hd1ad, \he1ce, \hf1ef, \h1231, \h0210, \h3273, \h2252, \h52b5, \h4294,
      \h72f7, \h62d6, \h9339, \h8318, \hb37b, \ha35a, \hd3bd, \hc39c, \hf3ff, \he3de, \h2462,
      \h3443, \h0420, \h1401, \h64e6, \h74c7, \h44a4, \h5485, \ha56a, \hb54b, \h8528, \h9509,
      \he5ee, \hf5cf, \hc5ac, \hd58d, \h3653, \h2672, \h1611, \h0630, \h76d7, \h66f6, \h5695,
      \h46b4, \hb75b, \ha77a, \h9719, \h8738, \hf7df, \he7fe, \hd79d, \hc7bc, \h48c4, \h58e5,
      \h6886, \h78a7, \h0840, \h1861, \h2802, \h3823, \hc9cc, \hd9ed, \he98e, \hf9af, \h8948,
      \h9969, \ha90a, \hb92b, \h5af5, \h4ad4, \h7ab7, \h6a96, \h1a71, \h0a50, \h3a33, \h2a12,
      \hdbfd, \hcbdc, \hfbbf, \heb9e, \h9b79, \h8b58, \hbb3b, \hab1a, \h6ca6, \h7c87, \h4ce4,
      \h5cc5, \h2c22, \h3c03, \h0c60, \h1c41, \hedae, \hfd8f, \hcdec, \hddcd, \had2a, \hbd0b,
      \h8d68, \h9d49, \h7e97, \h6eb6, \h5ed5, \h4ef4, \h3e13, \h2e32, \h1e51, \h0e70, \hff9f,
      \hefbe, \hdfdd, \hcffc, \hbf1b, \haf3a, \h9f59, \h8f78, \h9188, \h81a9, \hb1ca, \ha1eb,
      \hd10c, \hc12d, \hf14e, \he16f, \h1080, \h00a1, \h30c2, \h20e3, \h5004, \h4025, \h7046,
      \h6067, \h83b9, \h9398, \ha3fb, \hb3da, \hc33d, \hd31c, \he37f, \hf35e, \h02b1, \h1290,
      \h22f3, \h32d2, \h4235, \h5214, \h6277, \h7256, \hb5ea, \ha5cb, \h95a8, \h8589, \hf56e,
      \he54f, \hd52c, \hc50d, \h34e2, \h24c3, \h14a0, \h0481, \h7466, \h6447, \h5424, \h4405,
      \ha7db, \hb7fa, \h8799, \h97b8, \he75f, \hf77e, \hc71d, \hd73c, \h26d3, \h36f2, \h0691,
      \h16b0, \h6657, \h7676, \h4615, \h5634, \hd94c, \hc96d, \hf90e, \he92f, \h99c8, \h89e9,
      \hb98a, \ha9ab, \h5844, \h4865, \h7806, \h6827, \h18c0, \h08e1, \h3882, \h28a3, \hcb7d,
      \hdb5c, \heb3f, \hfb1e, \h8bf9, \h9bd8, \habbb, \hbb9a, \h4a75, \h5a54, \h6a37, \h7a16,
      \h0af1, \h1ad0, \h2ab3, \h3a92, \hfd2e, \hed0f, \hdd6c, \hcd4d, \hbdaa, \had8b, \h9de8,
      \h8dc9, \h7c26, \h6c07, \h5c64, \h4c45, \h3ca2, \h2c83, \h1ce0, \h0cc1, \hef1f, \hff3e,
      \hcf5d, \hdf7c, \haf9b, \hbfba, \h8fd9, \h9ff8, \h6e17, \h7e36, \h4e55, \h5e74, \h2e93,
      \h3eb2, \h0ed1, \h1ef0>>

crc_ccitt(crc, buf) ==
    LET entry(c, byte) == crc_ccitt_table[(((c \div 256) ^^ byte) % 256) + 1]
    IN FoldLeft(LAMBDA c, byte : ((c * 256) % 65536) ^^ entry(c, byte), crc, buf)

\* Letters are digits only above base 10; a digit is not compared with the base.
IsDigit(c, base) == c < 10 \/ (c < 16 /\ base > 10)
DigitsRead(str, base) ==
    CHOOSE n \in 0 .. Len(str) :
        /\ \A i \in 1 .. n : IsDigit(str[i], base)
        /\ n < Len(str) => ~IsDigit(str[n + 1], base)
strtoul(str, base) ==
    FoldLeft(LAMBDA val, c : val * base + c, 0, SubSeq(str, 1, DigitsRead(str, base)))

----------------------------------------------------------------------------
\* The remainder of the bits of the message by the polynomial, as the program at the
\* end of lib/crc_ccitt.c computes it: a bit at a time.
Polynomial == \h1021
AfterBit(crc, bit) ==
    LET shifted == (crc * 2) % 65536
    IN IF (crc \div 32768) = bit THEN shifted ELSE shifted ^^ Polynomial
RemainderOf(start, bytes) ==
    FoldLeft(LAMBDA crc, i : AfterBit(crc, (bytes[(i \div 8) + 1] \div 2 ^ (7 - (i % 8))) % 2),
             start, [k \in 1 .. 8 * Len(bytes) |-> k - 1])

\* The counts of zeroes are those of the word, in its whole width.
CountsAreExact(x) ==
    IF x = 0 THEN clz(x) = 32 /\ ctz(x) = 32
    ELSE /\ x \div 2 ^ (31 - clz(x)) = 1
         /\ (x \div 2 ^ ctz(x)) % 2 = 1 /\ x % 2 ^ ctz(x) = 0

\* The checksum of a block is the polynomial's, in however many parts it comes.
CrcIsExact(start, part1, part2) ==
    crc_ccitt(crc_ccitt(start, part1), part2) = RemainderOf(start, part1 \o part2)

\* A number is read to the first character that is none of its base's.
NumberIsRead(str, base) ==
    LET end == DigitsRead(str, base)
    IN /\ strtoul(str, base) = MapThenSumSet(LAMBDA i : str[i] * base ^ (end - i), 1 .. end)
       /\ end < Len(str) => str[end + 1] >= 10

============================================================================
