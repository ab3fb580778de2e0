------------------------------ MODULE Converter ------------------------------
(***************************************************************************)
(* The text converter of src/DZ_2_encoding/Converter/converter.c: the table*)
(* of 162 characters, the choice of its column by the name of an encoding, *)
(* and the loop that converts a file to UTF-8 byte by byte.                *)
(***************************************************************************)
EXTENDS Naturals, Sequences, FiniteSets

CONSTANTS
  EncodingNames,  \* the names users give
  Texts           \* the files they convert, as sequences of bytes

VARIABLES job,     \* "none", "convert", "done" or "failed"
          asked,   \* the name of the encoding, argv[2]
          enc,     \* the column in use, 0 when the encoding is unknown
          text,    \* what is left to read
          source,  \* history: the whole input
          output

Init ==
  /\ job = "none" /\ asked = "" /\ enc = 0
  /\ text = << >> /\ source = << >> /\ output = << >>

(* Columns 0 and 1 of the table: UTF-8.  Columns 2, 3 and 4: CP1251, KOI8-R*)
(* and ISO 8859-5.  KOI8-R has its letters in the order of KoiOrder.       *)
KoiOrder == <<1, 2, 23, 7, 4, 5, 22, 26, 9, 10, 11, 12, 13, 14, 15, 16,
              18, 19, 20, 21, 6, 8, 3, 30, 27, 29, 31, 25, 24, 28, 0, 17>>

Ascii(c)    == <<c, 0, c, c, c>>
Upper(k)    == <<208, 144 + k, 192 + k, 224 + KoiOrder[k + 1], 176 + k>>
LowerA_P(k) == <<209, 176 + k, 224 + k, 192 + KoiOrder[k + 1], 208 + k>>
LowerR_Ya(k) == <<209, 112 + k, 224 + k, 192 + KoiOrder[k + 1], 208 + k>>

encoding_to_utf8 == [i \in 0 .. 161 |->
  CASE i = 11 -> Ascii(42)                    \* a second '*' in the place of '+'
    [] i = 56 -> <<88, 0, 88, 87, 87>>        \* 'X', with the code of 'W' twice
    [] i = 155 -> <<209, 137, 249, 205, 233>> \* with the code of another letter
    [] i < 96 /\ i \notin {11, 56} -> Ascii(32 + i)
    [] i = 96 -> <<208, 129, 168, 179, 179>>
    [] i \in 97 .. 128 -> Upper(i - 97)
    [] i = 129 -> <<209, 145, 184, 163, 163>>
    [] i \in 130 .. 145 -> LowerA_P(i - 130)
    [] i \in 146 .. 161 \ {155} -> LowerR_Ya(i - 130)]

(* The third strcmp of the first condition lacks its "== 0": it holds of   *)
(* every name but the one that it is meant for.                            *)
detect_enc(name) ==
  IF name # "windows-1251" \/ name \in {"cp1251", "CP1251", "Windows-1251"} THEN 2
  ELSE IF name \in {"koi8-r", "KOI8-R", "koi8r", "KOI8R"} THEN 3
  ELSE IF name \in {"iso-8859-5", "iso8859-5", "ISO8859-5", "ISO-8859-5"} THEN 4 ELSE 0

(* Mutant: the search stops one row too early.                             *)
find_element_index_Short(encoding, target) ==
  LET found == {i \in 0 .. 160 : encoding_to_utf8[i][encoding + 1] = target}
  IN IF found = {} THEN 0 ELSE CHOOSE i \in found : \A j \in found : i <= j

(* The first row that has the byte, or row 0.                              *)
find_element_index(encoding, target) ==
  LET found == {i \in 0 .. 161 : encoding_to_utf8[i][encoding + 1] = target}
  IN IF found = {} THEN 0 ELSE CHOOSE i \in found : \A j \in found : i <= j

(* An unknown encoding ends the program with EXIT_FAILURE.                 *)
main ==
  /\ job = "none" /\ asked' \in EncodingNames /\ enc' = detect_enc(asked')
  /\ job' = IF enc' = 0 THEN "failed" ELSE "convert"
  /\ text' \in Texts /\ source' = text' /\ UNCHANGED output

(* A byte of the file; a carriage return follows the last one.             *)
converting_to_utf8 ==
  /\ job = "convert" /\ text # << >> /\ text' = Tail(text)
  /\ LET row == encoding_to_utf8[find_element_index(enc, Head(text))]
         converted == IF Head(text) >= 128 THEN <<row[1], row[2]>> ELSE <<Head(text)>>
     IN output' = output \o converted \o IF Tail(text) = << >> THEN <<13>> ELSE << >>
  /\ UNCHANGED <<job, asked, enc, source>>

Finish ==
  /\ job = "convert" /\ text = << >> /\ job' = "done"
  /\ UNCHANGED <<asked, enc, text, source, output>>

Next == main \/ converting_to_utf8 \/ Finish

-----------------------------------------------------------------------------
(* The code point of a letter of CP1251, 0 for other bytes from 128 on; and*)
(* its two bytes in UTF-8.                                                 *)
CodePoint(b) == CASE b = 168 -> 1025 [] b = 184 -> 1105
                  [] b >= 192 -> 1040 + b - 192 [] OTHER -> 0
Utf8(c) == <<192 + c \div 64, 128 + (c % 64)>>

(* The bytes of the output that byte k of the input became.                *)
From(k)  == k + Cardinality({j \in 1 .. k - 1 : source[j] >= 128})
Became(k) == SubSeq(output, From(k), From(k) + IF source[k] >= 128 THEN 1 ELSE 0)

(* What the program converts, under whatever name, it reads as CP1251: an  *)
(* ASCII character stays itself, as README.md:49 says, and a letter becomes*)
(* its own UTF-8 sequence, whatever bytes stand around it; the exceptions  *)
(* are the sixteen letters of rows 130 to 145 (converter.c:148-163), which *)
(* get other letters.  The output is well-formed UTF-8 in any case: a byte *)
(* that is in no row becomes two ASCII bytes.                              *)
ConvertsLetters == job = "done" =>
  /\ source # << >> => Len(output) = From(Len(source) + 1)
  /\ \A k \in DOMAIN source : LET b == source[k] IN
       \/ b < 128 /\ Became(k) = <<b>>
       \/ b >= 128 /\ CodePoint(b) > 0 /\ b \notin 224 .. 239 /\ Became(k) = Utf8(CodePoint(b))
       \/ b \in 224 .. 239 /\ Became(k) = <<209, b - 48>>
       \/ b >= 128 /\ CodePoint(b) = 0 /\ Became(k) = <<32, 0>>
=============================================================================
