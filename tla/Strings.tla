------------------------------ MODULE Strings ------------------------------
(***************************************************************************)
(* Numbers as text: itoa and strrev of lib.c (and their copies in          *)
(* ece391support.c) and the conversions of printf.  A text is a sequence   *)
(* of digits, with a sign where printf prints one.                         *)
(***************************************************************************)
EXTENDS Naturals, Sequences

CONSTANT HEX_DIGITS     \* hexadecimal digits of a word (8 in the code)

ASSUME StringsAssumption == HEX_DIGITS \in Nat \ {0}

WORD == LET power[n \in 0 .. HEX_DIGITS] == IF n = 0 THEN 1 ELSE 16 * power[n - 1]
        IN  power[HEX_DIGITS]
Words == 0 .. WORD - 1

strrev(s) == [i \in 1 .. Len(s) |-> s[Len(s) + 1 - i]]

(* The digits, the lowest first.                                           *)
LowFirst(value, radix) ==
    LET digits[n \in 0 .. value] == IF n = 0 THEN <<>> ELSE <<n % radix>> \o digits[n \div radix]
    IN  digits[value]

(* The digits are left in the order they were found.                       *)
itoa_NotReversed(value, radix) == IF value = 0 THEN <<0>> ELSE LowFirst(value, radix)

itoa(value, radix) == IF value = 0 THEN <<0>> ELSE strrev(LowFirst(value, radix))

(* printf's buffer, from the number of digits on: itoa leaves the digits   *)
(* from HEX_DIGITS on, and the loop fills what is before them with zeros.  *)
Filled(digits) == [i \in Len(digits) .. HEX_DIGITS + Len(digits) - 1 |->
                     IF i < HEX_DIGITS THEN 0 ELSE digits[i - HEX_DIGITS + 1]]

(* What is printed begins at the number of digits, and ends with them.     *)
Padded(digits) == LET starting_index == Len(digits)
                  IN  [k \in 1 .. HEX_DIGITS |-> Filled(digits)[starting_index + k - 1]]

Text(minus, digits) == [minus |-> minus, digits |-> digits]

(* %d takes the word for a signed one, and prints the word of its negation.*)
printf(conversion, w) ==
    CASE conversion = "%x" -> Text(FALSE, itoa(w, 16))
      [] conversion = "%#x" -> Text(FALSE, Padded(itoa(w, 16)))
      [] conversion = "%u" -> Text(FALSE, itoa(w, 10))
      [] conversion = "%d" /\ w < WORD \div 2 -> Text(FALSE, itoa(w, 10))
      [] conversion = "%d" /\ w >= WORD \div 2 -> Text(TRUE, itoa((WORD - w) % WORD, 10))
=============================================================================
