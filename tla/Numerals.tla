------------------------------ MODULE Numerals -------------------------------
(***************************************************************************)
(* Typed variables written as text and read back: the numeral constructors *)
(* of cString, the numbers that Parser reads, and BasicVariable between    *)
(* them.  A numeral is a sequence of digit values, with numbers beyond     *)
(* them for the letters x and L of its format.  `uint' has the width of    *)
(* the widest type.                                                        *)
(***************************************************************************)
EXTENDS Integers, Sequences

CONSTANTS Widths,       \* the widths of the three integer types
          Digits,       \* the digits that are typed
          MaxNumeral    \* bound: the longest numeral that is typed

VARIABLES numeral,      \* the text that is read, as far as it is typed
          sign,         \* what stands before it: "-", "+" or "none"
          variable      \* a BasicVariable: its type and what it holds

numeralVars == <<numeral, sign, variable>>

x == 100
L == 101
UintBits == CHOOSE b \in Widths : \A c \in Widths : c <= b
TypeNames == {"int", "uint"} \X Widths
Modulus(bits) == 2 ^ bits
Invalid == Modulus(UintBits)         \* no number: the call throws
Unset == Invalid + 1                 \* EYE_CATCHER: nothing was stored yet
isSignedIntegerType(type) == type[1] = "int"
Lowest(type) == IF isSignedIntegerType(type) THEN -Modulus(type[2] - 1) ELSE 0
Largest(type) == IF isSignedIntegerType(type) THEN Modulus(type[2] - 1) - 1 ELSE Modulus(type[2]) - 1
AsUint(n) == n % Modulus(UintBits)
AsInt(n) == IF AsUint(n) < Modulus(UintBits - 1) THEN AsUint(n) ELSE AsUint(n) - Modulus(UintBits)
-----------------------------------------------------------------------------
(* cString(uint32, base): the remainders, the last one first; zero is "0".  *)
Printed(number, base) ==
  LET digit[n \in 0 .. number] ==
        IF n < base THEN <<n>> ELSE Append(digit[n \div base], n % base)
  IN digit[number]
(* The positive part that cString(int32) prints behind its sign.            *)
t_abs(n) == IF n < 0 THEN AsUint(-n) ELSE n
(* HEXBYTE, HEXWORD, HEXDWORD: a fixed number of digits.                    *)
HexPrinted(n, bits) ==
  LET width == (bits + 3) \div 4
  IN [k \in 1 .. width |-> (n \div 16 ^ (width - k)) % 16]
(* As many of them as the narrowest type needs that holds the number.       *)
HEXNUMBER(n) ==
  HexPrinted(n, CHOOSE b \in Widths : n < Modulus(b) /\ \A c \in Widths : n < Modulus(c) => b <= c)
-----------------------------------------------------------------------------
(* The number from a place on; a last L is skipped; no overflow check.      *)
NumberFrom(number, first, base) ==
  LET last == IF number[Len(number)] = L THEN Len(number) - 1 ELSE Len(number)
      value[k \in 0 .. last] ==
        IF k < first THEN 0 ELSE AsUint(value[k - 1] * base + number[k])
  IN IF \E k \in first .. last : number[k] \notin 0 .. base - 1 THEN Invalid
     ELSE value[IF last < first THEN 0 ELSE last]

(* Parser::isCUnsignedInteger of a name: zero alone, or "0x" and a number   *)
(* of base 16, or one of base 10.                                           *)
isCUnsignedInteger(number) ==
  LET isHex == Len(number) > 1 /\ number[1] = 0
  IN IF number = <<0>> THEN 0
     ELSE IF isHex /\ number[2] # x THEN Invalid
     ELSE NumberFrom(number, IF isHex THEN 3 ELSE 1, IF isHex THEN 16 ELSE 10)

readHexString(number) == NumberFrom(number, 1, 16)

(* A '+' is read too, and means nothing.                                    *)
readSignedValue(before) == before = "-"

(* What readVariable() and the checks of the setters let a variable hold:   *)
(* a sign is read for signed types only.                                    *)
Stored(type, number) == IF number \in Lowest(type) .. Largest(type) THEN number ELSE Invalid
readVariable(type, before, text) ==
  LET number == isCUnsignedInteger(text)
  IN IF number = Invalid \/ (before # "none" /\ ~isSignedIntegerType(type)) THEN Invalid
     ELSE IF readSignedValue(before)
       THEN IF number <= Modulus(UintBits - 1) THEN Stored(type, AsInt(-AsInt(number))) ELSE Invalid
     ELSE IF isSignedIntegerType(type) THEN Stored(type, AsInt(number))
     ELSE Stored(type, number)

(* makeString(): signed ones in base 10, unsigned ones as "0x" and digits.  *)
makeString(type, number) ==
  IF isSignedIntegerType(type)
    THEN [sign |-> IF number < 0 THEN "-" ELSE "none", text |-> Printed(t_abs(number), 10)]
    ELSE [sign |-> "none", text |-> <<0, x>> \o HexPrinted(number, type[2])]
-----------------------------------------------------------------------------
NumeralsInit ==
  /\ numeral = <<>> /\ sign = "none"
  /\ variable = [type |-> <<"uint", UintBits>>, data |-> Unset]

Type(type) ==
  /\ variable.data = Unset /\ numeral = <<>>
  /\ variable' = [variable EXCEPT !.type = type]
  /\ sign' \in {"none", "-", "+"} /\ UNCHANGED numeral

Digit(c) ==
  /\ variable.data = Unset /\ Len(numeral) < MaxNumeral
  /\ numeral' = Append(numeral, c) /\ UNCHANGED <<sign, variable>>

(* A call that throws leaves the variable without a value.                  *)
Read ==
  /\ numeral # <<>> /\ variable.data = Unset
  /\ variable' = [variable EXCEPT !.data = readVariable(variable.type, sign, numeral)]
  /\ UNCHANGED <<numeral, sign>>

NumeralsNext ==
  \/ \E type \in TypeNames : Type(type)
  \/ \E c \in Digits \cup {x, L} : Digit(c)
  \/ Read
-----------------------------------------------------------------------------
(* What a numeral of base 10 or 16 is worth.                                *)
Worth ==
  LET text == IF numeral[Len(numeral)] = L THEN SubSeq(numeral, 1, Len(numeral) - 1) ELSE numeral
      isHex == Len(text) > 2 /\ text[2] = x
      from == IF isHex THEN 3 ELSE 1
      sum[k \in 0 .. Len(text)] ==
        IF k < from THEN 0
        ELSE sum[k - 1] + text[k] * (IF isHex THEN 16 ELSE 10) ^ (Len(text) - k)
  IN sum[Len(text)]

(* A variable that took a numeral whose worth a uint can hold holds exactly *)
(* that worth, under its sign (but for the widest signed type, which takes  *)
(* the upper half of uint for negative numbers), and what a variable holds, *)
(* printed, is read again as the same number, as are hexadecimal digits.    *)
NumbersReadAsWritten ==
  variable.data \notin {Unset, Invalid} =>
    LET worth == IF sign = "-" THEN -Worth ELSE Worth
        written == makeString(variable.type, variable.data)
    IN /\ variable.data \in Lowest(variable.type) .. Largest(variable.type)
       /\ Worth < Modulus(UintBits - (IF isSignedIntegerType(variable.type) THEN 1 ELSE 0))
            => variable.data = worth
       /\ readVariable(variable.type, written.sign, written.text) = variable.data
       /\ ~isSignedIntegerType(variable.type) =>
            /\ readHexString(HexPrinted(variable.data, variable.type[2])) = variable.data
            /\ readHexString(HEXNUMBER(variable.data)) = variable.data

NumeralsTypeOK ==
  /\ Len(numeral) <= MaxNumeral /\ sign \in {"none", "-", "+"}
  /\ variable.type \in TypeNames
=============================================================================
