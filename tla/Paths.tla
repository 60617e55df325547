-------------------------------- MODULE Paths -------------------------------
(***************************************************************************)
(* The size an image is asked for in, as it stands in the path of a GET:   *)
(* a mode letter, one number or two with an x between them, and perhaps a  *)
(* letter for an operation (mop).  The path is matched by one regular      *)
(* expression, and ParseSize, which checks a size on its own, by another   *)
(* that may match a part of it.                                            *)
(***************************************************************************)
EXTENDS Integers

minDimension == 20
maxDimension == 9999

\* A number as it is written: leading zeros make more digits of it.
Numeral ==
    {n \in [digits : Nat \ {0}, value : Nat] :
        /\ n.digits = 1 => n.value < 10
        /\ n.digits = 2 => n.value < 100
        /\ n.digits = 3 => n.value < 1000
        /\ n.digits = 4 => n.value < 10000}

\* A size with one number has it twice; square says which form it was.
Size == [mode : {"s", "c", "w", "h", "other"}, width : Numeral, height : Numeral,
         square : BOOLEAN, mop : BOOLEAN]

IsSize(s) == s \in Size /\ (s.square => s.height = s.width)

Modes == {"s", "c", "w", "h"}

\* parsePath: every number has two to four digits.
PathAccepts(s) ==
    /\ s.mode \in Modes
    /\ s.width.digits \in 2 .. 4
    /\ s.height.digits \in 2 .. 4

\* parseSizeOp on the whole text: a letter at the end makes the last number zero,
\* and an x right after one digit is not seen, which makes both zero.
ParsedWidth(s) ==
    IF (s.square /\ s.mop) \/ (~s.square /\ s.width.digits = 1) THEN 0 ELSE s.width.value
ParsedHeight(s) ==
    IF s.mop \/ (~s.square /\ s.width.digits = 1) THEN 0 ELSE s.height.value

isValidDimension(d) == d \in minDimension .. maxDimension

\* The expression needs a mode and two digits; anything may follow.
ParseSizeAccepts(s) ==
    /\ s.mode \in Modes
    /\ s.width.digits >= 2
    /\ isValidDimension(ParsedWidth(s))
    /\ isValidDimension(ParsedHeight(s))
=============================================================================
