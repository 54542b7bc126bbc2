----------------------------- MODULE JointCodec -----------------------------
(***************************************************************************)
(* The payloads of communication/JointCommandCodec.cpp and                 *)
(* JointStateCodec.cpp: a double becomes a count of hundredths, truncated  *)
(* to a 32-bit integer and sent as four bytes, the lowest first.           *)
(*                                                                         *)
(* Doubles are fixed-point integers, and whatever else is no number; the   *)
(* caller says how many of its units make a hundredth.  A byte has Byte    *)
(* values (256 in the code).                                               *)
(***************************************************************************)
EXTENDS Integers

CONSTANT Byte

ASSUME ByteAssumption == Byte \in Nat /\ Byte > 1 /\ Byte % 2 = 0

(* What a one in each byte is worth, and what four bytes can tell apart. *)
Place == <<1, Byte, Byte * Byte, Byte * Byte * Byte>>
Modulus == Byte * (Byte * Byte * Byte)

(* What an int32_t can hold. *)
Int32 == -(Modulus \div 2) .. (Modulus \div 2) - 1

Abs(n) == IF n < 0 THEN -n ELSE n
Sign(n) == IF n < 0 THEN -1 ELSE 1

(* The cast truncates towards zero.  A whole number of hundredths need not survive: *)
(* 0.29 * 100.0 is a little less than 29 in double arithmetic.                      *)
Truncations(x, hundredth) ==
    LET whole == Abs(x) \div hundredth
    IN {Sign(x) * whole}
       \cup (IF x # 0 /\ Abs(x) % hundredth = 0 THEN {Sign(x) * (whole - 1)} ELSE {})

(* Casting NaN or a value that does not fit is undefined: processors deliver the    *)
(* smallest integer, the nearest one, or zero.                                      *)
UndefinedCasts == {-(Modulus \div 2), (Modulus \div 2) - 1, 0}

Fits(x, hundredth) == x \in Int /\ Truncations(x, hundredth) \subseteq Int32

Casts(x, hundredth) ==
    IF Fits(x, hundredth) THEN Truncations(x, hundredth) ELSE UndefinedCasts

(* static_cast<uint32_t> is the residue; each byte is a shift and a mask of it. *)
Encode(count) == [b \in 1 .. 4 |-> ((count % Modulus) \div Place[b]) % Byte]

(* Mutant: the word is taken for an unsigned number. *)
DecodeUnsigned(payload) ==
    payload[1] + Place[2] * payload[2] + Place[3] * payload[3] + Place[4] * payload[4]

(* Mutant: the bytes are sign-extended one by one. *)
DecodeSignedBytes(payload) ==
    LET signed == [b \in 1 .. 4 |-> IF 2 * payload[b] >= Byte THEN payload[b] - Byte ELSE payload[b]]
    IN signed[1] + Place[2] * signed[2] + Place[3] * signed[3] + Place[4] * signed[4]

(* The word put together again, and static_cast<int32_t> of it. *)
Decode(payload) ==
    LET word == payload[1] + Place[2] * payload[2] + Place[3] * payload[3] + Place[4] * payload[4]
    IN IF 2 * word >= Modulus THEN word - Modulus ELSE word
=============================================================================
