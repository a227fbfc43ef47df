-------------------------- MODULE TemperatureCodec --------------------------
(***************************************************************************)
(* How a temperature travels: two bytes of the sensor, whole degrees in    *)
(* the server, an IEEE-11073 number in the five bytes of the indication,   *)
(* whole degrees again in the client.  Operators only.                     *)
(*                                                                         *)
(* The double arithmetic is exact here: for each of the 65536 codes of the *)
(* sensor, and each temperature they stand for, rounding leaves the        *)
(* truncated result what it is over the rationals.                         *)
(***************************************************************************)
EXTENDS Integers

Byte == 0..255
Code(bytes) == 256 * bytes[1] + bytes[2]

(* Conversion from a double to an integer drops the fraction.              *)
Truncate(n, d) == IF n >= 0 THEN n \div d ELSE -((-n) \div d)

(* Degrees the code stands for, by the formula of the sensor's data sheet. *)
Degrees(code) == Truncate(17572 * code - 4685 * 65536, 6553600)

(* The value is a uint32_t.  Converting a double of -1 or below to it is   *)
(* undefined: the processor's conversion saturates at 0, a conversion by   *)
(* way of int32_t or int64_t wraps to t + 2^32, for which t stands here:   *)
(* only its residue modulo 2^24 is used.                                   *)
get_temp_value(read_data) ==
  LET t == Degrees(Code(read_data))
  IN IF t >= 0 THEN {t} ELSE {0, t}

(* The lower 24 bits of the product, and the exponent in the upper 8.      *)
Exponent == -3
Mantissa(temperature_in_c) == (temperature_in_c * 1000) % 16777216

UINT32_TO_BITSTREAM(mantissa, exponent) ==
  <<mantissa % 256, (mantissa \div 256) % 256, mantissa \div 65536, exponent % 256>>

(* The bytes of the indication: flags, which say Celsius, and the number.  *)
Buffer(temperature_in_c) ==
  LET bytes == UINT32_TO_BITSTREAM(Mantissa(temperature_in_c), Exponent)
  IN <<0, bytes[1], bytes[2], bytes[3], bytes[4]>>

-----------------------------------------------------------------------------
(* The client. *)

(* Mutant: the sign is not extended. *)
SignedMantissa_Unsigned(buffer) ==
  buffer[2] + 256 * buffer[3] + 65536 * buffer[4]

SignedMantissa(buffer) ==
  LET m == buffer[2] + 256 * buffer[3] + 65536 * buffer[4]
  IN IF buffer[4] >= 128 THEN m - 16777216 ELSE m

(* 10^exponent times the mantissa, for the exponents from -3 to 0: the     *)
(* server only sends -3.                                                   *)
Pow10(n) == CASE n = 0 -> 1 [] n = 1 -> 10 [] n = 2 -> 100 [] n = 3 -> 1000

FLOAT_TO_INT32(buffer) ==
  LET exponent == IF buffer[5] >= 128 THEN buffer[5] - 256 ELSE buffer[5]
  IN Truncate(SignedMantissa(buffer), Pow10(-exponent))
=============================================================================
