------------------------------ MODULE Arduino -------------------------------
(***************************************************************************)
(* The integer arithmetic the sketch relies on: division of two ints, the  *)
(* Arduino core's map(), and the comparison of millis() with an int sum    *)
(* that every timer of the sketch is built from.                           *)
(***************************************************************************)
EXTENDS Integers

Magnitude(n) == IF n < 0 THEN -n ELSE n

(* C's int / int truncates toward zero, where \div rounds down. *)
Quot(a, b) ==
  LET q == Magnitude(a) \div Magnitude(b)
  IN  IF (a < 0) = (b < 0) THEN q ELSE -q

(* map() of the Arduino core. *)
LinearMap(x, inLo, inHi, outLo, outHi) ==
  Quot((x - inLo) * (outHi - outLo), inHi - inLo) + outLo

(* The sum start + period in an unsigned long of `width` values. *)
Deadline(start, period, width) ==
  IF start + period < width THEN start + period ELSE start + period - width

(* millis() < start + period *)
NotYet(now, start, period, width) == now < Deadline(start, period, width)

(* One millisecond later. *)
NextMillis(now, width) == IF now + 1 < width THEN now + 1 ELSE 0
=============================================================================
