------------------------------- MODULE Leb128 -------------------------------
(***************************************************************************)
(* LEB128 integers (runtime-rust/src/lib.rs, runtime-go/volex.go): what    *)
(* lengths, indices and the integers of the wire format are written in.    *)
(*                                                                         *)
(* A byte carries Group bits (7) and one more to continue; a u64 has       *)
(* Bits64 bits, of which the last byte of the longest number holds fewer   *)
(* than Group.                                                             *)
(***************************************************************************)
EXTENDS Integers, Sequences, SequencesExt, FiniteSetsExt

CONSTANTS Group, Bits64

ASSUME LebAssumption == Group \in Nat \ {0} /\ Bits64 \in Nat /\ Group < Bits64

Continue == 2^Group

\* What a proof needs to know of the powers of two.
ASSUME PowersAssumption ==
    /\ \A m, n \in 0..Bits64: 2^m \in Nat \ {0} /\ 2^(m + n) = 2^m * 2^n
    /\ \A n \in {Group, Bits64}: 2^n >= 2 * n

(* Decoding gives a value and the rest of the buffer, or an error. *)
Ok(v, rest) == [ok |-> TRUE, v |-> v, rest |-> rest]
Err(e) == [ok |-> FALSE, err |-> e]
UnexpectedEof == Err("UnexpectedEof")
Rest(buf, n) == SubSeq(buf, n + 1, Len(buf))

(* `x as uW`. *)
AsUnsigned(x, w) == x % 2^w

encode_leb128_u64[v \in Nat] ==
  IF v < Continue THEN <<v>>
  ELSE <<Continue + (v % Continue)>> \o encode_leb128_u64[v \div Continue]

\* The bytes that are read before `shift >= 64` stops the loop.
MaxLeb == (Bits64 - 1) \div Group + 1

decode_leb128_u64(buf) ==
  LET ends == {i \in DOMAIN buf: buf[i] < Continue}
      n == IF ends = {} THEN Len(buf) + 1 ELSE Min(ends)
      result[i \in 0 .. n] ==
        IF i = 0 THEN 0 ELSE result[i - 1] + (buf[i] % Continue) * 2^(Group * (i - 1))
  IN CASE n > MaxLeb /\ Len(buf) > MaxLeb -> Err("Leb128Overflow")
       [] n > Len(buf) -> UnexpectedEof
       [] OTHER -> Ok(AsUnsigned(result[n], Bits64), Rest(buf, n))
=============================================================================
