------------------------------- MODULE KvTypes ------------------------------
(***************************************************************************)
(* The data types of keys and values (src/kv-types.h, src/kv-types.cpp,    *)
(* lib/sanitize.js): what the application passes is checked, converted to   *)
(* what is stored, compared, and converted back by get, key and val.        *)
(*                                                                         *)
(* A table of one type of key: its records, each with the key the           *)
(* application last used for it.  Widths and bases are small; a number the   *)
(* application passes is counted in halves, so that some are not integers.   *)
(***************************************************************************)
EXTENDS Integers, Sequences, FiniteSets

CONSTANTS
  Bits,      \* width of an int32
  LongBits,  \* width of an int64
  MaxNum,    \* bound: numbers passed, beyond the ranges of the types
  Base,      \* digits of a hex string
  MaxLen,    \* bound: length of hex strings, strings and buffers
  MaxKeys    \* bound: records

ASSUME TypesAssumption == Bits \in Nat \ {0} /\ LongBits \in Nat \ {0} /\ Base \in Nat \ {0}

\* KV_TYPE_EACH: the types databases can have.  (sanitize.js also knows number,
\* for which no class is made.)
Types == {"int32", "uint32", "int64", "hex", "string", "binary"}

VARIABLES
  type,   \* opt.keyType
  table   \* stored key -> the key as the application last wrote it

vars == <<type, table>>

Strings(S) == UNION {[1..n -> S] : n \in 0..MaxLen}

NUL == 0

\* What the application may pass.  A decimal string is a sign, some leading
\* zeros and a magnitude; a hex digit has a value (Base: it is no digit), and the
\* last one has two cases.
Inputs(t) ==
  CASE t \in {"int32", "uint32"} -> -2 * MaxNum .. 2 * MaxNum
    [] t = "int64" -> [neg : BOOLEAN, zeros : 0..1, mag : 0..MaxNum]
    [] t = "hex" -> Strings({[d |-> d, upper |-> FALSE] : d \in 0..Base}
                            \cup {[d |-> Base - 1, upper |-> TRUE]})
    [] t \in {"string", "binary"} -> Strings({NUL, 1, 2})

-----------------------------------------------------------------------------
(* sanitize.js                                                             *)

\* parseInt of h halves.
parseInt(h) == IF h >= 0 THEN h \div 2 ELSE -((-h) \div 2)

\* Whether the sanitizer lets v pass.  (The numbers it parses are int32s and
\* uint32s without a check of their range.)
Sanitize(t, v) ==
  CASE t = "uint32" -> parseInt(v) >= 0
    [] t = "hex" -> v # <<>> /\ \A i \in 1..Len(v) : v[i].d < Base
    [] OTHER -> TRUE

-----------------------------------------------------------------------------
(* The constructors from a JavaScript value.                               *)

\* Int32Value, Uint32Value.
ToInt32(n) == ((n + 2 ^ (Bits - 1)) % (2 ^ Bits)) - 2 ^ (Bits - 1)

ToUint32(n) == n % (2 ^ Bits)

\* The number a decimal string denotes.
Number(s) == IF s.neg THEN -s.mag ELSE s.mag

\* Mutant: atoi, whose numbers are narrower.
atoi(s) ==
  LET n == Number(s)
      most == 2 ^ (Bits - 1) - 1
  IN  IF n > most THEN most ELSE IF n < -most - 1 THEN -most - 1 ELSE n

\* atoll: the nearest number there is.
atoll(s) ==
  LET n == Number(s)
      most == 2 ^ (LongBits - 1) - 1
  IN  IF n > most THEN most ELSE IF n < -most - 1 THEN -most - 1 ELSE n

\* hex_type: two digits a byte, a missing last one is '0'.
HexBytes(s) ==
  [i \in 1..((Len(s) + 1) \div 2) |->
     s[2 * i - 1].d * Base + (IF 2 * i <= Len(s) THEN s[2 * i].d ELSE 0)]

\* string_type: WriteUtf8 into a buffer with room for it also writes, and
\* counts, the terminating NUL.
StringBytes(s) == Append(s, NUL)

Stored(t, v) ==
  CASE t = "int32" -> ToInt32(parseInt(v))
    [] t = "uint32" -> ToUint32(parseInt(v))
    [] t = "int64" -> atoll(v)
    [] t = "hex" -> HexBytes(v)
    [] t = "string" -> StringBytes(v)
    [] t = "binary" -> v

-----------------------------------------------------------------------------
(* v8value: what get, key and val return, in the form of an input.         *)

\* Mutant: a byte is printed without its leading zero.
HexTextShort(b) ==
  IF Len(b) = 1 /\ b[1] < Base THEN <<[d |-> b[1], upper |-> FALSE]>>
  ELSE [i \in 1..(2 * Len(b)) |->
          [d |-> IF i % 2 = 1 THEN b[(i + 1) \div 2] \div Base ELSE b[i \div 2] % Base,
           upper |-> FALSE]]

\* "%02hhx" for every byte.
HexText(b) ==
  [i \in 1..(2 * Len(b)) |->
     [d |-> IF i % 2 = 1 THEN b[(i + 1) \div 2] \div Base ELSE b[i \div 2] % Base,
      upper |-> FALSE]]

\* Nan::New(const char* ): up to the first NUL.
CString(b) ==
  LET n == CHOOSE i \in 1..Len(b) : b[i] = NUL /\ \A j \in 1..(i - 1) : b[j] # NUL
  IN  SubSeq(b, 1, n - 1)

\* "%lld".
Decimal(n) == [neg |-> n < 0, zeros |-> 0, mag |-> IF n < 0 THEN -n ELSE n]

v8value(t, b) ==
  CASE t \in {"int32", "uint32"} -> 2 * b
    [] t = "int64" -> Decimal(b)
    [] t = "hex" -> HexText(b)
    [] t = "string" -> CString(b)
    [] t = "binary" -> b

-----------------------------------------------------------------------------
(* Comparison of stored keys.                                              *)

\* memcmp, then the lengths: the order of the engines.
BytesBelow(a, b) ==
  \/ Len(a) < Len(b) /\ a = SubSeq(b, 1, Len(a))
  \/ \E i \in 1..Len(a) : i <= Len(b) /\ a[i] < b[i] /\ \A j \in 1..(i - 1) : a[j] = b[j]

\* Mutant: numbers are compared as unsigned.
CompareUnsigned(t, a, b) ==
  CASE t \in {"int32", "uint32"} -> a % (2 ^ Bits) < b % (2 ^ Bits)
    [] t = "int64" -> a % (2 ^ LongBits) < b % (2 ^ LongBits)
    [] OTHER -> BytesBelow(a, b)

\* number_type::compare, set for keys that are numbers.
Compare(t, a, b) ==
  CASE t \in {"int32", "uint32", "int64"} -> a < b
    [] OTHER -> BytesBelow(a, b)

-----------------------------------------------------------------------------
(* A table.                                                                *)

Init ==
  /\ type \in Types
  /\ table = << >>

\* put(v).
Put(v) ==
  /\ Sanitize(type, v)
  /\ LET b == Stored(type, v)
     IN  /\ Cardinality(DOMAIN table \cup {b}) <= MaxKeys
         /\ table' = [c \in DOMAIN table \cup {b} |-> IF c = b THEN v ELSE table[c]]
  /\ UNCHANGED type

\* del(v).
Del(v) ==
  /\ Sanitize(type, v) /\ Stored(type, v) \in DOMAIN table
  /\ table' = [c \in DOMAIN table \ {Stored(type, v)} |-> table[c]]
  /\ UNCHANGED type

Next == \E v \in Inputs(type) : Put(v) \/ Del(v)

Spec == Init /\ [][Next]_vars

-----------------------------------------------------------------------------
(* Properties.                                                             *)

\* The keys the documents speak of: integers and decimal strings in the range of
\* their type, hex strings of whole bytes, strings and buffers.  (A number that
\* is no integer or out of range, and an odd hex string, are accepted too, and
\* share the record of another key.)
Documented(t, v) ==
  CASE t = "int32" -> v % 2 = 0 /\ v \div 2 \in -(2 ^ (Bits - 1)) .. (2 ^ (Bits - 1) - 1)
    [] t = "uint32" -> v % 2 = 0 /\ v \div 2 \in 0 .. (2 ^ Bits - 1)
    [] t = "int64" -> Number(v) \in -(2 ^ (LongBits - 1)) .. (2 ^ (LongBits - 1) - 1)
    [] t = "hex" -> Sanitize(t, v) /\ Len(v) % 2 = 0
    [] OTHER -> TRUE

\* What such a key stands for: leading zeros, the sign of zero and the case of
\* hex digits do not matter.
Meaning(t, v) ==
  CASE t = "int64" -> Number(v)
    [] t = "hex" -> [i \in 1..Len(v) |-> v[i].d]
    [] OTHER -> v

\* put, get and del of a key find the record written under it, and under no
\* other key: conversion neither separates two forms of a key nor lets two keys
\* share a record.
FindsSame ==
  \A v \in Inputs(type), b \in DOMAIN table :
    Documented(type, v) /\ Documented(type, table[b]) =>
      /\ Sanitize(type, v)
      /\ Stored(type, v) = b <=> Meaning(type, v) = Meaning(type, table[b])

\* Strings with a NUL inside are cut there when they are read back.
Cut(v) == type = "string" /\ \E i \in 1..Len(v) : v[i] = NUL

\* A key that a cursor returned is accepted again and finds the record it came
\* from (so what is read back is the key written, in its plainest form).
KeyFindsRecord ==
  \A b \in DOMAIN table : ~Cut(table[b]) =>
    Sanitize(type, v8value(type, b)) /\ Stored(type, v8value(type, b)) = b

\* The order of the values a cursor returns, as a reader would sort them.
Below(t, v, w) ==
  CASE t \in {"int32", "uint32"} -> v < w
    [] t = "int64" -> Number(v) < Number(w)
    [] t = "hex" -> BytesBelow([i \in 1..Len(v) |-> v[i].d], [i \in 1..Len(w) |-> w[i].d])
    [] OTHER -> BytesBelow(v, w)

\* A cursor returns the keys in the order of their values.
Ordered ==
  \A a, b \in DOMAIN table : ~Cut(table[a]) /\ ~Cut(table[b]) /\ Compare(type, a, b) =>
    Below(type, v8value(type, a), v8value(type, b))
=============================================================================
