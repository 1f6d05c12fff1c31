------------------------- MODULE NumericConverters -------------------------
(***************************************************************************)
(* A number in a Dson that is read with to_int32(), to_uint64(),           *)
(* to_double() and so on, and stored again as what it was read as, any     *)
(* number of times, with uploads in network order between: each converter  *)
(* brings the object back to host order, looks at the type the number is   *)
(* stored as, checks its range, and casts it or answers the default.       *)
(*                                                                         *)
(* Widths are parameters, so that small ones show what the real ones do.   *)
(* Numbers are counted in halves: the integers are the even ones, and a    *)
(* double may have a fraction; below 2^Precision doubles are all equally   *)
(* far apart, as subnormal ones are.  Network order changes no integer;    *)
(* what it does to their bytes is the subject of ByteOrder.                *)
(***************************************************************************)
EXTENDS Integers, FiniteSets

CONSTANTS
  Narrow,     (* Bits of int32_t and uint32_t ...                          *)
  Wide,       (* ... and of int64_t and uint64_t.                          *)
  Precision,  (* Bits of the significand of a double.                      *)
  NaN, PosInf, NegInf, NegZero   (* Doubles that are not numbers of halves. *)

Special == {NaN, PosInf, NegInf, NegZero}

ASSUME SpecialAssumption == Special \cap Int = {} /\ Cardinality(Special) = 4

ASSUME WidthAssumption ==
  /\ Narrow \in Nat \ {0} /\ Wide \in Nat /\ Precision \in Nat
  /\ Narrow < Precision /\ Precision < Wide

VARIABLES
  obj,        (* The object: type, byte order, and the number, or its      *)
              (* network image.                                            *)
  origin,     (* The object the chain began with.                          *)
  refused,    (* The converter that answered the default, or None.         *)
  undefined   (* A cast was undefined.                                     *)

vars == <<obj, origin, refused, undefined>>

-----------------------------------------------------------------------------
IntType == {"int32", "uint32", "int64", "uint64"}
Numeric == IntType \cup {"double"}
None    == "none"

Bits(T)   == IF T \in {"int32", "uint32"} THEN Narrow ELSE Wide
Signed(T) == T \in {"int32", "int64"}
Lowest(T) == IF Signed(T) THEN -(2 ^ Bits(T)) ELSE 0
Max(T)    == 2 * (2 ^ (IF Signed(T) THEN Bits(T) - 1 ELSE Bits(T)) - 1)
Abs(n)    == IF n < 0 THEN -n ELSE n

(* Conversion to double: to the nearest, and to the even one of two.       *)
Ulp(n) == LET Fits(e) == Abs(n) < 2 ^ (Precision + e)
          IN 2 ^ (CHOOSE e \in 0 .. Wide + 2 : Fits(e) /\ \A f \in 0 .. e - 1 : ~Fits(f))
Round(n) ==
  LET u == Ulp(n)
      q == n \div u
      r == n % u
  IN IF 2 * r > u \/ (2 * r = u /\ q % 2 = 1) THEN (q + 1) * u ELSE q * u

(* Conversion to an integer: towards zero.                                 *)
Trunc(n) == LET t == 2 * (Abs(n) \div 2) IN IF n < 0 THEN -t ELSE t

(* A static_cast to a shorter integer keeps the low bits.                  *)
Wrap(T, n) ==
  LET all == 2 ^ (Bits(T) + 1)
      low == n % all
  IN IF low > Max(T) THEN low - all ELSE low

Numbers(T) == CASE T \in IntType -> {2 * n : n \in Lowest(T) \div 2 .. Max(T) \div 2}
              [] T = "double"  -> Special \cup
                   {n \in -(2 ^ (Wide + 2)) .. 2 ^ (Wide + 2) : Round(n) = n}
              [] OTHER         -> {0}
Objects  == UNION {[type : {T}, order : {"host"}, value : Numbers(T)] :
                     T \in Numeric \cup {"string"}}

-----------------------------------------------------------------------------
(* A mantissa one bit short. *)
MantissaBitsShort == Precision - 1

MantissaBits == Precision

(* frexp, which leaves MantissaBits bits before the point, and ldexp.      *)
Scale(n, e) == IF e < 0 THEN n \div 2 ^ (-e) ELSE n * 2 ^ e
Exponent(n) ==
  CHOOSE e \in -MantissaBits .. Wide + 3 :
    IF n = 0 THEN e = -MantissaBits
             ELSE Scale(n, -e) \in 2 ^ (MantissaBits - 1) .. 2 ^ MantissaBits - 1

(* double_in_buf_to_network_order: which kind of double it is, and for a   *)
(* finite one the mantissa as an integer, and the exponent.  No sign is    *)
(* seen in -0.0, as it is not below 0.                                     *)
ToNetwork(v) ==
  CASE v = NaN     -> [type |-> "NaN"]
    [] v = NegInf  -> [type |-> "InfNegative"]
    [] v = PosInf  -> [type |-> "InfPositive"]
    [] OTHER -> LET n == IF v = NegZero THEN 0 ELSE v
                    e == Exponent(Abs(n))
                IN [type |-> IF n < 0 THEN "NormalNegative" ELSE "NormalPositive",
                    mantissa |-> Scale(Abs(n), -e), exp |-> e]

(* double_in_buf_to_host_order. *)
FromNetwork(i) ==
  CASE i.type = "NaN"            -> NaN
    [] i.type = "InfNegative"    -> NegInf
    [] i.type = "InfPositive"    -> PosInf
    [] i.type = "NormalPositive" -> Scale(i.mantissa, i.exp)
    [] i.type = "NormalNegative" -> -Scale(i.mantissa, i.exp)

(* The object as every converter sees it: Converters::to_host comes first. *)
InHost(o) ==
  IF o.order = "network"
    THEN [o EXCEPT !.order = "host",
                   !.value = IF o.type = "double" THEN FromNetwork(@) ELSE @]
    ELSE o

(* The order of numbers; nothing is above or below NaN, or equal to it.    *)
Leq(a, b) == \/ a = NegInf /\ b # NaN
             \/ b = PosInf /\ a # NaN
             \/ LET Num(v) == IF v = NegZero THEN 0 ELSE v
                IN {Num(a), Num(b)} \subseteq Int /\ Num(a) <= Num(b)

-----------------------------------------------------------------------------
(* A bound that excludes the largest number. *)
UpperExclusive(T, from) ==
  IF from = "double" THEN Round(Max(IF T = "int64" THEN "int32" ELSE T)) - 2 ELSE Max(T)

(* The upper bound the converter to T compares with.  Compared with a      *)
(* double it becomes one; to_int64() takes the one of int32_t there.       *)
Upper(T, from) ==
  IF from = "double" THEN Round(Max(IF T = "int64" THEN "int32" ELSE T)) ELSE Max(T)

(* The case of the switch for the type of the object, and its range check: *)
(* those cases that have none hold only numbers in range.                  *)
Accepts(T, o) ==
  /\ o.type \in Numeric
  /\ T = "double" \/ (Leq(Lowest(T), o.value) /\ Leq(o.value, Upper(T, o.type)))

(* A cast that keeps the fraction. *)
CastWithFraction(T, o) ==
  IF o.type \in IntType /\ T \in IntType THEN {Wrap(T, o.value)} ELSE {o.value}

(* The number the converter answers; whatever T can hold if that is        *)
(* undefined.                                                              *)
Cast(T, o) ==
  CASE o.value \in Special -> IF T = "double" THEN {o.value} ELSE {0}
    [] T = "double" /\ o.value \notin Special -> {Round(o.value)}
    [] T # "double" /\ o.type # "double" -> {Wrap(T, o.value)}
    [] OTHER -> IF Trunc(o.value) \in Numbers(T) THEN {Trunc(o.value)} ELSE Numbers(T)

Init ==
  /\ obj \in Objects
  /\ origin = obj
  /\ refused = None
  /\ undefined = FALSE

Convert(T) ==
  LET o == InHost(obj)
  IN /\ refused = None
     /\ Accepts(T, o)
     /\ \E v \in Cast(T, o) : obj' = [type |-> T, order |-> "host", value |-> v]
     /\ undefined' = (undefined \/ Cardinality(Cast(T, o)) > 1)
     /\ UNCHANGED <<origin, refused>>

(* The default, and the end of the chain: nothing is left of the number.   *)
Default(T) ==
  LET o == InHost(obj)
  IN /\ refused = None
     /\ ~Accepts(T, o)
     /\ refused' = T
     /\ obj' = o
     /\ UNCHANGED <<origin, undefined>>

(* An upload in network order leaves the object in that order, and so      *)
(* arrives the copy; Converters::to_network does nothing twice, and knows  *)
(* no converter for text.                                                  *)
Upload ==
  /\ refused = None
  /\ obj.order = "host" /\ obj.type \in Numeric
  /\ obj' = [obj EXCEPT !.order = "network",
                        !.value = IF obj.type = "double" THEN ToNetwork(@) ELSE @]
  /\ UNCHANGED <<origin, refused, undefined>>

Next == Upload \/ \E T \in Numeric : Convert(T) \/ Default(T)

Spec == Init /\ [][Next]_vars

-----------------------------------------------------------------------------
(* What is stored as a type is a number of that type, in either byte       *)
(* order: no fraction in an integer, nothing a double cannot be.           *)
TypeOK ==
  /\ InHost(obj) \in Objects /\ origin \in Objects
  /\ refused \in Numeric \cup {None} /\ undefined \in BOOLEAN

(* What a number may become in a chain: itself, without its fraction if it *)
(* began as a double, and the next double if it began as an integer; and   *)
(* -0.0 may lose its sign.                                                 *)
Images(o) ==
  IF o.value \in Special THEN {o.value} \cup (IF o.value = NegZero THEN {0} ELSE {})
  ELSE {o.value, IF o.type = "double" THEN Trunc(o.value) ELSE Round(o.value)}

(* However often a number is converted, uploaded in network order and      *)
(* stored again, it is never another one: no sequence of casts and byte    *)
(* orders wraps it, turns its sign or rounds it twice, whether it is       *)
(* subnormal, infinite or no number (dson_tools.h:126).  Exempt is the     *)
(* double just above all that uint64_t holds, whose cast is undefined:     *)
(* max() is itself rounded to it in the check                              *)
(* (from_dson_converters.h:183).                                           *)
ChainFaithful == IF undefined THEN 2 ^ (Wide + 1) \in Images(origin)
                              ELSE InHost(obj).value \in Images(origin)

(* The default is answered only if the number the chain began with is out  *)
(* of the range of that type, or no number; except by to_int64() for       *)
(* doubles beyond int32_t.                                                 *)
DefaultOnlyOutOfRange ==
  refused # None /\ ~undefined =>
    \/ origin.type \notin Numeric
    \/ \E v \in Images(origin) :
         ~ (/\ Leq(Lowest(refused), v)
            /\ Leq(v, Max(IF refused = "int64" /\ obj.type = "double" THEN "int32"
                                                                     ELSE refused)))
=============================================================================
