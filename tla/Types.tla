------------------------------- MODULE Types -------------------------------
(***************************************************************************)
(* The types of MYGL-IR and the context that interns them (irbase-type,    *)
(* irbase-type-context).                                                   *)
(*                                                                         *)
(* A type is an object, named here by its place in obj; types refer to     *)
(* other types by pointer.  TypeContext keeps them in an unordered set     *)
(* whose hash and equality are virtual functions of the types, and integer *)
(* types in a map of their own by width.  Both must lead a second request  *)
(* for a type to the first one's object, since the rest of the IR compares *)
(* types by pointer.                                                       *)
(*                                                                         *)
(* The hashes are the code's numbers, collisions included.  An object      *)
(* inserted a second time because it is not equal to itself (void, and     *)
(* pointers to it) is in the set once here: a search never finds such a    *)
(* type, however many times it is there.                                   *)
(***************************************************************************)
EXTENDS Integers, SequencesExt

CONSTANTS
  Widths,          \* the widths of integers asked for
  Lengths,         \* the lengths of arrays
  MaxParams,       \* how many parameters a function type has
  Basic,           \* the predefined types clients build upon
  Word,            \* the word size of the context
  GlobalWord,      \* global_machine_word_size, for types without a context
  HashSize,        \* how many values a hash has: 2^64
  MaxObjects       \* the types alive at a time

(* Clients ask for widths that fit the uint8_t that keeps them (0, 1 and   *)
(* 32 in src/), for arrays of less than 2^62 elements, and build upon      *)
(* types that are there from the start.                                    *)
ASSUME ConstantsAssumption ==
  /\ Widths \subseteq 0 .. 255 /\ Lengths \subseteq Nat
  /\ MaxParams \in Nat /\ Basic \subseteq 1 .. 9
  /\ HashSize \in Nat \ {0} /\ \A n \in Lengths : 4 * n < HashSize

VARIABLES
  obj,             \* the type objects
  type_set,        \* TypeContext::_type_set
  ity_map,         \* TypeContext::_optimized_int_type_map
  last             \* what the last request asked for and was answered
contextVars == <<obj, type_set, ity_map, last>>

Nobody == [id |-> "void", base |-> 0, bits |-> 0, signed |-> FALSE, const |-> FALSE,
           len |-> 0, params |-> <<>>, context |-> FALSE]
IntType(bits, is_unsigned, is_constant) ==      \* uint8_t _binary_bits
  [Nobody EXCEPT !.id = "int", !.bits = bits % 256,
                 !.signed = ~is_unsigned, !.const = is_constant]
FloatType(bits)         == [Nobody EXCEPT !.id = "float", !.bits = bits]
PointerType(t, const)   == [Nobody EXCEPT !.id = "pointer", !.base = t, !.const = const]
ArrayType(t, nelems)    == [Nobody EXCEPT !.id = "array", !.base = t, !.len = nelems]
FunctionType(r, params) == [Nobody EXCEPT !.id = "function", !.base = r, !.params = params]

Void == 1
Predefined ==
  <<Nobody>> \o [i \in 1..5 |-> IntType(<<0, 1, 8, 32, 64>>[i], FALSE, FALSE)]
             \o <<FloatType(32), FloatType(64), PointerType(Void, FALSE)>>

-----------------------------------------------------------------------------
(* Hashes and equality. *)

(* h1 + (~h2 << 1) in size_t: std::hash leaves a number as it is.          *)
hash_combine(h1, h2) == (h1 - 2 * h2 - 2) % HashSize

(* The numbers are those of TypeTID; a float's hash adds up its exponent,  *)
(* its mantissa and its base, which is 2.                                  *)
value_hash(type) ==
  CASE type.id = "int"   -> 3 * type.bits
    [] type.id = "float" -> 4 + (type.bits - 1) + 2
    [] OTHER             -> 0

(* Arrays that differ in their length only are equal: the hash alone tells *)
(* them apart.  The other is one that leaves the length to the equality.   *)
array_hashOfElement(elem_type, length) == hash_combine(elem_type, 6)
array_hash(elem_type, length) == hash_combine(elem_type, hash_combine(6, length))

function_hash(return_type, params) ==
  LET ret[n \in 0 .. Len(params)] == IF n = 0 THEN hash_combine(7, return_type)
                                     ELSE hash_combine(ret[n - 1], params[n])
  IN ret[Len(params)]

pointer_hash(target, const) == hash_combine(8, hash_combine(target, IF const THEN 1 ELSE 0))

get_hash(o, h, t) ==
  CASE o[t].id = "array"    -> array_hash(h[o[t].base], o[t].len)
    [] o[t].id = "function" ->
         function_hash(h[o[t].base], [i \in DOMAIN o[t].params |-> h[o[t].params[i]]])
    [] o[t].id = "pointer"  -> pointer_hash(h[o[t].base], o[t].const)
    [] OTHER                -> value_hash(o[t])
hash(o) == LET h[t \in DOMAIN o] == get_hash(o, h, t) IN h

int_equals(a, b)   == a.bits = b.bits /\ a.signed = b.signed /\ a.const = b.const
float_equals(a, b) == a.bits = b.bits
function_equals(same, a, b) ==
  /\ same[a.base][b.base] /\ Len(a.params) = Len(b.params)
  /\ \A i \in DOMAIN a.params : same[a.params[i]][b.params[i]]

(* Pointer types are equal only if they are one object. *)
pointer_equals(same, o, s, t) == s = t /\ same[o[s].base][o[t].base]

type_equals(o, same, s, t) ==
  IF o[s].id \in {"void", "pointer"}
  THEN o[s].id = "pointer" /\ pointer_equals(same, o, s, t)
  ELSE IF s = t \/ o[s].id # o[t].id THEN s = t
  ELSE CASE o[s].id = "int"   -> int_equals(o[s], o[t])
         [] o[s].id = "float" -> float_equals(o[s], o[t])
         [] o[s].id = "array" -> same[o[s].base][o[t].base]
         [] OTHER             -> function_equals(same, o[s], o[t])
fully_equals(o) ==
  LET same[s \in DOMAIN o] == [t \in DOMAIN o |-> type_equals(o, same, s, t)] IN same

-----------------------------------------------------------------------------
(* The context.  Its operations take the context and the objects and       *)
(* return them, with the answer.                                           *)

Context == [obj |-> obj, set |-> type_set, ret |-> last.ret]

New(c, type) == [c EXCEPT !.obj = Append(@, type), !.ret = Len(c.obj) + 1]

Twins(c, t) ==
  LET h == hash(c.obj)
      k == h[t]
      same == fully_equals(c.obj)[t]
  IN {s \in c.set : h[s] = k /\ same[s]}

hasType(c, t) == Twins(c, t) # {}

getOrRegisterType(c, t) ==
  LET twins == Twins(c, t) IN
  IF twins # {}
  THEN [c EXCEPT !.ret = CHOOSE s \in twins : TRUE]
  ELSE [c EXCEPT !.set = @ \cup {t}, !.obj[t].context = TRUE, !.ret = t]

(* A type made for the occasion is freed again if there was one already.   *)
makeType(c, type) ==
  LET made == getOrRegisterType(New(c, type), Len(c.obj) + 1)
  IN IF made.ret > Len(c.obj) THEN made ELSE [made EXCEPT !.obj = c.obj]

FunctionIn(c, r, params) ==
  LET known == getOrRegisterType(c, r) IN makeType(known, FunctionType(known.ret, params))

(* The pointer type returned is the one made, whether or not it is the one *)
(* registered: pointer types are equal to themselves only.                 *)
PointerIn(c, t, const) ==
  LET known == getOrRegisterType(c, t) IN makeType(known, PointerType(known.ret, const))

ArrayIn(c, t, length) ==
  LET known == getOrRegisterType(c, t) IN makeType(known, ArrayType(known.ret, length))

(* A second map, so that asking for an integer need not search the set: a  *)
(* type not found in the map is inserted in the set, which refuses it if   *)
(* it has an equal one, and in the map.  It gets no context.               *)
IntIn(c, binary_bits, is_unsigned) ==
  IF binary_bits \in DOMAIN ity_map THEN [c EXCEPT !.ret = ity_map[binary_bits]]
  ELSE LET c1 == New(c, IntType(binary_bits, is_unsigned, FALSE))
       IN IF hasType(c1, c1.ret) THEN c1 ELSE [c1 EXCEPT !.set = @ \cup {c1.ret}]
-----------------------------------------------------------------------------
(* What a type is, told apart from the code's hashes and equalities: its   *)
(* structure, in which a pointer type stands for itself.  What is not seen *)
(* of it, of the lengths of arrays and the signs of integers, is left out. *)
Details == {"length", "sign"}
ShapeOf(o, seen, shape, t) ==
  CASE o[t].id = "pointer"  -> <<"pointer", t, o[t].base, o[t].const>>
    [] o[t].id = "array"    ->
         <<"array", shape[o[t].base], IF "length" \in seen THEN o[t].len ELSE -1>>
    [] o[t].id = "function" ->
         <<"function", shape[o[t].base], [i \in DOMAIN o[t].params |-> shape[o[t].params[i]]]>>
    [] OTHER -> <<o[t].id, o[t].bits, "sign" \in seen /\ o[t].signed, o[t].const>>
Shape(o, seen) == LET shape[t \in DOMAIN o] == ShapeOf(o, seen, shape, t) IN shape

(* The hash of a nested array tells the sum of its lengths only: an array  *)
(* of 2 arrays of 3 and one of 3 arrays of 2 are one type to the code,     *)
(* whichever was asked for first.  Lengths are told apart in an array of   *)
(* elements that have none, except behind a pointer.                       *)
Rigid(o, t) == Shape(o, Details)[t] = Shape(o, Details \ {"length"})[t]
Told(types) == IF \A t \in types : Rigid(obj, t) THEN Details ELSE Details \ {"length"}

(* Types not made from void, nor from a pointer to it. *)
SolidOf(o, solid, t) ==
  /\ o[t].id # "void"
  /\ o[t].id \in {"pointer", "array", "function"} => solid[o[t].base]
  /\ \A i \in DOMAIN o[t].params : solid[o[t].params[i]]
Solid(o) == LET solid[t \in DOMAIN o] == SolidOf(o, solid, t) IN solid

ContextInit ==
  /\ obj = [i \in DOMAIN Predefined |-> [Predefined[i] EXCEPT !.context = TRUE]]
  /\ type_set = DOMAIN Predefined
  /\ ity_map = [bits \in {0, 1, 8, 32, 64} |-> CHOOSE t \in 2..6 : Predefined[t].bits = bits]
  /\ last = [seen |-> Details, want |-> <<"void", 0, FALSE, FALSE>>, ret |-> Void]

Held   == type_set \cup Range(ity_map)
Known  == Basic \cup (Held \ DOMAIN Predefined)      \* what clients pass on
Params == UNION {[1..n -> Known] : n \in 0..MaxParams}

Answer(c, seen, want) ==
  /\ Len(c.obj) <= MaxObjects
  /\ obj' = c.obj /\ type_set' = c.set
  /\ last' = [seen |-> seen, want |-> want, ret |-> c.ret]

(* The sign is that of the first request for the width.                    *)
getIntType(binary_bits, is_unsigned) ==
  LET c == IntIn(Context, binary_bits, is_unsigned)
  IN /\ Answer(c, Details \ {"sign"}, <<"int", binary_bits, FALSE, FALSE>>)
     /\ ity_map' = [bits \in DOMAIN ity_map \cup {binary_bits} |->
                      IF bits = binary_bits THEN c.ret ELSE ity_map[bits]]

(* makeType<IntType>: of a width the map has, since it would not enter it. *)
makeIntType(binary_bits, is_unsigned, is_constant) ==
  /\ binary_bits \in DOMAIN ity_map
  /\ Answer(makeType(Context, IntType(binary_bits, is_unsigned, is_constant)),
            Details, <<"int", binary_bits, ~is_unsigned, is_constant>>)
  /\ UNCHANGED ity_map

ArrayShape(seen, elem, length) == <<"array", elem, IF "length" \in seen THEN length ELSE -1>>

getArrayType(element_type, length) ==
  LET seen == Told({element_type})
  IN /\ Answer(ArrayIn(Context, element_type, length), seen,
               ArrayShape(seen, Shape(obj, seen)[element_type], length))
     /\ UNCHANGED ity_map

(* The variadic getMultiDimensionArray, the last length innermost. *)
getMultiDimensionArray(element_type, length0, length1) ==
  LET inner == ArrayIn(Context, element_type, length1)
      seen  == Details \ {"length"}
  IN /\ Answer(ArrayIn(inner, inner.ret, length0), seen,
               ArrayShape(seen, ArrayShape(seen, Shape(obj, seen)[element_type], length1), length0))
     /\ UNCHANGED ity_map

FunctionShape(seen, return_type, params) ==
  <<"function", Shape(obj, seen)[return_type],
    [i \in DOMAIN params |-> Shape(obj, seen)[params[i]]]>>

getFunctionType(return_type, params) ==
  LET seen == Told({return_type} \cup Range(params))
  IN /\ Answer(FunctionIn(Context, return_type, params), seen,
               FunctionShape(seen, return_type, params))
     /\ UNCHANGED ity_map

getPointerType(target, is_const) ==
  LET c == PointerIn(Context, target, is_const)
  IN Answer(c, Details, <<"pointer", c.ret, target, is_const>>) /\ UNCHANGED ity_map

getFunctionPointer(return_type, params) ==
  LET fty == FunctionIn(Context, return_type, params)
      c   == PointerIn(fty, fty.ret, FALSE)
  IN Answer(c, Details, <<"pointer", c.ret, fty.ret, FALSE>>) /\ UNCHANGED ity_map

ContextNext ==
  \/ \E w \in Widths, u \in BOOLEAN : getIntType(w, u)
  \/ \E w \in Widths, u, k \in BOOLEAN : makeIntType(w, u, k)
  \/ \E t \in Known, n \in Lengths : getArrayType(t, n)
  \/ \E t \in Known, m, n \in Lengths : getMultiDimensionArray(t, m, n)
  \/ \E r \in Known \cup {Void}, ps \in Params : getFunctionType(r, ps) \/ getFunctionPointer(r, ps)
  \/ \E t \in Known, k \in BOOLEAN : getPointerType(t, k)

ContextSpec == ContextInit /\ [][ContextNext]_contextVars

-----------------------------------------------------------------------------
(* The layout of values. *)

bit_to_byte(bits) == (bits + 7) \div 8

fill_to(size, align) ==
  IF align \in {0, 1} THEN size ELSE ((size + align - 1) \div align) * align

(* The bits below the highest are set one after the other, and 1 is added. *)
(* Sizes are taken to fit size_t.                                          *)
NextPower[x \in Nat] == IF x = 0 THEN 1 ELSE 2 * NextPower[x \div 2]
get_next_power_of_two(x) == NextPower[x]

fill_to_power_of_two(x) ==
  LET ret == get_next_power_of_two(x) IN IF ret = 2 * x THEN x ELSE ret

(* The words of machines are powers of two, and fit the uint8_t a type     *)
(* narrows them to (the alignment of a number takes the context's own).    *)
ASSUME WordsAssumption ==
  Word \in 0 .. 255 /\ fill_to_power_of_two(Word) = Word /\ GlobalWord \in Nat

machine_word_size(t) == (IF obj[t].context THEN Word ELSE GlobalWord) % 256

AlignedUnfilled(t, size) == size
Aligned(t, size) == Min({fill_to_power_of_two(size), fill_to(size, machine_word_size(t))})

get_instance_size(size, t) ==
  CASE obj[t].id \in {"int", "float"} -> bit_to_byte(obj[t].bits)
    [] obj[t].id = "pointer" -> machine_word_size(t)
    [] obj[t].id = "array"   -> Aligned(obj[t].base, size[obj[t].base]) * obj[t].len
    [] OTHER -> 0
instance_size == LET size[t \in DOMAIN obj] == get_instance_size(size, t) IN size

getAlignedSize(t) == Aligned(t, instance_size[t])

instance_align(t) ==
  CASE obj[t].id = "pointer" -> machine_word_size(t)
    [] obj[t].id \in {"int", "float", "array"} ->
         Min({fill_to_power_of_two(instance_size[t]), machine_word_size(t)})
    [] OTHER -> 0

indexGetStartOffset(t, index) == getAlignedSize(obj[t].base) * index
indexGetEndOffset(t, index) == indexGetStartOffset(t, index) + instance_size[obj[t].base]

-----------------------------------------------------------------------------
(* Properties. *)

(* A request is answered with a type the context holds and that is what    *)
(* was asked for, as far as getIntType (which leaves the sign open) and    *)
(* the hashes of nested arrays tell types apart; and the context holds no  *)
(* second one of a type: whoever compares types by pointer compares what   *)
(* they are.  Types made from void are excepted, since void is not equal   *)
(* to itself.                                                              *)
Interned ==
  LET shape == Shape(obj, Details)
      solid == Solid(obj)
  IN /\ last.ret \in Held /\ Shape(obj, last.seen)[last.ret] = last.want
     /\ \A s, t \in Held : shape[s] = shape[t] /\ solid[t] => s = t

(* In an array of any nesting every element starts where its type may be,  *)
(* no element reaches into the next, and the last one ends inside.  (The   *)
(* alignment of an integer without a context cannot be asked for.)         *)
ElementsApart ==
  \A t \in Held : obj[t].id = "array" =>
    LET elem == obj[t].base IN
    /\ obj[t].len > 0 => indexGetEndOffset(t, obj[t].len - 1) <= instance_size[t]
    /\ \A i \in 0..(obj[t].len - 1) :
         /\ indexGetEndOffset(t, i) <= indexGetStartOffset(t, i + 1)
         /\ obj[elem].context /\ instance_align(elem) > 0
              => indexGetStartOffset(t, i) % instance_align(elem) = 0
=============================================================================
