--------------------------- MODULE CapsuleDecoder ---------------------------
(***************************************************************************)
(* decoder.h, decoder.cc, view_mapper.h/.cc and the generated Decode.      *)
(* Every Find takes what the member and its has_ bit hold, and returns the *)
(* Code with what they hold afterwards.                                    *)
(***************************************************************************)
EXTENDS CapsuleWire

\* A 32-bit number as the decoder uses it for a pointer or a length: one with
\* literal bits above it is beyond any capsule.
Beyond == 2^20

Number(w) == IF w[1] = "" THEN w[2] ELSE Beyond

WordAt(m, p) == m[(p \div 4) + 1]

-----------------------------------------------------------------------------
\* ViewMapper::Build: the offset table as a map; a hash may appear once.
ViewMapper(m, base, otes) ==
    LET hash(i) == WordAt(m, base + HeaderBytes + OteBytes * i)[2]
        value(i) == WordAt(m, base + HeaderBytes + OteBytes * i + 4)
        is == 0..(otes - 1)
    IN  [ok  |-> \A i, j \in is : hash(i) = hash(j) => i = j,
         map |-> [h \in {hash(i) : i \in is} |-> value(CHOOSE i \in is : hash(i) = h)]]

Decoder(m, base, length, vm) ==
    [ok |-> vm.ok, mem |-> m, base |-> base, length |-> length, map |-> vm.map]

\* Decoder::Build, over memory_length bytes of m at base.
Build(m, base, memory_length) ==
    LET otes   == Number(WordAt(m, base))
        length == Number(WordAt(m, base + 4))
    IN  IF \/ memory_length < HeaderBytes \/ length > memory_length
           \/ otes * OteBytes + HeaderBytes > length
        THEN [ok |-> FALSE]
        ELSE Decoder(m, base, length, ViewMapper(m, base, otes))

Has(d, h) == h \in DOMAIN d.map

\* has_[<name>_Index].  has_ is sized for the fields that are not retired and the
\* index counts them all, so the last fields of a capsule with retired ones are
\* past the end of has_.  operator[] does not check, and they get the bits of
\* the vector's last word that are not in use: bits like the others, as long as
\* the word has them and has_ is not copied.
HasBit(cs, n, o, fn) == Index(CapsuleNamed(cs, n), fn) \in o.has

Held(cs, n, o, fn) ==
    [code |-> "kOk", val |-> o.val[fn], present |-> HasBit(cs, n, o, fn)]

Absent(def) == [code |-> "kOk", val |-> def, present |-> FALSE]

Present(v) == [code |-> "kOk", val |-> v, present |-> TRUE]

\* An error leaves the member and its has_ bit as they were.
Fatal(old) == [old EXCEPT !.code = "kCapsuleFatal"]

\* FindBoolean, Find8bPrimitive, Find16bPrimitive, Find32bPrimitive: there are
\* no bits above a 32-bit literal to compare.
FindLiteral(d, t, h, def, old) ==
    IF ~Has(d, h) THEN Absent(def)
    ELSE IF t \in Literal32 THEN Present(Number(d.map[h]))
    ELSE IF d.map[h][1] # Literal(t, 0)[1] THEN Fatal(old)
    ELSE Present(d.map[h][2])

Find64bPrimitive(d, h, def, old) ==
    LET p == Number(d.map[h]) IN
    IF ~Has(d, h) THEN Absent(def)
    ELSE IF p > d.length - 8 \/ p % 8 # 0 THEN Fatal(old)
    ELSE Present(<<Number(WordAt(d.mem, d.base + p)), Number(WordAt(d.mem, d.base + p + 4))>>)

\* The string of n bytes whose bytes start at offset p.
StringAt(d, p, n) ==
    [len |-> n, data |-> SubSeq(d.mem, ((d.base + p) \div 4) + 1,
                                ((d.base + p) \div 4) + ((n + 3) \div 4))]

FindString(d, h, def, old) ==
    LET p == Number(d.map[h])
        n == Number(WordAt(d.mem, d.base + p))
    IN  IF ~Has(d, h) THEN Absent(def)
        ELSE IF p > d.length - 4 THEN Fatal(old)
        ELSE IF n > d.length \/ p + 4 + n > d.length THEN Fatal(old)
        ELSE Present(StringAt(d, p + 4, n))

EmptyString == [len |-> 0, data |-> <<>>]

\* What resize(n) makes of the vector v.
Resized(v, n, blank) ==
    IF n < Len(v) THEN SubSeq(v, 1, n) ELSE v \o [i \in 1..(n - Len(v)) |-> blank]

\* The first elements of v are new; an error leaves the others.
Partly(new, v) == [code |-> "kCapsuleFatal", present |-> TRUE,
                   val |-> new \o SubSeq(v, Len(new) + 1, Len(v))]

\* The end of the loop over the elements of a vector that was resized to v.
Filled(end, v) == IF end.ok THEN Present(end.v) ELSE Partly(end.v, v)

\* Is there a vector header at the offset stored under h?
VectorHeaderAt(d, p) ==
    p <= d.length - VectorHeaderBytes /\ p % 8 = 0 /\ WordAt(d.mem, d.base + p + 4) = VectorPadding

\* The loop over the elements: each one starts where the one before ended.
FindStringVector(d, h, old) ==
    LET p == Number(d.map[h])
        count == Number(WordAt(d.mem, d.base + p))
        Next1(a, i) ==
            LET n == Number(WordAt(d.mem, d.base + a.p)) IN
            IF ~a.ok THEN a
            ELSE IF n > d.length \/ a.p + 4 > d.length - n THEN [a EXCEPT !.ok = FALSE]
            ELSE [a EXCEPT !.p = @ + RoundUp8(n + 4), !.v = Append(@, StringAt(d, a.p + 4, n))]
    IN  IF ~Has(d, h) THEN Absent(<<>>)
        ELSE IF ~VectorHeaderAt(d, p) THEN Fatal(old)
        ELSE Filled(FoldLeft(Next1, [ok |-> TRUE, p |-> p + VectorHeaderBytes, v |-> <<>>],
                             [i \in 1..count |-> i]),
                    Resized(old.val, count, EmptyString))

-----------------------------------------------------------------------------
RECURSIVE DefaultObject(_, _)
RECURSIVE Decode(_, _, _, _)

\* What uninitialized memory may hold where a primitive member has no value.
Uninitialized(t) == IF t \in Wide64 THEN <<8, 8>> ELSE 8

\* CppDefaultValue: the @default attribute, or the zero of the type.
CppDefaultValue(f) ==
    LET d == AttributeValues(f, <<"default">>)
    IN  IF d # <<>> THEN Head(d[1])
        ELSE IF f.type = <<"string">> THEN EmptyString
        ELSE IF f.type \in Wide64 THEN <<0, 0>> ELSE 0

FieldNames(cs, n) == {f.name : f \in ToSet(NonRetired(CapsuleNamed(cs, n)))}

FieldNamed(cs, n, fn) == CHOOSE f \in FieldsOf(CapsuleNamed(cs, n)) : f.name = fn

\* A default-constructed struct: its primitive members have no initializer.
DefaultObject(cs, n) ==
    [val |-> [fn \in FieldNames(cs, n) |->
                LET t == FieldNamed(cs, n, fn).type IN
                IF IsVectorType(t) THEN <<>>
                ELSE IF t = <<"string">> THEN EmptyString
                ELSE IF IsPrimitiveType(t) THEN Uninitialized(t)
                ELSE DefaultObject(cs, t)],
     has |-> {}, sized |-> FALSE]

\* What decoding a nested capsule into a member gives.
InMember(in) == [code |-> in.code, val |-> in.out, present |-> TRUE]

DecodeNested(cs, mb, n, old) ==
    IF ~mb.ok THEN Fatal(old) ELSE InMember(Decode(cs, mb, n, old.val))

\* An absent capsule clears its has_ bit and leaves the member as it was.
FindCapsule(cs, d, h, n, old) ==
    LET p == Number(d.map[h])
        len == Number(WordAt(d.mem, d.base + p + 4))
    IN  IF ~Has(d, h) THEN Absent(old.val)
        ELSE IF p > d.length - HeaderBytes \/ p % 8 # 0 THEN Fatal(old)
        ELSE IF len > d.length - p THEN Fatal(old)
        ELSE DecodeNested(cs, Build(d.mem, d.base + p, len), n, old)

\* One element of the vector, of len bytes at a.p: decoded over old.
Decoded(a, len, in) == [ok |-> in.code = "kOk", p |-> a.p + len, v |-> Append(a.v, in.out)]

DecodeElement(cs, a, len, mb, n, old) ==
    IF ~mb.ok THEN [a EXCEPT !.ok = FALSE] ELSE Decoded(a, len, Decode(cs, mb, n, old))

\* resize keeps the elements *out already had: element i is decoded over the
\* i-th of them, or over a new one.
DecodeElements(cs, d, p, n, was) ==
    LET Next1(a, i) ==
            LET len == Number(WordAt(d.mem, d.base + a.p + 4)) IN
            IF ~a.ok THEN a
            ELSE IF len > d.length \/ a.p > d.length - len THEN [a EXCEPT !.ok = FALSE]
            ELSE DecodeElement(cs, a, len, Build(d.mem, d.base + a.p, len), n, was[i])
    IN  FoldLeft(Next1, [ok |-> TRUE, p |-> p + VectorHeaderBytes, v |-> <<>>],
                 [i \in DOMAIN was |-> i])

FillCapsules(cs, d, p, n, was) == Filled(DecodeElements(cs, d, p, n, was), was)

FindCapsuleVector(cs, d, h, n, old) ==
    LET p == Number(d.map[h]) IN
    IF ~Has(d, h) THEN Absent(<<>>)
    ELSE IF ~VectorHeaderAt(d, p) THEN Fatal(old)
    ELSE FillCapsules(cs, d, p, n,
                      Resized(old.val, Number(WordAt(d.mem, d.base + p)), DefaultObject(cs, n)))

Find(cs, d, f, h, old) ==
    CASE IsCapsuleVector(f.type) -> FindCapsuleVector(cs, d, h, VectorToInner(f.type), old)
      [] IsStringVector(f.type)  -> FindStringVector(d, h, old)
      [] IsCapsuleType(f.type)   -> FindCapsule(cs, d, h, f.type, old)
      [] f.type \in Wide64       -> Find64bPrimitive(d, h, CppDefaultValue(f), old)
      [] f.type = <<"string">>   -> FindString(d, h, CppDefaultValue(f), old)
      [] OTHER                   -> FindLiteral(d, f.type, h, CppDefaultValue(f), old)

\* The first error is the one reported.
FirstCode(r1, r2) == [r2 EXCEPT !.code = IF r1.code = "kOk" THEN r2.code ELSE r1.code]

\* A former name is looked up whether or not the field has been found.
FindFormerlySlip(cs, d, f, r, h) == Find(cs, d, f, h, r)

\* A former name, only while the field has not been found.
FindFormerly(cs, d, f, r, h) ==
    IF r.present THEN r ELSE FirstCode(r, Find(cs, d, f, h, r))

\* The code EmitDecodeImpl writes for one field: the current name, then each
\* former one.
DecodeField(cs, d, f, old) ==
    LET hs == ComputeHashes(f)
    IN  FoldLeft(LAMBDA r, h : FindFormerly(cs, d, f, r, h),
                 Find(cs, d, f, Head(hs), old), Tail(hs))

\* What a Find returned, in the member fn and in the bit at index i of has_.
Store(a, fn, i, r) ==
    [code |-> IF a.code = "kOk" THEN r.code ELSE a.code,
     out  |-> [a.out EXCEPT !.val[fn] = r.val,
                            !.has = IF r.present THEN @ \cup {i} ELSE @ \ {i}]]

\* Every field is decoded, whatever the ones before returned; the first error
\* is the one reported.
Decode(cs, d, n, o) ==
    FoldLeft(LAMBDA a, f : Store(a, f.name, Index(CapsuleNamed(cs, n), f.name),
                                 DecodeField(cs, d, f, Held(cs, n, a.out, f.name))),
             [code |-> "kOk", out |-> [o EXCEPT !.sized = TRUE]],
             NonRetired(CapsuleNamed(cs, n)))
=============================================================================
