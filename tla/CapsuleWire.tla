----------------------------- MODULE CapsuleWire -----------------------------
(***************************************************************************)
(* The capsule wire format: size_builder.h, encoder.h/.cc, view_mapper.h,  *)
(* decoder.h/.cc and the ComputeStorageSize, Encode and Decode members     *)
(* that generator.cc writes for a capsule of a verified file.  Memory is a *)
(* sequence of 32-bit words addressed by byte offsets; a word is <<bits,   *)
(* value>>, where `bits' stands for the upper bits a narrow literal is     *)
(* stored under and is "" for a whole 32-bit number.                       *)
(*   An object is what a generated struct holds: a value for every field   *)
(* that is not retired, the set `has' of the bits of has_ that are set,    *)
(* and whether it was ever sized.  A 64-bit value is the pair of its       *)
(* halves, a string its length and its bytes in groups of four.            *)
(***************************************************************************)
EXTENDS CapsuleCompiler, SequencesExt

Word(v) == <<"", v>>

HashWord(h) == <<"crc32c", h>>

\* capsule/abi.h: sizeof Header, OffsetTableEntry and VectorHeader.
HeaderBytes       == 8
OteBytes          == 8
VectorHeaderBytes == 8

\* VectorHeader::padding, 0xda4eda4e, and the byte that fills up a string.
VectorPadding == <<"0xda4eda4e", 0>>
Filler        == <<"0xdadadada", 0>>

RoundUp8(n) == ((n + 7) \div 8) * 8

CapsuleNamed(cs, n) == cs[CHOOSE i \in DOMAIN cs : cs[i].name = n]

IsStringVector(t) == t = <<"vector", "string">>

IsPrimitiveVector(t) == IsVectorType(t) /\ ~IsStringVector(t) /\ IsPrimitiveType(VectorToInner(t))

IsCapsuleVector(t) == IsVectorType(t) /\ ~IsPrimitiveType(VectorToInner(t))

SumOf(s) == FoldLeft(LAMBDA a, b : a + b, 0, s)

-----------------------------------------------------------------------------
\* size_builder.h and the generated ComputeStorageSize.

RECURSIVE ComputeStorageSize(_, _, _)

\* The payload bytes of one field, beside its offset table entry.
PayloadBytes(cs, t, v) ==
    CASE t \in Wide64         -> 8
      [] t = <<"string">>     -> RoundUp8(v.len + 4)
      [] IsStringVector(t)    -> RoundUp8(VectorHeaderBytes
                                     + SumOf([i \in DOMAIN v |-> RoundUp8(4 + v[i].len)]))
      [] IsPrimitiveVector(t) -> RoundUp8(4 + 4 * Len(v))
      [] IsCapsuleVector(t)   -> VectorHeaderBytes
                                     + SumOf([i \in DOMAIN v |->
                                                ComputeStorageSize(cs, VectorToInner(t), v[i])])
      [] IsCapsuleType(t)     -> ComputeStorageSize(cs, t, v)
      [] OTHER                -> 0

ComputeStorageSize(cs, n, o) ==
    LET fs == NonRetired(CapsuleNamed(cs, n))
    IN  SumOf([i \in DOMAIN fs |-> PayloadBytes(cs, fs[i].type, o.val[fs[i].name])])
            + Len(fs) * OteBytes + HeaderBytes

-----------------------------------------------------------------------------
\* encoder.h, encoder.cc.  An encoder writes below `base'; `ok' is
\* encoding_result_, which an error also sets in every enclosing encoder.

\* The words ds over the memory m, from byte offset p on.
Put(m, p, ds) ==
    SubSeq(m, 1, p \div 4) \o ds \o SubSeq(m, (p \div 4) + Len(ds) + 1, Len(m))

Encoder(m, base, length, field_count) ==
    [mem |-> Put(m, base, <<Word(field_count), Word(length)>>), base |-> base,
     cursor |-> HeaderBytes + OteBytes * field_count,
     remain |-> length - HeaderBytes - OteBytes * field_count,
     slot |-> 0, count |-> field_count, ok |-> TRUE]

SetIfOk(e) == [e EXCEPT !.ok = FALSE]

Seal(e) == [e EXCEPT !.mem = Put(@, e.base, <<Word(e.count), Word(e.cursor)>>)]

\* AddU32: the next offset table entry.
AddEntry(e, h, w) ==
    IF e.slot >= e.count THEN SetIfOk(e)
    ELSE [e EXCEPT !.mem = Put(@, e.base + HeaderBytes + OteBytes * e.slot, <<HashWord(h), w>>),
                   !.slot = @ + 1]

\* AddU16, AddU8, AddBoolean: the upper bits say how wide the literal is.
Literal(t, v) ==
    <<CASE t \in Literal16 -> "0x1616" [] t \in Literal8 -> "0x888888"
        [] t = <<"bool">> -> "0xBBBBBBB" [] OTHER -> "", v>>

\* An entry that points at the cursor, and the words written there.
AddPayload(e, h, ds) ==
    IF 4 * Len(ds) > e.remain THEN SetIfOk(e)
    ELSE LET p == AddEntry(e, h, Word(e.cursor)) IN
         [p EXCEPT !.mem = Put(@, e.base + e.cursor, ds),
                   !.cursor = @ + 4 * Len(ds), !.remain = @ - 4 * Len(ds)]

\* The padding is forgotten.
StringWordsSlip(s) == <<Word(s.len)>> \o s.data

\* AddString: length, bytes, and 0xda up to a multiple of eight.
StringWords(s) ==
    LET used == 1 + Len(s.data)
    IN  <<Word(s.len)>> \o s.data \o (IF used % 2 = 0 THEN <<>> ELSE <<Filler>>)

\* The elements are packed as 4-byte values; the padding follows the last.
AddPrimitiveVector(e, h, v) ==
    LET ds == <<Word(Len(v))>> \o [i \in DOMAIN v |-> Word(v[i])]
    IN  AddPayload(e, h, ds \o (IF Len(ds) % 2 = 0 THEN <<>> ELSE <<Filler>>))

AddStringVector(e, h, v) ==
    AddPayload(e, h, <<Word(Len(v)), VectorPadding>>
                         \o FlattenSeq([i \in DOMAIN v |-> StringWords(v[i])]))

RECURSIVE Encode(_, _, _, _)

\* A subcapsule whose encoding is not as long as it promised is an error.
Promised(parent, sub, length) ==
    [parent EXCEPT !.mem = Seal(sub).mem, !.ok = @ /\ sub.ok /\ sub.cursor = length]

Advance(e, len) == [e EXCEPT !.cursor = @ + len, !.remain = @ - len]

\* The encoder of a subcapsule of len bytes at offset `at' of e's memory, run.
EncodeSub(cs, e, at, len, n, o) ==
    Promised(e, Encode(cs, Encoder(e.mem, at, len, CountNonRetiredFields(CapsuleNamed(cs, n))),
                       n, o), len)

\* Without room the error is set, and the subcapsule encodes over its parent.
AddSub(cs, e, h, len, n, o) ==
    IF len > e.remain THEN EncodeSub(cs, SetIfOk(e), e.base, len, n, o)
    ELSE Advance(EncodeSub(cs, AddEntry(e, h, Word(e.cursor)), e.base + e.cursor, len, n, o),
                 len)

AddCapsule(cs, e, h, n, o) == AddSub(cs, e, h, ComputeStorageSize(cs, n, o), n, o)

\* One element of AddCapsuleVector; after an element that lied there are none.
AddSubElement(cs, e, len, n, o) ==
    IF ~e.ok THEN e
    ELSE Advance(EncodeSub(cs, e, e.base + e.cursor, len, n, o), len)

AddElement(cs, e, n, o) == AddSubElement(cs, e, ComputeStorageSize(cs, n, o), n, o)

AddCapsuleVector(cs, e, h, n, v) ==
    IF e.remain < VectorHeaderBytes
                    + SumOf([i \in DOMAIN v |-> ComputeStorageSize(cs, n, v[i])])
    THEN SetIfOk(e)
    ELSE FoldLeft(LAMBDA a, o : AddElement(cs, a, n, o),
                  AddPayload(e, h, <<Word(Len(v)), VectorPadding>>), v)

\* The overload of Add a field's type selects.
AddField(cs, e, h, t, v) ==
    CASE t \in Wide64         -> AddPayload(e, h, <<Word(v[1]), Word(v[2])>>)
      [] t = <<"string">>     -> AddPayload(e, h, StringWords(v))
      [] IsStringVector(t)    -> AddStringVector(e, h, v)
      [] IsPrimitiveVector(t) -> AddPrimitiveVector(e, h, v)
      [] IsCapsuleVector(t)   -> AddCapsuleVector(cs, e, h, VectorToInner(t), v)
      [] IsCapsuleType(t)     -> AddCapsule(cs, e, h, t, v)
      [] OTHER                -> AddEntry(e, h, Literal(t, v))

Encode(cs, e, n, o) ==
    FoldLeft(LAMBDA a, f : AddField(cs, a, ComputeHashes(f)[1], f.type, o.val[f.name]),
             e, NonRetired(CapsuleNamed(cs, n)))
=============================================================================
