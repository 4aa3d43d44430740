------------------------------- MODULE Capsule -------------------------------
(***************************************************************************)
(* The capsule API (capsule.h, capsule.cc) over framing.cc and storage.cc: *)
(* a writer built from one version of a capsule file serializes and frames *)
(* an object, a medium delivers the frame or something else, and a reader  *)
(* built from another version unframes it, decodes it into an object it    *)
(* may have used before, or into a view, and prints and parses it.         *)
(***************************************************************************)
EXTENDS CapsuleText

CONSTANTS
    Versions,   \* sequence of [namespace, capsules, root], each a verified file
    Samples,    \* for each version, the objects its writers send
    Readers,    \* the versions that have a generated Decode
    LenBits,    \* width of FrameHeader::frame_length, 29 in the code
    MaxMessages \* bound: messages per behaviour

ASSUME CapsuleAssumption ==
    \A v \in DOMAIN Versions : Accepts(Versions[v].namespace, Versions[v].capsules)

VARIABLES
    writer, reader, \* the versions the two sides were built from
    stage,          \* where the message is
    sent,           \* the object being sent
    serialized,     \* Code of Serialize
    frame,          \* the frame as the writer produced it
    arrived, addr,  \* the words the reader's storage holds, and its address % 8
    carved,         \* the capsule's storage, after Unframe
    got, code,      \* the reader's object, and the Code of decoding into it
    view, owners,   \* a view of the storage; who keeps the storage alive
    text, parsed,   \* the printed object, and what parsing it returned
    messages

capsuleVars ==
    <<writer, reader, stage, sent, serialized, frame, arrived, addr, carved, got,
      code, view, owners, text, parsed, messages>>

FileOf(v) == Versions[v].capsules

RootOf(v) == Versions[v].root

TypeHash(v) == ComputeCRC32C(RootOf(v))

NoView == [val |-> <<>>, has |-> {}, sized |-> FALSE]

NotParsed == [ok |-> TRUE, rest |-> <<>>, out |-> NoView]

-----------------------------------------------------------------------------
\* framing.cc.  The bit field of a frame word is <<frame_type, frame_length>>.

FrameHeaderBytes == 8
FrameFooterBytes == 8

MinLength == FrameHeaderBytes + HeaderBytes + OteBytes + FrameFooterBytes

LengthWord(n) == <<"kChecksummed", n % 2^LenBits>>

\* The checksum leaves out the frame header.
ComputeCrcSlip(ds) == <<"frame crc", SubSeq(ds, 3, Len(ds))>>

\* The checksum, as a word that tells any two contents apart.
ComputeCrc(ds) == <<"frame crc", ds>>

\* AllocFrame, Serialize into the carved storage, CompleteFraming and Sign.
FrameOf(v, ds) ==
    LET n == 4 * Len(ds) + FrameHeaderBytes + FrameFooterBytes
        w == <<HashWord(TypeHash(v)), LengthWord(n)>> \o ds \o <<LengthWord(n)>>
    IN  Append(w, ComputeCrc(w))

ValidateFraming(ds) ==
    LET fh == ds[2]
        ih == <<Number(ds[3]), Number(ds[4])>>
        ff == ds[Len(ds) - 1]
    IN  /\ fh[1] = "kChecksummed"
        /\ fh[2] = 4 * Len(ds)
        /\ ff[1] = fh[1] /\ ff[2] = fh[2]
        /\ fh[2] = ih[2] + FrameHeaderBytes + FrameFooterBytes
        /\ ih[1] <= ih[2] \div 8
        /\ ih[1] # 0

ValidateCrc(ds) == Last(ds) = ComputeCrc(Front(ds))

Validate(ds, a) ==
    /\ a % 8 = 0
    /\ 4 * Len(ds) >= MinLength
    /\ (4 * Len(ds)) % 8 = 0
    /\ ValidateFraming(ds)
    /\ ValidateCrc(ds)

\* Storage::Carve of the frame's header and footer.
Carve(ds) == SubSeq(ds, 1 + FrameHeaderBytes \div 4, Len(ds) - FrameFooterBytes \div 4)

-----------------------------------------------------------------------------
\* capsule.h

kMinimumCapsuleSizeBytes == 16

\* Serialize: the encoder over storage of the promised size.
Sealed(e, size) ==
    [code |-> IF ~e.ok THEN "kExhausted" ELSE IF e.cursor # size THEN "kCapsuleFatal" ELSE "kOk",
     mem  |-> Seal(e).mem]

Serialize(v, size, o) ==
    LET n     == RootOf(v)
        blank == [i \in 1..(size \div 4) |-> Filler]
    IN  Sealed(Encode(FileOf(v),
                      Encoder(SubSeq(blank, 1, Len(blank)), 0, size,
                              CountNonRetiredFields(CapsuleNamed(FileOf(v), n))), n, o), size)

Framed(s) ==
    /\ serialized' = s.code
    /\ frame' = IF s.code = "kOk" THEN FrameOf(writer, s.mem) ELSE <<>>
    /\ stage' = IF s.code = "kOk" THEN "framed" ELSE "idle"

\* AllocFrame refuses a capsule of such a size.
Unframeable(size) == size % 8 # 0 \/ size + FrameHeaderBytes + FrameFooterBytes < MinLength

SerializeAndFrame(o) ==
    /\ stage = "idle" /\ messages < MaxMessages
    /\ \E size \in {ComputeStorageSize(FileOf(writer), RootOf(writer), o)} :
          IF Unframeable(size) THEN Framed([code |-> "kInvalidArgument"])
          ELSE Framed(Serialize(writer, size, o))
    /\ sent' = o
    /\ messages' = messages + 1
    /\ UNCHANGED <<writer, reader, arrived, addr, carved, got, code, view, owners,
                   text, parsed>>

\* The medium: the frame intact, one word of it changed, or cut short or
\* extended; in memory that may not be aligned.
Noise(w) ==
    {<<"noise", 0>>}
        \cup (IF w[1] \in {"", "kChecksummed"} THEN {<<w[1], w[2] + 8>>} ELSE {})

Damaged(ds) ==
    UNION {{[ds EXCEPT ![i] = w] : w \in Noise(ds[i])} : i \in DOMAIN ds}
        \cup {Front(ds), Tail(ds), Tail(Tail(ds)), SubSeq(ds, 1, Len(ds) - 2), <<>>,
              ds \o <<Filler>>, ds \o <<Filler, Filler>>}

Deliver ==
    /\ stage = "framed"
    /\ \/ \E a \in {0, 4} : arrived' = frame /\ addr' = a
       \/ \E ds \in Damaged(frame) : arrived' = ds /\ addr' = 0
    /\ stage' = "arrived"
    /\ owners' = {"frame"}
    /\ UNCHANGED <<writer, reader, sent, serialized, frame, carved, got, code, view,
                   text, parsed, messages>>

UnframeAndReportType ==
    /\ stage = "arrived"
    /\ IF Validate(arrived, addr)
       THEN /\ carved' = Carve(arrived)
            /\ owners' = owners \cup {"carved"}
            /\ stage' = "unframed"
       ELSE UNCHANGED <<carved, owners>> /\ stage' = "rejected"
    /\ UNCHANGED <<writer, reader, sent, serialized, frame, arrived, addr, got, code,
                   view, text, parsed, messages>>

\* The reader knows the type: it has looked at enclosed_type.
Knows == arrived[1] = HashWord(TypeHash(reader))

DecodeRoot(d, o) ==
    IF ~d.ok THEN [code |-> "kError", out |-> o]
    ELSE Decode(FileOf(reader), d, RootOf(reader), o)

DecodeStorage(o) ==
    IF 4 * Len(carved) < kMinimumCapsuleSizeBytes
    THEN [code |-> "kError", out |-> o]
    ELSE DecodeRoot(Build(carved, 0, 4 * Len(carved)), o)

Deserialize ==
    /\ stage = "unframed" /\ Knows
    /\ \E r \in {DecodeStorage(got)} : got' = r.out /\ code' = r.code
    /\ stage' = "decoded"
    /\ UNCHANGED <<writer, reader, sent, serialized, frame, arrived, addr, carved, view,
                   owners, text, parsed, messages>>

\* A view is decoded the same way, and then told to keep its storage.
DeserializeView ==
    /\ stage = "unframed" /\ Knows /\ view = NoView
    /\ \E r \in {DecodeStorage(DefaultObject(FileOf(reader), RootOf(reader)))} :
           /\ r.code = "kOk"
           /\ view' = r.out
    /\ owners' = owners \cup
                    IF RefsStorage(CapsuleNamed(FileOf(reader), RootOf(reader))) THEN {"view"} ELSE {}
    /\ stage' = "viewing"
    /\ UNCHANGED <<writer, reader, sent, serialized, frame, arrived, addr, carved, got,
                   code, text, parsed, messages>>

\* The reader is done with the two Storage objects it holds.
ReleaseStorage(s) ==
    /\ stage = "viewing" /\ s \in owners \cap {"frame", "carved"}
    /\ owners' = owners \ {s}
    /\ UNCHANGED <<writer, reader, stage, sent, serialized, frame, arrived, addr, carved,
                   got, code, view, text, parsed, messages>>

\* ParseFromText into a new object, of the object's ToString or of the same
\* object written by hand.
ParseFromText ==
    /\ stage = "decoded" /\ code = "kOk"
    /\ \/ text' = ObjectText(FileOf(reader), RootOf(reader), got) /\ stage' = "reparsed"
       \/ text' = HandWritten(FileOf(reader), RootOf(reader), got) /\ stage' = "parsed"
    /\ parsed' = ParseFrom(FileOf(reader), RootOf(reader), text',
                           DefaultObject(FileOf(reader), RootOf(reader)))
    /\ UNCHANGED <<writer, reader, sent, serialized, frame, arrived, addr, carved, got,
                   code, view, owners, messages>>

\* The next message: the reader keeps its object and drops everything else.
NextMessage ==
    /\ stage \in {"rejected", "decoded", "parsed", "reparsed", "viewing"}
    /\ stage' = "idle"
    /\ frame' = <<>> /\ arrived' = <<>> /\ carved' = <<>> /\ addr' = 0
    /\ view' = NoView /\ owners' = {} /\ text' = <<>> /\ parsed' = NotParsed
    /\ code' = "none"
    /\ UNCHANGED <<writer, reader, sent, serialized, got, messages>>

CapsuleInit ==
    /\ writer \in DOMAIN Versions /\ reader \in Readers
    /\ stage = "idle"
    /\ sent = NoView /\ serialized = "none"
    /\ frame = <<>> /\ arrived = <<>> /\ addr = 0 /\ carved = <<>>
    /\ got = DefaultObject(FileOf(reader), RootOf(reader))
    /\ code = "none"
    /\ view = NoView /\ owners = {}
    /\ text = <<>> /\ parsed = NotParsed
    /\ messages = 0

CapsuleNext ==
    \/ \E o \in Samples[writer] : SerializeAndFrame(o)
    \/ Deliver
    \/ UnframeAndReportType
    \/ Deserialize
    \/ DeserializeView
    \/ \E s \in {"frame", "carved"} : ReleaseStorage(s)
    \/ ParseFromText
    \/ NextMessage

-----------------------------------------------------------------------------
\* SerializeAndFrame never fails for a capsule with a field that is not retired:
\* what ComputeStorageSize promises can be framed and is what the encoder writes,
\* at every level of nesting and for every padding of a string.
SizePromiseKept == serialized \in {"none", "kOk"}

\* Unframe accepts exactly the frames that were produced: a frame with one word
\* changed, cut short or extended is refused; an intact one, aligned and short
\* enough for its length field, is accepted, and yields the capsule.
FrameDetects ==
    /\ stage \in {"unframed", "decoded", "parsed", "reparsed", "viewing"} =>
           /\ arrived = frame
           /\ carved = Serialize(writer, 4 * Len(carved), sent).mem
    /\ stage = "rejected" =>
           arrived # frame \/ addr # 0 \/ 4 * Len(frame) >= 2^LenBits

\* The fields of the writer's capsule a reader's field may take its value
\* from: the one with its name, else the one with its former name.
Sources(wn, f) ==
    LET ws   == ToSet(NonRetired(CapsuleNamed(FileOf(writer), wn)))
        Of(h) == {w \in ws : ComputeHashes(w)[1] = h}
        hs   == ComputeHashes(f)
    IN  IF Of(hs[1]) # {} \/ Len(hs) = 1 THEN Of(hs[1]) ELSE Of(hs[2])

RECURSIVE Compatible(_, _, _), Carried(_, _, _, _)

Nested(t) == IsCapsuleType(t) \/ IsCapsuleVector(t)

\* The capsule nested in a field of type t.
InnerOf(t) == IF IsVectorType(t) THEN VectorToInner(t) ELSE t

SameShape(t, u) == Nested(t) /\ Nested(u) /\ IsVectorType(t) = IsVectorType(u)

\* Every field the two versions share passes Fits, at every level of nesting.
Compatible(Fits(_, _), wn, rn) ==
    \A f \in ToSet(NonRetired(CapsuleNamed(FileOf(reader), rn))) : \A w \in Sources(wn, f) :
        IF SameShape(w.type, f.type) THEN Compatible(Fits, InnerOf(w.type), InnerOf(f.type))
        ELSE Fits(w.type, f.type)

SameType(t, u) == t = u

\* A boolean, an 8-bit or a 16-bit literal is read under the tag of its width.
SameTag(t, u) == Literal(u, 0)[1] # "" => Literal(t, 0)[1] = Literal(u, 0)[1]

\* The object g of the reader's capsule rn holds what o of the writer's
\* capsule wn said, and knows which of its fields o had.
Carried(wn, o, rn, g) ==
    \A f \in ToSet(NonRetired(CapsuleNamed(FileOf(reader), rn))) :
        LET ws == Sources(wn, f)
            w  == CHOOSE x \in ws : TRUE
            v  == g.val[f.name]
        IN  IF ws = {}
            THEN /\ ~HasBit(FileOf(reader), rn, g, f.name)
                 /\ IF IsPrimitiveType(f.type) THEN v = CppDefaultValue(f)
                    ELSE IsVectorType(f.type) => v = <<>>
            ELSE /\ HasBit(FileOf(reader), rn, g, f.name)
                 /\ IF IsCapsuleType(f.type) /\ SameShape(w.type, f.type)
                    THEN Carried(w.type, o.val[w.name], f.type, v)
                    ELSE IF IsCapsuleVector(f.type) /\ SameShape(w.type, f.type)
                    THEN /\ Len(v) = Len(o.val[w.name])
                         /\ \A i \in DOMAIN v :
                                Carried(InnerOf(w.type), o.val[w.name][i], InnerOf(f.type), v[i])
                    ELSE w.type = f.type => v = o.val[w.name]

\* Across versions, and into an object used before, a reader whose fields have
\* the writer's types gets a message; a field whose tagged width changed is
\* reported; and a reader that is told kOk has every value the writer sent
\* under the field's current or former name and type, the default of every
\* primitive and an empty vector where the writer had no such field, and a has_
\* that says which is which.  The members of a nested capsule the writer did
\* not have are another matter: NestedDefaults.
VersionRoundTrip ==
    stage \in {"decoded", "parsed", "reparsed"} =>
        /\ Compatible(SameType, RootOf(writer), RootOf(reader)) => code = "kOk"
        /\ code = "kOk" =>
               /\ Compatible(SameTag, RootOf(writer), RootOf(reader))
               /\ Carried(RootOf(writer), sent, RootOf(reader), got)

RECURSIVE Defaulted(_, _), AbsentDefaulted(_, _, _)

\* The object o of the reader's capsule n holds the default of every field.
Defaulted(n, o) ==
    \A f \in ToSet(NonRetired(CapsuleNamed(FileOf(reader), n))) :
        LET v == o.val[f.name] IN
        IF IsPrimitiveType(f.type) THEN v = CppDefaultValue(f)
        ELSE IF IsVectorType(f.type) THEN v = <<>> ELSE Defaulted(f.type, v)

\* Every capsule nested in g that the writer's capsule wn did not have is
\* defaulted.
AbsentDefaulted(wn, rn, g) ==
    \A f \in ToSet(NonRetired(CapsuleNamed(FileOf(reader), rn))) : IsCapsuleType(f.type) =>
        /\ Sources(wn, f) = {} => Defaulted(f.type, g.val[f.name])
        /\ \A w \in Sources(wn, f) :
               IsCapsuleType(w.type) => AbsentDefaulted(w.type, f.type, g.val[f.name])

\* capsule/spec.md says of a field that is omitted in the payload that it is
\* default-constructed, and that this applies transitively to nested capsules.
\* FindCapsule leaves the members of an absent capsule as they were: those of
\* the message before, or, in a new object, uninitialized.
NestedDefaults ==
    stage = "decoded" /\ code = "kOk" => AbsentDefaulted(RootOf(writer), RootOf(reader), got)

RECURSIVE SameShown(_, _, _), Plain(_, _, _)

\* What is to come back of a value: ToString rounds floats.
Back(t, v) == IF stage = "reparsed" /\ t \in Floats THEN Rounded(t, v) ELSE v

\* The fields of o that are printed come back in q.
SameShown(n, o, q) ==
    \A f \in ToSet(NonRetired(CapsuleNamed(FileOf(reader), n))) : Shown(FileOf(reader), n, o, f) =>
        LET a == o.val[f.name]
            b == q.val[f.name]
        IN  IF IsCapsuleType(f.type) THEN SameShown(f.type, a, b)
            ELSE IF IsCapsuleVector(f.type)
            THEN Len(a) = Len(b) /\ \A i \in DOMAIN a : SameShown(VectorToInner(f.type), a[i], b[i])
            ELSE b = Back(f.type, a)

\* No string of o has anything in it that the lexer treats specially.
Plain(n, o, esc) ==
    \A f \in ToSet(NonRetired(CapsuleNamed(FileOf(reader), n))) :
        LET a == o.val[f.name] IN
        CASE f.type = <<"string">>   -> esc \notin ToSet(a.data)
          [] IsStringVector(f.type)  -> \A i \in DOMAIN a : esc \notin ToSet(a[i].data)
          [] IsCapsuleType(f.type)   -> Plain(f.type, a, esc)
          [] IsCapsuleVector(f.type) -> \A i \in DOMAIN a : Plain(VectorToInner(f.type), a[i], esc)
          [] OTHER                   -> TRUE

\* What ToString prints is refused, or every field that was printed is read back:
\* a float as its six significant digits, anything else as it was.  The same
\* object written by hand is read back as it was.  Both only for objects whose
\* strings need no escapes: ToString writes none and the lexer reads them.
TextFaithful ==
    stage \in {"parsed", "reparsed"} /\ Plain(RootOf(reader), got, Escaped) =>
        /\ parsed.ok => SameShown(RootOf(reader), got, parsed.out) /\ parsed.rest = <<>>
        /\ stage = "parsed" => parsed.ok

RECURSIVE PointsIntoStorage(_, _)

\* Does the view, or a view nested in it, hold a string_view of the storage?
PointsIntoStorage(n, o) ==
    \E f \in ToSet(NonRetired(CapsuleNamed(FileOf(reader), n))) :
        /\ HasBit(FileOf(reader), n, o, f.name)
        /\ CASE f.type = <<"string">>   -> TRUE
             [] IsStringVector(f.type)  -> o.val[f.name] # <<>>
             [] IsCapsuleType(f.type)   -> PointsIntoStorage(f.type, o.val[f.name])
             [] IsCapsuleVector(f.type) -> \E i \in DOMAIN o.val[f.name] :
                                               PointsIntoStorage(VectorToInner(f.type), o.val[f.name][i])
             [] OTHER                   -> FALSE

\* spec.md, section 3: the pointers of a view are lifetime-guarded.  A view that
\* was told to keep its storage points into storage somebody keeps.
ViewBacked ==
    stage = "viewing" /\ PointsIntoStorage(RootOf(reader), view) => owners # {}
=============================================================================
