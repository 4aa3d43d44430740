--------------------------- MODULE CapsuleCompiler ---------------------------
(***************************************************************************)
(* The front end of the capsule compiler (capsule/lexer.cc, parser.cc,     *)
(* hashing.cc, verify.cc, compiler.cc) and the names its generator         *)
(* declares (generator.cc).  The parser reads one token per step.  An      *)
(* identifier is the sequence of the pieces it is glued from, so that a    *)
(* user's x_Index and the generator's x + "_Index" are equal exactly when  *)
(* the strings are.                                                        *)
(***************************************************************************)
EXTENDS Naturals, Sequences, FiniteSets, TLC

CONSTANTS
    Namespaces, CapsuleIds, TypeIds,    \* identifiers a file may use, by place
    FieldIds, AttributeIds, ValueIds,
    MaxCapsules, MaxFields,             \* bounds on a file
    MaxAttributes,
    Verboten,                           \* the reserved identifiers that matter here
    Twins                               \* names whose CRC32C collide

VARIABLES
    parse,      \* Parser::Impl: where it is, and what it has built
    compiled    \* Code of FrontendCompile: "none" until it returns

compilerVars == <<parse, compiled>>

-----------------------------------------------------------------------------
\* lexer.cc.  What the lexer can hand the parser at a place of the grammar:
\* the identifiers the bounds allow there, or any other kind of token.

Token(tp, val) == [tp |-> tp, val |-> val]

NextToken(ids) ==
    {Token("kIdentifier", id) : id \in ids}
        \cup {Token(tp, <<>>) : tp \in {"kNamespace", "kCapsule", "kAt", "kLBrace",
                                        "kRBrace", "kLParen", "kRParen", "kEof"}}

-----------------------------------------------------------------------------
\* parser.cc

ParserStart ==
    [at |-> "namespace", namespace_name |-> <<>>, capsules |-> <<>>,
     attrs |-> <<>>, type |-> <<>>]

MakeError == [ParserStart EXCEPT !.at = "error"]

Expect(t, tp, next) == parse' = IF t.tp = tp THEN next ELSE MakeError

FieldsOf(c) == {c.fields[i] : i \in DOMAIN c.fields}

\* Bounds: room for another field, for another attribute.
MoreFields(p) ==
    Cardinality(UNION {{<<i, j>> : j \in DOMAIN p.capsules[i].fields} : i \in DOMAIN p.capsules})
        < MaxFields

MoreAttributes(p) ==
    Len(p.attrs) + Cardinality(UNION {UNION {{<<i, j, k>> : k \in DOMAIN p.capsules[i].fields[j].attributes}
                                             : j \in DOMAIN p.capsules[i].fields}
                                      : i \in DOMAIN p.capsules}) < MaxAttributes

\* The field just parsed joins the capsule being parsed.
WithField(p, name) ==
    LET cs == p.capsules
        f  == [type |-> p.type, name |-> name, attributes |-> p.attrs]
    IN  [p EXCEPT !.at = "field", !.attrs = <<>>,
                  !.capsules[Len(cs)].fields = Append(@, f)]

ParseFile ==
    \/ /\ parse.at = "namespace"
       /\ \E t \in NextToken({}) : Expect(t, "kNamespace", [parse EXCEPT !.at = "ns"])
    \/ /\ parse.at = "ns"
       /\ \E t \in NextToken(Namespaces) :
              Expect(t, "kIdentifier",
                     [parse EXCEPT !.at = "top", !.namespace_name = t.val])
    \/ /\ parse.at = "top"
       /\ \E t \in NextToken({}) :
              IF t.tp = "kEof" THEN parse' = [parse EXCEPT !.at = "parsed"]
              ELSE /\ t.tp = "kCapsule" => Len(parse.capsules) < MaxCapsules
                   /\ Expect(t, "kCapsule", [parse EXCEPT !.at = "capsule"])

ParseCapsule ==
    \/ /\ parse.at = "capsule"
       /\ \E t \in NextToken(CapsuleIds) :
              Expect(t, "kIdentifier",
                     [parse EXCEPT !.at = "lbrace",
                                   !.capsules = Append(@, [name |-> t.val, fields |-> <<>>])])
    \/ /\ parse.at = "lbrace"
       /\ \E t \in NextToken({}) : Expect(t, "kLBrace", [parse EXCEPT !.at = "field"])
    \/ /\ parse.at = "field"
       /\ \E t \in NextToken(TypeIds) :
              CASE t.tp = "kRBrace" /\ parse.attrs = <<>> ->
                        parse' = [parse EXCEPT !.at = "top"]
                [] t.tp = "kAt" -> /\ MoreFields(parse) /\ MoreAttributes(parse)
                                   /\ parse' = [parse EXCEPT !.at = "attribute"]
                [] OTHER -> /\ t.tp = "kIdentifier" => MoreFields(parse)
                            /\ Expect(t, "kIdentifier",
                                      [parse EXCEPT !.at = "name", !.type = t.val])
    \/ /\ parse.at = "name"
       /\ \E t \in NextToken(FieldIds) :
              Expect(t, "kIdentifier", WithField(parse, t.val))

ParseAttribute ==
    \/ /\ parse.at = "attribute"
       /\ \E t \in NextToken(AttributeIds) :
              Expect(t, "kIdentifier",
                     [parse EXCEPT !.at = "paren",
                                   !.attrs = Append(@, [name |-> t.val, value |-> <<>>])])
    \/ /\ parse.at = "paren"   \* any other token stays for what follows
       /\ \E at \in {"value", "field"} : parse' = [parse EXCEPT !.at = at]
    \/ /\ parse.at = "value"
       /\ \E t \in NextToken(ValueIds) :
              IF t.tp = "kIdentifier"
              THEN parse' = [parse EXCEPT !.at = "rparen",
                                          !.attrs[Len(parse.attrs)].value = t.val]
              ELSE Expect(t, "kRParen", [parse EXCEPT !.at = "field"])
    \/ /\ parse.at = "rparen"
       /\ \E t \in NextToken({}) : Expect(t, "kRParen", [parse EXCEPT !.at = "field"])

-----------------------------------------------------------------------------
\* hashing.cc

\* The hash of a name, as injective as CRC32C usually is: one pair collides.
ComputeCRC32C(n) == IF n \in Twins THEN CHOOSE m \in Twins : TRUE ELSE n

AttributeValues(f, named) ==
    LET Named(a) == a.name = named
        as       == SelectSeq(f.attributes, Named)
    IN  [i \in DOMAIN as |-> as[i].value]

FieldHasAttr(f, attr) == \E i \in DOMAIN f.attributes : f.attributes[i].name = attr

\* The name a field was declared with first, then the names it had before.
ComputeHashes(f) ==
    LET names == <<f.name>> \o AttributeValues(f, <<"formerly">>)
    IN  [i \in DOMAIN names |-> ComputeCRC32C(names[i])]

HashSlots(c) == UNION {{<<i, j>> : j \in DOMAIN ComputeHashes(c.fields[i])} : i \in DOMAIN c.fields}

HashAt(c, s) == ComputeHashes(c.fields[s[1]])[s[2]]

\* Only the hash of the current name is entered in the map of those seen.
ValidateHashesSlip(c) ==
    \A s, t \in HashSlots(c) :
        s # t /\ s[2] = 1 /\ t[2] = 1 => HashAt(c, s) # HashAt(c, t)

ValidateHashes(c) ==
    \A s, t \in HashSlots(c) : s # t => HashAt(c, s) # HashAt(c, t)

-----------------------------------------------------------------------------
\* verify.cc

Literal8  == {<<"u8">>, <<"i8">>}
Literal16 == {<<"u16">>, <<"i16">>}
Literal32 == {<<"u32">>, <<"i32">>, <<"f32">>}
Wide64    == {<<"u64">>, <<"i64">>, <<"f64">>}

AllPrimitiveTypes ==
    Literal8 \cup Literal16 \cup Literal32 \cup Wide64 \cup {<<"bool">>, <<"string">>}

IsPrimitiveType(t) == t \in AllPrimitiveTypes

IsVectorType(t) == Head(t) = "vector"

VectorToInner(t) == Tail(t)

IsCapsuleType(t) == ~IsPrimitiveType(t) /\ ~IsVectorType(t)

CapsuleNames(cs) == {cs[i].name : i \in DOMAIN cs}

Fields(cs) == UNION {FieldsOf(cs[i]) : i \in DOMAIN cs}

Recognize(a) ==
    \/ a.name \in {<<"default">>, <<"formerly">>} /\ a.value # <<>>
    \/ a.name = <<"retired">> /\ a.value = <<>>

VerifyTypeSoundness(cs) ==
    \A f \in Fields(cs) :
        LET t == IF IsVectorType(f.type) THEN VectorToInner(f.type) ELSE f.type
        IN  IsPrimitiveType(t) \/ t \in CapsuleNames(cs)

VerifyNamesDistinctFromTypes(cs) ==
    /\ \A n \in CapsuleNames(cs) : ~IsPrimitiveType(n)
    /\ \A f \in Fields(cs) : ~IsPrimitiveType(f.name) /\ f.name \notin CapsuleNames(cs)

VerifyCapsuleNameUniqueness(cs) == Cardinality(CapsuleNames(cs)) = Len(cs)

VerifyNamesNotVerboten(ns, cs) ==
    ({ns} \cup CapsuleNames(cs) \cup {f.name : f \in Fields(cs)}) \cap Verboten = {}

StructNames(cs) == {n \o <<post>> : n \in CapsuleNames(cs), post \in {"M", "V", "Base"}}

FieldSymbols(f) ==
    {f.name \o <<post>> : post \in {"_Default", "_Index", "_FieldHash"}}
        \cup {<<"has_">> \o f.name}

VerifyNoGeneratedNameCollision(cs) ==
    /\ (CapsuleNames(cs) \cup {f.name : f \in Fields(cs)}) \cap StructNames(cs) = {}
    /\ {f.name : f \in Fields(cs)} \cap UNION {FieldSymbols(f) : f \in Fields(cs)} = {}

VerifyRecognizedAttributes(cs) ==
    \A f \in Fields(cs) : \A i, j \in DOMAIN f.attributes :
        /\ Recognize(f.attributes[i])
        /\ i # j => f.attributes[i].name # f.attributes[j].name

VerifyNoDefaultsOnVectorsOrCapsules(cs) ==
    \A f \in Fields(cs) : FieldHasAttr(f, <<"default">>) => IsPrimitiveType(f.type)

Verify(ns, cs) ==
    /\ Len(cs) > 0
    /\ VerifyTypeSoundness(cs)
    /\ VerifyCapsuleNameUniqueness(cs)
    /\ VerifyNamesDistinctFromTypes(cs)
    /\ VerifyNamesNotVerboten(ns, cs)
    /\ VerifyNoGeneratedNameCollision(cs)
    /\ VerifyRecognizedAttributes(cs)
    /\ VerifyNoDefaultsOnVectorsOrCapsules(cs)

\* compiler.cc: what parses is hashed, then verified.
Accepts(ns, cs) == (\A i \in DOMAIN cs : ValidateHashes(cs[i])) /\ Verify(ns, cs)

FrontendCompile ==
    /\ parse.at \in {"parsed", "error"} /\ compiled = "none"
    /\ compiled' = IF parse.at = "parsed" /\ Accepts(parse.namespace_name, parse.capsules)
                   THEN "kOk" ELSE "error"
    /\ UNCHANGED parse

-----------------------------------------------------------------------------
\* generator.cc: what the header declares for a capsule.

FieldIsRetired(f) == FieldHasAttr(f, <<"retired">>)

NonRetired(c) ==
    LET Kept(f) == ~FieldIsRetired(f) IN SelectSeq(c.fields, Kept)

CountNonRetiredFields(c) == Len(NonRetired(c))

DefaultValueSupported(f) == IsPrimitiveType(f.type)

\* <name>_Index: retired fields are counted.
Index(c, n) == (CHOOSE i \in DOMAIN c.fields : c.fields[i].name = n) - 1

\* <name>_FieldHash<i>, for the i-th former name.
FormerHash(f, i) == f.name \o <<"_FieldHash", ToString(i)>>

FormerHashes(f) == {FormerHash(f, i) : i \in DOMAIN AttributeValues(f, <<"formerly">>)}

Accessor(f) == <<"has_">> \o f.name

\* struct <name>Base, as the symbols a field that is not retired brings.
BaseSymbols(f) ==
    {f.name \o <<"_FieldHash">>, f.name \o <<"_Index">>, Accessor(f)}
        \cup FormerHashes(f)
        \cup (IF DefaultValueSupported(f) THEN {f.name \o <<"_Default">>} ELSE {})

\* RefsStorage: does the view of this capsule need to keep its storage?
RefsStorage(c) ==
    \E f \in FieldsOf(c) :
        ~FieldIsRetired(f) /\ f.type \in {<<"string">>, <<"vector", "string">>}

-----------------------------------------------------------------------------
CompilerInit == parse = ParserStart /\ compiled = "none"

CompilerNext ==
    \/ ParseFile /\ UNCHANGED compiled
    \/ ParseCapsule /\ UNCHANGED compiled
    \/ ParseAttribute /\ UNCHANGED compiled
    \/ FrontendCompile

\* What the front end accepts the decoder reads without ambiguity, and the
\* generator finds its names: every type is declared once, every hash a decoder
\* looks up (the current name, then the @formerly ones) belongs to one field of
\* its capsule, no field or capsule is named like a generated struct, and two
\* fields of a capsule bring different symbols into its structs, except in the
\* two ways verify.cc does not look for: a field may be named like the hash of
\* another one's former name, and fields has_<x> and <x>_Index (or _Default,
\* _FieldHash) both bring has_<x>_Index.  Names the generated functions use
\* themselves are not derived from the file and not looked at here.
CompileSound ==
    compiled = "kOk" =>
        LET cs == parse.capsules IN
        \A i \in DOMAIN cs :
            /\ \A j \in DOMAIN cs : i # j => cs[i].name # cs[j].name
            /\ cs[i].name \notin StructNames(cs)
            /\ \A f \in FieldsOf(cs[i]) :
                   \E t \in {f.type, Tail(f.type)} :
                       IsPrimitiveType(t) \/ \E j \in DOMAIN cs : cs[j].name = t
            /\ \A a, b \in DOMAIN cs[i].fields :
                   LET fa == cs[i].fields[a]
                       fb == cs[i].fields[b]
                       ha == ComputeHashes(fa)
                       hb == ComputeHashes(fb)
                   IN  /\ a # b => \A x \in DOMAIN ha, y \in DOMAIN hb : ha[x] # hb[y]
                       /\ fa.name \notin StructNames(cs)
                       /\ fa.name \in BaseSymbols(fb) => fa.name \in FormerHashes(fb)
                       /\ a # b => BaseSymbols(fa) \cap BaseSymbols(fb)
                                       \subseteq {Accessor(fa), Accessor(fb)}
=============================================================================
