----------------------------- MODULE CapsuleText -----------------------------
(***************************************************************************)
(* Capsule text: the generated ToString (generator.cc), and the reading of *)
(* text by text/text_lexer.cc, text_parser.cc, parsing_widget.cc and the   *)
(* generated ParseFrom.  A text is the sequence of tokens TextLexer makes  *)
(* of it.                                                                  *)
(***************************************************************************)
EXTENDS CapsuleDecoder

\* A group of bytes with a backslash in front of an n, and what NextToken
\* makes of it between quotes.
Escaped == <<"\\n", 0>>
Newline == <<"newline", 0>>

\* text_lexer.cc, the string literal: ToString writes the bytes as they are,
\* and the lexer reads escapes.
LexString(s) ==
    [s EXCEPT !.data = [i \in DOMAIN s.data |->
                            IF s.data[i] = Escaped THEN Newline ELSE s.data[i]]]

Tok(tp) == [tp |-> tp, val |-> 0]

Identifier(n) == [tp |-> "kIdentifier", val |-> n]

Quoted(s) == [tp |-> "kStringLiteral", val |-> LexString(s)]

\* A number token; one byte streamed as a character is a digit, or no token
\* the parser knows.
Numeral(v) == [tp |-> "kNumberLiteral", val |-> v]

Character(v) == IF v \in 48..57 THEN Numeral(v - 48) ELSE Tok("kUnknown")

-----------------------------------------------------------------------------
\* EmitToStringImpl

Shown(cs, n, o, f) == ~o.sized \/ HasBit(cs, n, o, f.name)

\* A float stands for its thousandths; the lower half of an f64 holds digits
\* beyond those.  operator<< prints six significant digits.
Floats == {<<"f32">>, <<"f64">>}

SixDigits(x) ==
    LET u == CHOOSE p \in {1, 10, 100, 1000, 10000} :
                x \div p < 10^6 /\ (p > 1 => x \div (p \div 10) >= 10^6)
    IN  ((x + u \div 2) \div u) * u

Rounded(t, v) == IF t = <<"f64">> THEN <<SixDigits(v[1]), 0>> ELSE SixDigits(v)

Thousandths(t, v) == IF t = <<"f64">> THEN v[1] ELSE v

\* From 10^6 on there is an exponent, which the lexer takes for more tokens.
FloatText(t, v) ==
    IF SixDigits(Thousandths(t, v)) < 10^9 THEN <<Numeral(Rounded(t, v))>>
    ELSE <<Numeral(Rounded(t, v)), Identifier(<<"e">>), Numeral(6)>>

\* operator<< prints a uint8_t as a character.
PrimitiveTextSlip(f, v) ==
    IF f.type = <<"string">> THEN <<Quoted(v)>>
    ELSE IF f.type \in Floats THEN FloatText(f.type, v)
    ELSE IF f.type \in Literal8 THEN <<Character(v)>> ELSE <<Numeral(v)>>

PrimitiveText(f, v) ==
    IF f.type = <<"string">> THEN <<Quoted(v)>>
    ELSE IF f.type \in Floats THEN FloatText(f.type, v) ELSE <<Numeral(v)>>

RECURSIVE ObjectText(_, _, _)

\* A capsule is printed without its name, a vector of strings without its
\* brackets, a vector of capsules without the brace that ends it.
FieldText(cs, f, v) ==
    IF IsPrimitiveType(f.type) THEN <<Identifier(f.name), Tok("kColon")>> \o PrimitiveText(f, v)
    ELSE IF IsCapsuleType(f.type)
    THEN <<Tok("kLBrace")>> \o ObjectText(cs, f.type, v) \o <<Tok("kRBrace")>>
    ELSE IF v = <<>> THEN <<>>
    ELSE IF IsStringVector(f.type)
    THEN <<Identifier(f.name), Tok("kLBrace")>> \o [i \in DOMAIN v |-> Quoted(v[i])]
             \o <<Tok("kRBrace")>>
    ELSE <<Identifier(f.name), Tok("kLBracket"), Tok("kRBracket"), Tok("kLBrace")>>
             \o FlattenSeq([i \in DOMAIN v |->
                    <<Tok("kLBrace")>> \o ObjectText(cs, VectorToInner(f.type), v[i])
                        \o <<Tok("kRBrace")>>])

ObjectText(cs, n, o) ==
    FoldLeft(LAMBDA a, f : IF Shown(cs, n, o, f) THEN a \o FieldText(cs, f, o.val[f.name])
                           ELSE a,
             <<>>, NonRetired(CapsuleNamed(cs, n)))

\* The text parsing_widget.cc says it reads: a capsule as name { ... }, a
\* vector as name[] { ... }, a float with all its digits.  Written by hand; no
\* code of this repository prints it.
RECURSIVE HandWritten(_, _, _)

HandWrittenField(cs, f, v) ==
    IF IsPrimitiveType(f.type)
    THEN <<Identifier(f.name), Tok("kColon")>>
             \o IF f.type \in Floats THEN <<Numeral(v)>> ELSE PrimitiveText(f, v)
    ELSE IF IsCapsuleType(f.type)
    THEN <<Identifier(f.name), Tok("kLBrace")>> \o HandWritten(cs, f.type, v) \o <<Tok("kRBrace")>>
    ELSE <<Identifier(f.name), Tok("kLBracket"), Tok("kRBracket")>>
         \o IF IsStringVector(f.type)
            THEN <<Tok("kLBrace")>>
                     \o FlattenSeq([i \in DOMAIN v |-> <<Quoted(v[i]), Tok("kComma")>>])
                     \o <<Tok("kRBrace")>>
            ELSE FlattenSeq([i \in DOMAIN v |->
                    <<Tok("kLBrace")>> \o HandWritten(cs, VectorToInner(f.type), v[i])
                        \o <<Tok("kRBrace")>>])

HandWritten(cs, n, o) ==
    FoldLeft(LAMBDA a, f : IF Shown(cs, n, o, f) THEN a \o HandWrittenField(cs, f, o.val[f.name])
                           ELSE a,
             <<>>, NonRetired(CapsuleNamed(cs, n)))

-----------------------------------------------------------------------------
\* text_parser.cc, parsing_widget.cc.  A parse returns whether it is ok, the
\* tokens it has not consumed and the object it fills.

Check(ts, tp) == ts # <<>> /\ Head(ts).tp = tp

Drop(ts, k) == SubSeq(ts, k + 1, Len(ts))

\* The largest value of a type that is not 64 bits wide; that of a 32-bit one
\* is above every number TLC has.  A bool is read as a u8.
Limit(t) ==
    CASE t \in {<<"u8">>, <<"bool">>} -> 255
      [] t = <<"i8">>  -> 127
      [] t = <<"u16">> -> 65535
      [] t = <<"i16">> -> 32767
      [] OTHER         -> 2147483647

Refused(ts, o) == [ok |-> FALSE, rest |-> ts, out |-> o]

Parsed(ts, o) == [ok |-> TRUE, rest |-> ts, out |-> o]

\* ParseString also takes an identifier for a string.
BareWord(n) == [len |-> 4, data |-> <<n>>]

\* ParseU8 ... ParseF64 and ParseString, by the map the name is in.
ParsePrimitive(f, ts) ==
    IF ts = <<>> THEN Refused(ts, 0)
    ELSE IF f.type = <<"string">>
    THEN IF Head(ts).tp = "kStringLiteral" THEN Parsed(Tail(ts), Head(ts).val)
         ELSE IF Head(ts).tp = "kIdentifier" THEN Parsed(Tail(ts), BareWord(Head(ts).val))
         ELSE Refused(ts, 0)
    ELSE IF Head(ts).tp # "kNumberLiteral" THEN Refused(ts, 0)
    ELSE IF f.type \notin Wide64 /\ Head(ts).val > Limit(f.type) THEN Refused(ts, 0)
    ELSE Parsed(Tail(ts), IF f.type = <<"bool">> /\ Head(ts).val # 0 THEN 1 ELSE Head(ts).val)

RECURSIVE ParseStringVector(_, _), ParseCapsules(_, _, _, _), ParseFrom(_, _, _, _)

\* After the opening brace: commas between the strings are optional.
ParseStringVector(ts, v) ==
    IF Check(ts, "kStringLiteral")
    THEN LET rest == Tail(ts) IN
         ParseStringVector(IF Check(rest, "kComma") THEN Tail(rest) ELSE rest,
                           Append(v, Head(ts).val))
    ELSE IF Check(ts, "kRBrace") THEN Parsed(Tail(ts), v) ELSE Refused(ts, v)

\* The loop of ParseVector over capsules: a new element per opening brace,
\* behind the elements the vector already has.
ParseCapsules(cs, n, ts, v) ==
    IF ~Check(ts, "kLBrace") THEN Parsed(ts, v)
    ELSE LET r == ParseFrom(cs, n, Tail(ts), DefaultObject(cs, n)) IN
         IF r.ok THEN ParseCapsules(cs, n, r.rest, Append(v, r.out)) ELSE Refused(r.rest, v)

\* ParseSubcapsule, ParseVector or ParsePrimitive, by what follows the name;
\* each refuses a name that is not in its maps.
ParseField(cs, f, ts, old) ==
    IF Check(ts, "kLBrace") /\ IsCapsuleType(f.type)
    THEN ParseFrom(cs, f.type, Tail(ts), old)
    ELSE IF Check(ts, "kLBracket") /\ Check(Tail(ts), "kRBracket")
    THEN IF IsStringVector(f.type) /\ Check(Drop(ts, 2), "kLBrace")
         THEN ParseStringVector(Drop(ts, 3), <<>>)
         ELSE IF IsCapsuleVector(f.type)
         THEN ParseCapsules(cs, VectorToInner(f.type), Drop(ts, 2), old)
         ELSE Refused(ts, old)
    ELSE IF Check(ts, "kColon") /\ IsPrimitiveType(f.type)
    THEN ParsePrimitive(f, Tail(ts))
    ELSE Refused(ts, old)

ParseFrom(cs, n, ts, o) ==
    IF ts = <<>> THEN Parsed(ts, o)
    ELSE IF Check(ts, "kRBrace") THEN Parsed(Tail(ts), o)
    ELSE IF ~Check(ts, "kIdentifier") \/ Head(ts).val \notin FieldNames(cs, n) THEN Refused(ts, o)
    ELSE LET fn == Head(ts).val
             r  == ParseField(cs, FieldNamed(cs, n, fn), Tail(ts), o.val[fn])
         IN  IF r.ok THEN ParseFrom(cs, n, r.rest, [o EXCEPT !.val[fn] = r.out])
             ELSE Refused(r.rest, o)
=============================================================================
