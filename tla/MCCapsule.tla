------------------------------ MODULE MCCapsule ------------------------------
(***************************************************************************)
(* The capsule compiler on small files, and the capsule API between the    *)
(* versions of one file.  The two share no state: a behaviour exercises    *)
(* the one `focus' names.                                                  *)
(***************************************************************************)
EXTENDS Capsule

VARIABLE focus

MCNamespaces   == {<<"n">>}
MCCapsuleIds   == {<<"C">>, <<"C", "M">>}
MCTypeIds      == {<<"u8">>, <<"C">>, <<"vector", "C">>, <<"vector", "u8">>}
MCFieldIds     == {<<"a">>, <<"a", "_Index">>, <<"has_", "a">>, <<"a", "_FieldHash", "1">>,
                   <<"z">>, <<"int">>}
MCAttributeIds == {<<"default">>, <<"formerly">>, <<"retired">>}
MCValueIds     == {<<"a", "_Index">>}
MCVerboten     == {<<"int">>}
MCTwins        == {<<"a">>, <<"z">>}

Plain1(type, name) == [type |-> type, name |-> name, attributes |-> <<>>]

With(type, name, attr, value) ==
    [type |-> type, name |-> name, attributes |-> <<[name |-> <<attr>>, value |-> value]>>]

R == <<"R">>
P == <<"P">>

File(pfields, rfields) ==
    [namespace |-> <<"n">>, root |-> R,
     capsules |-> <<[name |-> P, fields |-> pfields], [name |-> R, fields |-> rfields]>>]

\* 1 is the first version; 2 renames a field, retires one, adds a vector of
\* capsules and a field with a default; 3 changes the width of a field whose
\* literal is tagged, and adds floats; 4 changes that of one whose literal is
\* not, and has strings in its subcapsules only; 5 is written by hand, since the
\* encoder has vectors of primitives and the generator does not.
MCVersions ==
    <<File(<<Plain1(<<"u16">>, <<"k">>), Plain1(<<"string">>, <<"t">>)>>,
           <<Plain1(<<"u8">>, <<"m">>), Plain1(<<"u64">>, <<"w">>), Plain1(<<"string">>, <<"s">>),
             Plain1(<<"vector", "string">>, <<"v">>), Plain1(P, <<"p">>)>>),
      File(<<Plain1(<<"string">>, <<"t">>), With(<<"u8">>, <<"e">>, "default", <<7>>)>>,
           <<With(<<"u8">>, <<"q">>, "formerly", <<"m">>), With(<<"u64">>, <<"w">>, "retired", <<>>),
             Plain1(P, <<"p">>), Plain1(<<"vector", "P">>, <<"y">>)>>),
      File(<<Plain1(<<"string">>, <<"t">>)>>,
           <<Plain1(<<"u16">>, <<"m">>), Plain1(<<"string">>, <<"s">>),
             Plain1(<<"f32">>, <<"f">>), Plain1(<<"f64">>, <<"g">>)>>),
      File(<<Plain1(<<"string">>, <<"t">>), Plain1(<<"bool">>, <<"b">>)>>,
           <<Plain1(<<"u32">>, <<"w">>), Plain1(P, <<"p">>), Plain1(<<"vector", "P">>, <<"y">>)>>),
      File(<<Plain1(<<"string">>, <<"t">>)>>,
           <<Plain1(<<"vector", "u32">>, <<"z">>), Plain1(<<"u8">>, <<"m">>)>>)>>

Str(n) == [len |-> n, data |-> [i \in 1..((n + 3) \div 4) |-> Word(64 + i)]]

Odd == [len |-> 4, data |-> <<Escaped>>]

Obj(vals) == [val |-> vals, has |-> {}, sized |-> FALSE]

P1(k, t) == Obj((<<"k">> :> k) @@ (<<"t">> :> t))
P2(t, e) == Obj((<<"t">> :> t) @@ (<<"e">> :> e))
P4(t, b) == Obj((<<"t">> :> t) @@ (<<"b">> :> b))

MCSamples ==
    <<{Obj((<<"m">> :> 49) @@ (<<"w">> :> <<1, 2>>) @@ (<<"s">> :> s) @@ (<<"v">> :> v)
              @@ (<<"p">> :> P1(3, s))) :
           s \in {Str(0), Str(4), Str(5), Odd}, v \in {<<>>, <<Str(5)>>, <<Str(4), Str(0)>>}},
      {Obj((<<"q">> :> 5) @@ (<<"p">> :> P2(s, 9)) @@ (<<"y">> :> y)) :
           s \in {Str(0), Str(5)}, y \in {<<>>, <<P2(Str(4), 1)>>, <<P2(Str(1), 48), P2(Str(9), 2)>>}},
      {Obj((<<"m">> :> 6) @@ (<<"s">> :> s) @@ (<<"f">> :> f) @@ (<<"g">> :> <<1500, f % 7>>)) :
           s \in {Str(0), Str(8)}, f \in {1500, 1234567, 1234567000}},
      {Obj((<<"w">> :> w) @@ (<<"p">> :> P4(Str(5), 1)) @@ (<<"y">> :> y)) :
           w \in {4, 8}, y \in {<<>>, <<P4(Str(0), 0)>>}},
      {Obj((<<"z">> :> z) @@ (<<"m">> :> 49)) : z \in {<<>>, <<1>>, <<1, 2>>}}>>

vars == <<compilerVars, capsuleVars, focus>>

Init ==
    /\ focus \in {"compiler", "api"}
    /\ CompilerInit /\ CapsuleInit
    /\ focus = "compiler" => writer = 1 /\ reader = 1

Next ==
    \/ focus = "compiler" /\ CompilerNext /\ UNCHANGED <<capsuleVars, focus>>
    \/ focus = "api" /\ CapsuleNext /\ UNCHANGED <<compilerVars, focus>>

Spec == Init /\ [][Next]_vars
=============================================================================
