--------------------------- MODULE MCTypedTopic ---------------------------
(***************************************************************************)
(* Pairs of definitions on which the packers' ways part: the same on both  *)
(* sides, two versions of a package, files the generator does not get      *)
(* through. A word has two bytes of three values, so that what is read     *)
(* where a length is expected may be negative.                             *)
(***************************************************************************)
EXTENDS TypedTopic

Written(kind, type, dims, name) ==
  [kind |-> kind, type |-> type, dims |-> dims, here |-> TRUE, name |-> name]
One(type, name) == Written("field", type, None, name)
Many(type, name) == Written("field", type, Vector, name)
Fixed(type, n, name) == Written("field", type, n, name)
Const(name) == Written("const", "uint8", None, name)
Elsewhere(type, name) == [One(type, name) EXCEPT !.here = FALSE]
Bad == Written("bad", "uint8", None, "x")

Only(lines) == "Top" :> lines
With(lines, pose) == ("Top" :> lines) @@ ("Pose" :> pose)
Letter(lines, p) == ("Top" :> lines) @@ ("P" :> p)

Case(pub, sub, messages) ==
  [tree |-> ("pub" :> pub) @@ ("sub" :> sub), messages |-> messages]
Both(tree, messages) == Case(tree, tree, messages)

Plain == Only(<<Const("MAX"), One("string", "s"), Many("uint8", "b"), One("uint32", "n")>>)
Timed == Only(<<One("time", "t"), Fixed("uint8", 2, "y"), One("uint8", "u")>>)
Listed == With(<<Many("Pose", "p"), One("time", "t")>>, <<One("uint8", "x"), One("uint32", "n")>>)
Single == With(<<One("Pose", "p"), One("time", "t")>>, <<One("uint8", "x"), One("uint32", "n")>>)
Lettered == Letter(<<One("P", "p"), One("uint32", "n")>>, <<One("uint8", "x")>>)
Texts == Only(<<One("string", "s"), One("uint32", "n")>>)
Numbers == Only(<<One("uint32", "n"), One("string", "s")>>)
Pairs == Only(<<One("uint32", "n"), Fixed("uint8", 2, "y")>>)
Triples == Only(<<One("uint32", "n"), Fixed("uint8", 3, "y")>>)
Reals ==
  Only(<<One("float64", "d"), Fixed("float32", 2, "f"), One("string", "s"), One("int64", "i")>>)
Unnamed == Only(<<One("int64", "n")>>)
Named == Only(<<One("string", "n")>>)
Broken == With(<<One("uint32", "n")>>, <<Bad>>)
Circular == With(<<One("uint32", "n")>>, <<One("Pose", "p")>>)
Dangling == With(<<One("uint32", "n")>>, <<Elsewhere("P", "p")>>)
Headless == Only(<<One("Pose", "p"), One("uint32", "n")>>)
Twice == With(<<One("uint32", "n")>>, <<Fixed("P", 2, "p")>>) @@ ("P" :> <<Fixed("uint8", 2, "y")>>)

MCCases ==
  <<Both(Plain, {<< <<1, 0>>, <<1, 1>>, 3>>, << <<2>>, << >>, 8>>}),
    Both(Timed, {<< <<1, 7>>, <<1, 1>>, 1>>, << <<0, 5>>, <<0, 1>>, 2>>}),
    Both(Listed, {<< <<<<1, 4>>, <<1, 0>>>>, <<2, 3>>>>}),
    Case(Listed, Single, {<< << <<1, 4>>, <<1, 0>> >>, <<2, 3>>>>}),
    Both(Lettered, {<< << <<1>>, <<2>> >>, 6>>}),
    Case(Texts, Numbers, {<< <<1, 1>>, 5>>, << <<0>>, 8>>}),
    Case(Numbers, Texts, {<<4, << >> >>, <<8, << >> >>}),
    Case(Numbers, Only(<<One("uint32", "n")>>), {<<4, << >> >>}),
    Case(Pairs, Triples, {<<4, <<1, 2>>>>}),
    Both(Reals, {<<3, <<2, 5>>, <<0, 2, 1>>, 7>>, <<1, <<0, 6>>, <<1, 0>>, 2>>,
                 <<4, <<8, 4>>, << >>, 1>>, <<2, <<2, 2>>, <<0, 1, 1>>, 2>>}),
    Case(Unnamed, Named, {<<0>>}),
    Case(Broken, Circular, {<<4>>}),
    Case(Dangling, Twice, {<<4>>}),
    Case(Headless, Only(<<One("uint32", "n")>>), {<< << >>, 4>>})>>

MCHints == [p \in {"pub", "sub"} |-> <<"share">>]
MCSlots ==
  {<<"pub", ".", "Top">>, <<"pub", "share", "Pose">>, <<"pub", ".", "P">>,
   <<"sub", ".", "Top">>, <<"sub", "share", "Top">>, <<"sub", "share", "Pose">>,
   <<"sub", "share", "P">>, <<"sub", ".", "Srv">>}
\* The byte 0 is a backslash, 1 a digit and 2 a quote. A float prints as half of what
\* its word is, and 8 is nan.
MCDigit == 1 :> 2
MCSixDigits == [v \in 0..7 |-> v \div 2]
MCNearestFloat == [n \in 0..8 |-> IF n <= 3 THEN 2 * n ELSE 7]
MCEscape == (<<0, 2>> :> <<2>>) @@ (<<0, 0>> :> <<0>>) @@ (<<0, 1, 1>> :> <<1>>)
=============================================================================
