------------------------------ MODULE MCUnitTest ------------------------------
(* Small instances of UnitTest for TLC: an int has two bytes and UNITY_INT three. *)
EXTENDS UnitTest

MCPayloads == [node_id : {0, 10, 255}, temperature : {-32768, -256, -1, 0, 255, 2550, 32767},
               battery_level : {0, 95}]

\* Numbers at the ends of every type.
Ends    == {-8388608, -65537, -32768, -129, -128, -1, 0, 9, 10, 127, 128, 255, 256, 65535, 8388607}
Few     == {-8388608, -1, 0, 200, 8388607}
Strings == {Null, <<0>>, <<65, 0>>, <<65, 66, 0>>, <<10, 0>>, <<92, 110, 0>>, <<200, 0>>}
Blocks  == {<<1, 2>>, <<1, 3>>, <<4, 2>>}

Numbers ==
    {AssertEqual(s, e, a) : s \in Styles, e \in Ends, a \in Ends}
      \union {AssertOrder(s, c, e, a) : s \in Styles, c \in Comparisons, e \in Few, a \in Few}
      \union {AssertWithin(s, d, e, a) : s \in Styles, d \in {0, 1, 255}, e \in Few, a \in Few}
      \union {AssertBits(m, e, a) : m \in {-1, 255, 65536}, e \in Few, a \in Few}

Pairs(S) == {<<<<x>>, <<y>>>> : x \in S, y \in S}
NumberArrays ==
    {AssertArray(s, x, y, n) : s \in Styles, x \in Pairs({0, 255}) \union {Null},
                               y \in Pairs({0, 255, 8388608}) \union {Null}, n \in 0..2}
      \union {AssertEach(s, e, y, n) : s \in Styles, e \in {-1, 0}, y \in Pairs({0, 255}), n \in 1..2}
      \union {AssertArrayWithin(s, d, x, y, 2) :
                s \in Styles, d \in {0, 1}, x \in Pairs({0, 255}), y \in Pairs({0, 1, 254})}

Others ==
    {AssertStrings(<<s>>, <<t>>, 1, n) : s \in Strings, t \in Strings, n \in {1, 99}}
      \union {AssertStrings(<<s, s>>, <<s, t>>, n, 99) : s \in Strings, t \in Strings, n \in {0, 2}}
      \union {AssertMemory(IF each THEN <<s>> ELSE <<s, t>>, <<s, u>>, n, k, each) :
                s \in Blocks, t \in Blocks, u \in Blocks, n \in 0..2, k \in 0..2, each \in BOOLEAN}

\* One call; what the calls of a test and of tearDown may come to; and the payload's test.
Good == AssertEqual(Uint8Style, 1, 257)
MCTests ==
    {[body |-> <<c>>, teardown |-> <<>>] : c \in Numbers \union NumberArrays \union Others}
      \union {[body |-> <<c, d>>, teardown |-> <<e, f>>] :
                c \in {Good, TestFail, TestIgnore}, d \in {Good, TestFail, TestIgnore},
                e \in {Good, TestFail, TestIgnore}, f \in {Good, TestFail, TestIgnore}}
      \union {SerializationTest(p) : p \in MCPayloads}
================================================================================
