----------------------------- MODULE MCCommands -----------------------------
(***************************************************************************)
(* Instances of Commands for TLC.                                          *)
(***************************************************************************)
EXTENDS Commands

Names4 == {"a", "b", "c", "d"}
Row4(a, b, c, d) == ("a" :> a) @@ ("b" :> b) @@ ("c" :> c) @@ ("d" :> d)

\* ---- Book: a name falls out of the ranking, the order turns over, nothing scores
Rankings4 == {<<>>, <<"a", "b", "c", "d">>, <<"d", "b", "a">>}
Closes4 == {Row4(2, 2, 2, 2), Row4(1, 3, 2, 4)}
Known4 == {Names4, Names4 \ {"b"}}
Marked4 == {{}, {"a"}}
Gapped4 == {{}, {"b"}}
Sleeve4 == {{}, {"d"}}
Leaning4 == {Row4(1, 2, 3, 1)}
Governor4 == {<<1, 2>>, <<3, 1>>}
Sectors4 == {{"a", "b"}, {"c", "d"}}
Limits4 == [name |-> <<1, 2>>, gross |-> <<1, 1>>, net |-> <<1, 4>>, sector |-> <<1, 2>>]
RawBooks4 == [n : [Names4 -> {-8, -3, 0, 5, 9}], d : {10}]
Half == <<1, 2>>
OneAndHalf == <<3, 2>>
NoBand == <<0, 1>>

\* ---- Learning: a gap in the feed, closes that turn, a session bar unlike its close
Pair == {"a", "b"}
Closes2 == [b \in Pair \X (1 .. 4) |->
              IF b[1] = "a" THEN <<2, 3, 2, 3>>[b[2]] ELSE <<4, 3, 4, 2>>[b[2]]]
Forming2 == [b \in Pair \X (1 .. 4) |-> IF b[2] % 2 = 0 THEN 5 ELSE 1]
Absent2 == {<<"b", 2>>}

\* ---- Backtest: a weekend, a name listed late, scores that turn, short and are missing
Dates6 == <<1, 2, 5, 6, 7, 8>>
Listed4 == Row4(1, 1, 1, 3)
Signals4 == {Row4(2, 0, -1, 2), "a" :> -1 @@ "d" :> 3, << >>}
Even4 == Row4(1, 2, 3, 1)

\* ---- Validation: a holiday on either side of a weekend, on both, or none
Holidays3 == {{}, {9}, {10}, {12}, {15}, {12, 15}}

\* ---- Studies: clusters that grow and fade, two names of one kind, a name that missed a row
\* one of the purchases was disclosed late
Buy(w, t) == [who |-> w, kind |-> "purchase", at |-> t, done |-> IF t = 12 THEN 5 ELSE t - 1]
Histories ==
  {{Buy("x", t) : t \in X} \cup {Buy("y", t) : t \in Y} \cup L :
     X \in {T \in SUBSET {9, 10, 12, 15} : Cardinality(T) \in {0, 3}},
     Y \in {{}, {12, 14, 15, 16}},
     L \in {{}, [who : {"x", "y"}, kind : {"leader"}, done : {7}, at : {11}]}}
Missed == {<<"y", 3>>}
Third == <<1, 3>>

\* ---- Factory
TwoNames == <<"p", "q">>
=============================================================================
