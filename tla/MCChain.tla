------------------------------ MODULE MCChain ------------------------------
EXTENDS Chain

MCFamilies == <<"ADD", "JUMP", "INIT_TEARDOWN", "ZERO_WINDOWS", "PUBLIC_INPUT",
                "PUBLIC_OUTPUT", "ADVICE_WINDOWS">>
MCPublicAt == [f \in {"PUBLIC_INPUT", "PUBLIC_OUTPUT"} |->
                   IF f = "PUBLIC_INPUT" THEN 1 ELSE 2]

\* Heights that agree and that do not; window lists that repeat, descend or
\* leave the grid; counts a prover could drop or double.
MCHeights ==
    {[f \in WindowFamilies \cup PublicFamilies |->
        CASE f = "INIT_TEARDOWN" -> h[1] [] f = "ZERO_WINDOWS" -> h[2]
          [] f = "ADVICE_WINDOWS" -> h[3] [] OTHER -> 1] :
     h \in {2, 4, 8} \X {4, 8} \X {4, 8}}
MCWindows == {<<>>, <<0>>, <<1>>, <<3>>, <<4>>, <<1, 2>>, <<1, 1>>, <<2, 1>>, <<1, 3>>, <<3, 4>>}
MCCounts ==
    {[f \in ToSet(MCFamilies) |->
        CASE f = "ADD" -> n.add [] f = "JUMP" -> n.jump [] f = "INIT_TEARDOWN" -> n.init
          [] f = "ZERO_WINDOWS" -> n.zero [] f = "PUBLIC_INPUT" -> n.public
          [] f = "PUBLIC_OUTPUT" -> 1 [] f = "ADVICE_WINDOWS" -> n.advice] :
     n \in [add : {0, 1}, jump : {0, 1}, init : {1}, zero : 0..2, public : {1}, advice : {0, 4, 5}]
           \cup [add : {1}, jump : {0}, init : {0, 2}, zero : {0}, public : {0, 1, 2}, advice : {0}]}
MCShapes ==
    {[heights |-> h, counts |-> n, windows |-> w] :
        h \in MCHeights, n \in MCCounts, w \in MCWindows}
=============================================================================
