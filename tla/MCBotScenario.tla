---------------------------- MODULE MCBotScenario ----------------------------
EXTENDS BotScenario
Single(mode, count, msgs, f) ==
    [mode |-> mode, count |-> count, msgs |-> msgs, ratio |-> <<>>, faults |-> f]
Mixed(count, msgs, ratio, f) ==
    [mode |-> "mixed", count |-> count, msgs |-> msgs, ratio |-> ratio, faults |-> f]
Part(type, ratio) == [type |-> type, ratio |-> ratio]

\* scenarios that are run
Runs == {Single("fickle", 3, 1, 0), Single("fickle", 2, 2, 1), Single("fickle", 2, 1, 3),
         Single("fickle", 2, 0, 0), Single("normal", 2, 2, 1), Single("normal", 1, 1, 2),
         Single("normal", 1, 0, 0),
         Single("spammer", 2, 1, 0), Single("other", 1, 1, 0), Mixed(4, 0, None, 1),
         Mixed(3, 1, <<Part("fickle", 2), Part("quitter", 1)>>, 1),
         Mixed(4, 1, <<Part("normal", 1), Part("ghost", 2), Part("fickle", 1)>>, 1),
         Mixed(4, 2, <<Part("normal", 1), Part("ghost", 2), Part("fickle", 1)>>, 0)}
\* ratios that are parsed and allocated only
Small == {1, 2, 5}
Texts == {<<>>, <<Part("ghost", 0)>>, <<Part(Unknown, 1)>>, <<Part("ghost", 16)>>,
          <<Part("normal", 15), Part("ghost", 1)>>, <<Part("normal", 15), Part("ghost", 2)>>}
         \cup {<<Part("normal", a), Part("ghost", b), Part("normal", c)>> : a, b, c \in Small}
Commands == Runs \cup {Mixed(n, 1, t, 0) : n \in {5, 6, 7, 8, 11}, t \in Texts}

TwoFickle == {Single("fickle", 2, 2, 0)}
ThreeFickle == {Single("fickle", 3, 1, 0)}
==============================================================================
