-------------------------- MODULE MCProviderRouting --------------------------
(* Instances of ProviderRouting for TLC: a local and a remote provider. *)
EXTENDS ProviderRouting, TLC

MCModelIds == <<"large", "small">>
Caps(id, json) == [id |-> id, json |-> json]
Shape(local, enabled, usable, models) ==
    [enabled |-> enabled, usable |-> usable, local |-> local, attempts |-> 2, models |-> models]

\* A local provider with one model for text; remote ones with JSON, disabled or
\* without a key; one with a model for text before one for JSON.
MCShapes == {Shape(TRUE, TRUE, TRUE, <<Caps("small", FALSE)>>),
             Shape(FALSE, TRUE, TRUE, <<Caps("small", TRUE)>>),
             Shape(FALSE, FALSE, TRUE, <<Caps("small", TRUE)>>),
             Shape(FALSE, TRUE, FALSE, <<Caps("small", TRUE)>>),
             Shape(TRUE, TRUE, TRUE, <<Caps("small", FALSE), Caps("large", TRUE)>>)}

Policy(refuses, local) == [refuses |-> refuses, local |-> local, matureLocal |-> TRUE]
Rule(primary, fallback, json, local, policy) ==
    [primary |-> primary, fallback |-> fallback, json |-> json, local |-> local, policy |-> policy]
MCRules == {Rule(<<"p1", "small">>, <<"p2", "small">>, TRUE, FALSE, Policy({"sensitive"}, local)) :
               local \in BOOLEAN}
           \cup {Rule(<<"p1", "large">>, NoTarget, TRUE, TRUE, Policy({}, FALSE)),
                 Rule(<<"p2", "small">>, <<"p1", "large">>, FALSE, FALSE, Policy({"mature"}, FALSE))}

Context(use, content, allowed, local) ==
    [use |-> use, content |-> content, allowed |-> allowed, local |-> local, override |-> FALSE]
MCContexts == {Context("draft", "plain", FALSE, FALSE), Context("draft", "sensitive", FALSE, FALSE),
               Context("draft", "mature", FALSE, FALSE), Context("draft", "mature", TRUE, FALSE),
               Context("structured", "plain", FALSE, FALSE), Context("draft", "plain", FALSE, TRUE)}
MCFetched == {<<>>, <<Caps("large", TRUE)>>, <<Caps("small", TRUE), Caps("large", FALSE)>>}
MCDefaults == [p \in Profiles |-> IF p = "p1" THEN Shape(TRUE, TRUE, TRUE, <<Caps("small", TRUE)>>)
                                              ELSE NoProfile]

WorkerSymmetry == Permutations(Workers)
=============================================================================
