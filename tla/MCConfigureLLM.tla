--------------------------- MODULE MCConfigureLLM ---------------------------
(* Four providers, three ids of which two differ only in case, and the      *)
(* options a consumer may run the wizard with.                              *)
EXTENDS ConfigureLLM

SomeIds == {"a", "A", "b"}
LowerOf == [m \in SomeIds |-> IF m = "A" THEN "a" ELSE m]
OrderOf == [m \in SomeIds |-> CASE m = "A" -> 1 [] m = "a" -> 2 [] m = "b" -> 3]

Plain == [text |-> TRUE, tools |-> TRUE, trains |-> FALSE, price |-> 1, speed |-> 1,
          latency |-> 1, live |-> TRUE, priority |-> 1, listed |-> TRUE, covered |-> TRUE,
          reasoning |-> TRUE, cost |-> 2, age |-> 3, context |-> 0, status |-> "",
          expiry |-> None, unstable |-> FALSE, bench |-> None, preferred |-> None,
          small |-> FALSE, group |-> "g"]
FactsOf == [m \in SomeIds |-> IF m = "b" THEN [Plain EXCEPT !.cost = 1, !.group = "h"] ELSE Plain]

StaticOf == [q \in ToSet(Menu) |-> CASE q = "openai" -> <<"a", "b">> [] q = "kilo" -> <<"b">>
                                     [] q = "ollama" -> <<>> [] OTHER -> <<"b">>]
UsableOf == [q \in ToSet(Menu) |-> SomeIds]
RankOf   == [m \in SomeIds |-> IF m = "b" THEN 2 ELSE 1]
ScoreOf  == [q \in {"a", "z"} |-> [m \in SomeIds |-> IF q = "a" /\ LowerOf[m] = "a" THEN 1 ELSE 0]]

Lists(ids) == [ok |-> TRUE, ids |-> ids]
Down == [ok |-> FALSE, ids |-> <<>>]
AnswersOf == [q \in ToSet(Menu) |->
    CASE q = "kilo" -> {Lists(<<"a", "A", "b">>), Down}
      [] q = "ollama" -> {Lists(<<"a", "A">>), Down}
      [] q = "openai" -> {Lists(<<"A">>), Lists(<<>>), Down}
      [] q \in {"gemini", "claude"} ->
             {<<[ok |-> TRUE, ids |-> <<"a">>, more |-> FALSE, cursor |-> FALSE]>>}
      [] OTHER -> {Lists(<<"a">>), Down}]

SomePicks == {<<1>>, <<2, 1>>, <<1, 2, 2>>, <<9>>}

Base == [providers |-> {"kilo"},
         existing |-> [provider |-> None, session |-> None, key |-> FALSE, model |-> None],
         env |-> FALSE, discover |-> TRUE, fallbacks |-> TRUE, capable |-> FALSE,
         store |-> TRUE, orchestrated |-> FALSE, piped |-> FALSE,
         patience |-> 1, uses |-> {"api_key"}, tries |-> 1]
OpenAI == [Base EXCEPT !.providers = {"openai"}]
Has(provider, session, key) ==
    [Base.existing EXCEPT !.provider = provider, !.session = session, !.key = key, !.model = "b"]
Rotating == [refresh |-> TRUE, timeless |-> FALSE, gen |-> 0]
Stale    == [refresh |-> FALSE, timeless |-> FALSE, gen |-> 0]

SomeRuns ==
    {[Base EXCEPT !.orchestrated = TRUE], [Base EXCEPT !.providers = {"unknown"}],
     [Base EXCEPT !.env = TRUE, !.piped = TRUE, !.existing = Has("kilo", None, TRUE)],
     [Base EXCEPT !.capable = TRUE],
     [Base EXCEPT !.providers = {"ollama"}, !.discover = FALSE],
     [Base EXCEPT !.providers = {"ollama", "kilo"}],
     [OpenAI EXCEPT !.uses = {"api_key", "device", "stdin", "vendor"}],
     [OpenAI EXCEPT !.uses = {"api_key", "browser"}, !.tries = 2, !.patience = 0,
                    !.discover = FALSE, !.fallbacks = FALSE],
     [OpenAI EXCEPT !.uses = {"api_key", "browser", "device", "stdin"}, !.store = FALSE,
                    !.piped = TRUE, !.fallbacks = FALSE],
     [OpenAI EXCEPT !.uses = {"api_key", "browser"}, !.existing = Has("openai", Stale, FALSE),
                    !.piped = TRUE, !.fallbacks = FALSE],
     [OpenAI EXCEPT !.providers = {"grok"}, !.uses = {"api_key", "browser", "device"},
                    !.existing = Has("grok", Rotating, FALSE), !.fallbacks = FALSE]}

PipedOllama == {[Base EXCEPT !.providers = {"ollama"}, !.piped = TRUE]}
=============================================================================
