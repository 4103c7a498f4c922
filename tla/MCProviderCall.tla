--------------------------- MODULE MCProviderCall ---------------------------
(* Two callers of one process and five models, of which two differ only in  *)
(* case, one is outdated, one too small and one left out of utility lists.  *)
EXTENDS ProviderCall

SomeIds == {"a", "A", "b", "old", "auto"}
LowerOf == [m \in SomeIds |-> IF m = "A" THEN "a" ELSE m]
OrderOf == [m \in SomeIds |-> CASE m = "A" -> 1 [] m = "a" -> 2 [] m = "auto" -> 3 [] m = "b" -> 4
                           [] m = "old" -> 5]

Plain5 == [text |-> TRUE, tools |-> TRUE, trains |-> FALSE, price |-> 1, speed |-> 1,
           latency |-> 1, live |-> TRUE, priority |-> 1, listed |-> TRUE, covered |-> TRUE,
           reasoning |-> TRUE, cost |-> 2, age |-> 3, context |-> 0, status |-> "",
           expiry |-> None, unstable |-> FALSE, bench |-> None, preferred |-> None,
           small |-> FALSE, group |-> "g"]
FactsOf == [m \in SomeIds |->
    CASE m = "b" -> [Plain5 EXCEPT !.bench = 4, !.small = TRUE, !.speed = 3, !.priority = 0]
      [] m = "old" -> [Plain5 EXCEPT !.age = 20, !.group = "h", !.latency = 0, !.price = -1]
      [] m = "auto" -> [Plain5 EXCEPT !.covered = FALSE, !.listed = FALSE, !.group = "i",
                                      !.expiry = 9]
      [] OTHER -> Plain5]

Providers == {"gemini", "openai", "claude", "grok", "opencode", "opencode-go", "huggingface",
              "kilo", "ollama"}
StaticOf == [q \in Providers |-> IF q = "ollama" THEN <<>> ELSE <<"A", "b", "old">>]
UsableOf == [q \in Providers |-> IF q = "huggingface" THEN SomeIds \ {"auto"} ELSE SomeIds]
RankOf   == [m \in SomeIds |-> CASE m = "b" -> 3 [] m = "old" -> 0 [] OTHER -> 1]
ScoreOf  == [q \in {"a"} |-> [m \in SomeIds |-> 0]]

Lists(ids) == [ok |-> TRUE, ids |-> ids]
Down == [ok |-> FALSE, ids |-> <<>>]
PageOf(ids, more) == [ok |-> TRUE, ids |-> ids, more |-> more, cursor |-> TRUE]

Sequences5 == {Lists(<<>>), Down, Lists(<<"auto">>), Lists(<<"old", "a", "A", "b", "auto">>),
               Lists(<<"b", "a", "b", "old">>)}
ListingsOf == [q \in Providers |->
    CASE q \in {"gemini", "claude"} ->
           {<<PageOf(<<"old", "a">>, TRUE), PageOf(<<"b">>, FALSE)>>, <<PageOf(<<"auto">>, TRUE)>>,
            <<PageOf(<<"a", "A">>, FALSE)>>, <<[PageOf(<<>>, FALSE) EXCEPT !.ok = FALSE]>>,
            <<[PageOf(<<"b">>, TRUE) EXCEPT !.cursor = FALSE], PageOf(<<"b">>, FALSE)>>}
      [] q = "ollama" -> {Lists(<<>>), Down, Lists(<<"a", "b">>)}
      [] OTHER -> Sequences5]

Says(status) == [status |-> status, body |-> "whole", type |-> "none", after |-> 0,
                 resets |-> 0, never |-> FALSE]
SomeReplies ==
    {Says(s) : s \in {200, 401, 403, 408, 429, 503, 525, 0}}
    \cup {[Says(200) EXCEPT !.body = "incomplete"], [Says(200) EXCEPT !.body = "cut"],
          [Says(429) EXCEPT !.after = 3], [Says(429) EXCEPT !.after = 9],
          [Says(429) EXCEPT !.type = "quota", !.resets = 3],
          [Says(429) EXCEPT !.type = "quota"],
          [Says(503) EXCEPT !.never = TRUE], [Says(500) EXCEPT !.type = "forbidden"],
          [Says(400) EXCEPT !.type = "invalid"]}
    \cup {[Says(200) EXCEPT !.body = "failed", !.type = t] :
              t \in {"none", "quota", "rate", "context"}}

Gen(provider, credential, retries) ==
    [kind |-> "generate", provider |-> provider, credential |-> credential, retries |-> retries,
     delay |-> 5, pinned |-> FALSE, looks |-> 2, metadata |-> TRUE, profile |-> "utility"]
Discover(provider, credential, profile) ==
    [Gen(provider, credential, 0) EXCEPT !.kind = "discover", !.profile = profile]

Pair(t, u) == [c \in Callers |-> IF c = 1 THEN t ELSE u]
SomeTasks ==
    {Pair(Gen("openai", "oauth", 1), Discover("openai", "vendor", "utility")),
     Pair(Gen("kilo", "key", 2), Discover("kilo", "key", "utility")),
     Pair(Gen("claude", "key", 4), Discover("kilo", "key", "capable")),
     Pair(Gen("opencode", "key", 0), Discover("opencode", "key", "utility")),
     Pair([Gen("opencode-go", "key", 1) EXCEPT !.pinned = TRUE],
          Discover("opencode-go", "key", "capable")),
     Pair([Discover("huggingface", "key", "utility") EXCEPT !.metadata = FALSE],
          Discover("huggingface", "key", "capable")),
     Pair(Discover("gemini", "key", "utility"), Discover("ollama", "key", "utility")),
     Pair(Discover("openai", "key", "utility"), Discover("claude", "key", "utility")),
     Pair(Gen("grok", "vendor", 1), Discover("grok", "oauth", "utility"))}

SomeDocs == {{"opencode", "huggingface"}, {"opencode-go"}}
=============================================================================
