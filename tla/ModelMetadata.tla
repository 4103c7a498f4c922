---------------------------- MODULE ModelMetadata ----------------------------
(***************************************************************************)
(* loadModelMetadata: one document about the models of several providers,  *)
(* cached in the process and fetched by whoever finds it old. The lock of  *)
(* the cache is not held while a document is fetched: a fetch that fails   *)
(* writes back the entry its load had read.                                *)
(***************************************************************************)
EXTENDS Naturals

CONSTANTS
    Callers,
    Docs,           \* the documents that may be published: the providers each covers
    TTL, RetryAfter,
    Horizon,        \* bound: the time that passes
    None

MetadataAssumption ==
    TTL \in Nat /\ RetryAfter \in Nat /\ Horizon \in Nat /\ None \notin Docs

VARIABLES
    cache,      \* the entry of the document's URL
    lookup,     \* lookup[c]: the load a caller makes
    now

Entry == [doc : Docs \cup {None}, fetched : 0..Horizon, failed : (0..Horizon) \cup {None}]
NoEntry == [doc |-> None, fetched |-> 0, failed |-> None]

MetadataType ==
    /\ cache \in Entry
    /\ lookup \in [Callers -> [pc : {"idle", "fetch", "done"}, held : Entry,
                               doc : Docs \cup {None}]]
    /\ now \in 0..Horizon

MetadataInit ==
    /\ cache = NoEntry /\ now = 0
    /\ lookup = [c \in Callers |-> [pc |-> "idle", held |-> NoEntry, doc |-> None]]

Answers(c, doc) ==
    lookup' = [lookup EXCEPT ![c] = [pc |-> "done", held |-> NoEntry, doc |-> doc]]

(* The entry is read under the lock and judged after it. *)
Load(c, disabled) ==
    LET fresh    == cache.doc # None /\ now - cache.fetched < TTL
        remember == cache.failed # None /\ now - cache.failed < RetryAfter
    IN  CASE disabled -> Answers(c, None)
          [] ~disabled /\ (fresh \/ remember) -> Answers(c, cache.doc)
          [] OTHER -> lookup' = [lookup EXCEPT ![c].pc = "fetch", ![c].held = cache]

Fetched(c) ==
    /\ lookup[c].pc = "fetch"
    /\ \E doc \in Docs :
          /\ cache' = [doc |-> doc, fetched |-> now, failed |-> None]
          /\ Answers(c, doc)
    /\ UNCHANGED now

(* No answer, another status, no document, or the caller's own deadline. *)
FetchFails(c) ==
    /\ lookup[c].pc = "fetch"
    /\ cache' = [lookup[c].held EXCEPT !.failed = now]
    /\ Answers(c, lookup[c].held.doc)
    /\ UNCHANGED now

Taken(c) == lookup' = [lookup EXCEPT ![c].pc = "idle", ![c].doc = None]

Tick ==
    /\ now < Horizon /\ now' = now + 1
    /\ UNCHANGED <<cache, lookup>>
=============================================================================
