--------------------------- MODULE DetectionCache ---------------------------
(***************************************************************************)
(* The gateway's detection cache (gateway/cache.py): worker threads answer *)
(* detect_many from one bounded LRU that no lock protects.  Each access to *)
(* the OrderedDict and to the fingerprint is a step; between the steps of  *)
(* one thread another may insert, touch or evict.                          *)
(*                                                                         *)
(* Spans are offsets into their block: the spans of a block are modelled   *)
(* as that block.  The hit and miss counters are left out.                 *)
(***************************************************************************)
EXTENDS Naturals, Sequences, FiniteSets, Functions, SequencesExt

CONSTANTS
  Thread, Block,
  None,      \* no block
  Capacity   \* how many entries the cache keeps, at least one

Fingerprint == {"", "digest"}
Key == Fingerprint \X Block

Unknown == [looked |-> FALSE, spans |-> {}]

VARIABLES
  entries,      \* the OrderedDict: <<key, spans>> from the oldest to the newest
  catalogueSet, \* has self._catalogue been assigned?
  fingerprint,  \* self._fingerprint
  pc,
  texts,        \* the request's blocks
  mine,         \* the fingerprint the call read
  known,        \* the call's `known`: looked up or not, and {} or {spans}
  at,           \* the block at hand
  held          \* the spans at hand: an entry just read, or just found

shared == <<entries, catalogueSet, fingerprint>>
locals == <<texts, mine, known, at, held>>
cacheVars == <<shared, pc, locals>>

CacheInit ==
  /\ entries = << >> /\ catalogueSet = FALSE /\ fingerprint = ""
  /\ pc = [t \in Thread |-> "idle"]
  /\ texts = [t \in Thread |-> << >>]
  /\ mine = [t \in Thread |-> ""]
  /\ known = [t \in Thread |-> [b \in Block |-> Unknown]]
  /\ at = [t \in Thread |-> None] /\ held = [t \in Thread |-> None]

-----------------------------------------------------------------------------
(* The OrderedDict.                                                        *)

KeyOf(t, b) == <<mine[t], b>>
Has(k) == \E i \in DOMAIN entries : entries[i][1] = k

\* A key stands once in the order of a dictionary.
PlaceOf(k) == CHOOSE i \in DOMAIN entries : entries[i][1] = k
SpansAt(k) == entries[PlaceOf(k)][2]
MovedToEnd(k) == Append(RemoveAt(entries, PlaceOf(k)), <<k, SpansAt(k)>>)

\* Assignment: in place under a key that is there, at the end otherwise.
Assigned(k, spans) ==
  IF Has(k)
  THEN [i \in DOMAIN entries |-> IF entries[i][1] = k THEN <<k, spans>> ELSE entries[i]]
  ELSE Append(entries, <<k, spans>>)

Goto(t, label) == pc' = [pc EXCEPT ![t] = label]

\* The call's locals are gone when it ends.
End(t) ==
  /\ Goto(t, "idle")
  /\ texts' = [texts EXCEPT ![t] = << >>]
  /\ mine' = [mine EXCEPT ![t] = ""]
  /\ known' = [known EXCEPT ![t] = [b \in Block |-> Unknown]]
  /\ at' = [at EXCEPT ![t] = None] /\ held' = [held EXCEPT ![t] = None]
  /\ UNCHANGED shared

\* A KeyError leaves detect_many, and the request ends with it: nothing is
\* forwarded.
KeyErrorIn(t) == End(t)

-----------------------------------------------------------------------------
(* _current_fingerprint: the catalogue is remembered before its digest is. *)

\* A call that finds it remembered reads the fingerprint, whatever it is by then.
BeginCall(t, request) ==
  /\ pc[t] = "idle"
  /\ texts' = [texts EXCEPT ![t] = request]
  /\ \/ catalogueSet /\ mine' = [mine EXCEPT ![t] = fingerprint] /\ Goto(t, "lookup")
     \/ ~catalogueSet /\ Goto(t, "remember") /\ UNCHANGED mine
  /\ UNCHANGED <<shared, known, at, held>>

RememberCatalogue(t) ==
  /\ pc[t] = "remember"
  /\ catalogueSet' = TRUE
  /\ Goto(t, "digest")
  /\ UNCHANGED <<entries, fingerprint, locals>>

DigestCatalogue(t) ==
  /\ pc[t] = "digest"
  /\ fingerprint' = "digest"
  /\ mine' = [mine EXCEPT ![t] = "digest"]
  /\ Goto(t, "lookup")
  /\ UNCHANGED <<entries, catalogueSet, texts, known, at, held>>

-----------------------------------------------------------------------------
(* get                                                                     *)

ToLookUp(t) == {i \in DOMAIN texts[t] : ~known[t][texts[t][i]].looked}
Missing(t) == {b \in ToSet(texts[t]) : known[t][b].spans = {}}

Learn(t, b, spans) == known' = [known EXCEPT ![t][b] = [looked |-> TRUE, spans |-> spans]]

LookUp(t) ==
  /\ pc[t] = "lookup" /\ ToLookUp(t) # {}
  /\ LET b == texts[t][Min(ToLookUp(t))] IN
       \/ /\ Has(KeyOf(t, b))
          /\ at' = [at EXCEPT ![t] = b]
          /\ held' = [held EXCEPT ![t] = SpansAt(KeyOf(t, b))]
          /\ Goto(t, "touch")
          /\ UNCHANGED known
       \/ /\ ~Has(KeyOf(t, b))
          /\ Learn(t, b, {})
          /\ UNCHANGED <<pc, at, held>>
  /\ UNCHANGED <<shared, texts, mine>>

Touch(t) ==
  /\ pc[t] = "touch"
  /\ LET k == KeyOf(t, at[t]) IN
       \/ ~Has(k) /\ KeyErrorIn(t)
       \/ /\ Has(k)
          /\ entries' = MovedToEnd(k)
          /\ Learn(t, at[t], {held[t]})
          /\ at' = [at EXCEPT ![t] = None] /\ held' = [held EXCEPT ![t] = None]
          /\ Goto(t, "lookup")
          /\ UNCHANGED <<catalogueSet, fingerprint, texts, mine>>

-----------------------------------------------------------------------------
(* The detector, for the blocks that missed, and put for each of them.     *)

Detect(t) ==
  /\ pc[t] = "lookup" /\ ToLookUp(t) = {} /\ Missing(t) # {}
  /\ \/ End(t)
     \/ Goto(t, "put") /\ UNCHANGED <<shared, locals>>

Insert(t) ==
  /\ pc[t] = "put"
  /\ \E b \in Missing(t) :
       /\ entries' = Assigned(KeyOf(t, b), b)
       /\ at' = [at EXCEPT ![t] = b]
       /\ held' = [held EXCEPT ![t] = b]
  /\ Goto(t, "move")
  /\ UNCHANGED <<catalogueSet, fingerprint, texts, mine, known>>

MoveToEnd(t) ==
  /\ pc[t] = "move"
  /\ LET k == KeyOf(t, at[t]) IN
       \/ ~Has(k) /\ KeyErrorIn(t)
       \/ /\ Has(k)
          /\ entries' = MovedToEnd(k)
          /\ Goto(t, "trim")
          /\ UNCHANGED <<catalogueSet, fingerprint, locals>>

MutantTrimsAtCapacity(t) ==
  /\ pc[t] = "trim"
  /\ Len(entries) <= Capacity + 1
  /\ Learn(t, at[t], {held[t]})
  /\ at' = [at EXCEPT ![t] = None] /\ held' = [held EXCEPT ![t] = None]
  /\ Goto(t, IF Missing(t) = {at[t]} THEN "lookup" ELSE "put")
  /\ UNCHANGED <<shared, texts, mine>>

ShortEnough(t) ==
  /\ pc[t] = "trim" /\ Len(entries) <= Capacity
  /\ Learn(t, at[t], {held[t]})
  /\ at' = [at EXCEPT ![t] = None] /\ held' = [held EXCEPT ![t] = None]
  /\ Goto(t, IF Missing(t) = {at[t]} THEN "lookup" ELSE "put")
  /\ UNCHANGED <<shared, texts, mine>>

TooLong(t) ==
  /\ pc[t] = "trim" /\ Len(entries) > Capacity
  /\ Goto(t, "pop")
  /\ UNCHANGED <<shared, locals>>

PopOldest(t) ==
  /\ pc[t] = "pop"
  /\ \/ entries = << >> /\ KeyErrorIn(t)
     \/ /\ entries # << >>
        /\ entries' = Tail(entries)
        /\ Goto(t, "trim")
        /\ UNCHANGED <<catalogueSet, fingerprint, locals>>

Ready(t) == pc[t] = "lookup" /\ ToLookUp(t) = {} /\ Missing(t) = {}

\* In the caller's order, a repeated block as often as it came.
Answer(t) == [i \in DOMAIN texts[t] |-> known[t][texts[t][i]].spans]

Return(t) == Ready(t) /\ End(t)

\* One access of a call under way; the call is over when pc[t] is "idle" again.
Step(t) ==
  \/ RememberCatalogue(t) \/ DigestCatalogue(t) \/ LookUp(t) \/ Touch(t) \/ Detect(t)
  \/ Insert(t) \/ MoveToEnd(t) \/ ShortEnough(t) \/ TooLong(t) \/ PopOldest(t)

\* The cache by itself, for calls with any blocks.
CacheNext ==
  \E t \in Thread :
    Step(t) \/ Return(t) \/ \E request \in Seq(Block) : BeginCall(t, request)
CacheSpec == CacheInit /\ [][CacheNext]_cacheVars

-----------------------------------------------------------------------------
\* The cache outgrows its capacity only by the entries being put, so it is within
\* it whenever no thread is in put, those that failed there included.
Putting == {t \in Thread : pc[t] \in {"move", "trim", "pop"}}
WithinCapacity == Len(entries) <= Capacity + Cardinality(Putting)

\* What a call returns for a block are the spans of that block, whoever touches,
\* replaces or evicts the entry between its steps.
AnswersAreTheirOwn ==
  \A t \in Thread : Ready(t) => \A i \in DOMAIN texts[t] : Answer(t)[i] = {texts[t][i]}
=============================================================================
