----------------------------- MODULE SecretLog -----------------------------
(***************************************************************************)
(* The secret log filter (app/logging.py): the threads of a gateway enter  *)
(* the values they resolve and restore into one bounded registry, and      *)
(* every line they log is scrubbed of the values that are in it.  Nothing  *)
(* is locked: a step is one operation on the OrderedDict, and threads meet *)
(* between any two.  An iterator over the dictionary raises RuntimeError   *)
(* at its next step once the order has changed, unless it had already come *)
(* to the end.                                                             *)
(*                                                                         *)
(* A value, and a line, is a sequence of words, so that one value can lie  *)
(* within another ("Anna", "Anna Schmidt").                                *)
(***************************************************************************)
EXTENDS Integers, Sequences, SequencesExt, FiniteSets

CONSTANTS
  Caller,       \* the threads that register and log
  Value,        \* values of at least _MIN_SECRET_LEN characters
  Short,        \* shorter ones, and None: register returns at once
  Line,         \* what is logged
  Redacted,     \* REDACTED
  MaxTracked    \* _MAX_TRACKED_SECRETS

ASSUME ValueAssumption ==
  /\ Value \subseteq Seq(UNION {ToSet(v) : v \in Value}) \ {<< >>}
  /\ Value \cap Short = {}
  /\ \A v \in Value : Redacted \notin ToSet(v)  \* none lies within REDACTED
ASSUME LineAssumption == Line \subseteq Seq(UNION {ToSet(l) : l \in Line})
ASSUME TrackedAssumption ==
  IsFiniteSet(Caller) /\ MaxTracked \in Nat /\ MaxTracked > Cardinality(Caller)

VARIABLES
  values,    \* the registry, oldest first
  stage,     \* where each thread is
  value,     \* what it is registering, or
  line,      \* the line it is scrubbing, as far as it got,
  rest,      \* the values its iterator has still to give, and
  stale,     \* whether the dictionary has changed under the iterator
  entered,   \* history: all values ever entered, by when each last was
  atStart    \* history: what was registered when the thread's scrub began

logVars == <<values, stage, value, line, rest, stale, entered, atStart>>

LogInit ==
  /\ values = << >> /\ entered = << >>
  /\ stage = [c \in Caller |-> "idle"]
  /\ value = [c \in Caller |-> << >>] /\ line = [c \in Caller |-> << >>]
  /\ rest = [c \in Caller |-> << >>] /\ stale = [c \in Caller |-> TRUE]
  /\ atStart = [c \in Caller |-> {}]

Reach(c, there) == stage' = [stage EXCEPT ![c] = there]

\* The dictionary changes its order: every iterator on it is stale.
Reorder(order) ==
  /\ values' = order
  /\ stale' = [c \in Caller |-> TRUE]

\* A key stands once in the order of a dictionary.
Without(s, v) == RemoveFirst(s, v)
Renewed(v) == Append(Without(entered, v), v)

\* The call is over, or has raised: its locals are gone.
Leave(c) ==
  /\ Reach(c, "idle")
  /\ value' = [value EXCEPT ![c] = << >>] /\ line' = [line EXCEPT ![c] = << >>]
  /\ rest' = [rest EXCEPT ![c] = << >>] /\ atStart' = [atStart EXCEPT ![c] = {}]

-----------------------------------------------------------------------------
(* register.                                                               *)

\* Too short, or None: nothing is remembered.  Otherwise `value in _values`.
Register(c) ==
  /\ stage[c] = "idle"
  /\ \E v \in Value \cup Short :
       IF v \in Short THEN UNCHANGED <<stage, value>>
       ELSE /\ value' = [value EXCEPT ![c] = v]
            /\ Reach(c, IF v \in ToSet(values) THEN "touch" ELSE "insert")
  /\ UNCHANGED <<values, line, rest, stale, entered, atStart>>

\* move_to_end: a KeyError, and so the end of the call, if the value has been
\* evicted since it was seen.  The last value moves nowhere.
Touch(c) ==
  /\ stage[c] = "touch"
  /\ Leave(c)
  /\ \/ /\ value[c] \notin ToSet(values)
        /\ UNCHANGED <<values, stale, entered>>
     \/ /\ value[c] \in ToSet(values)
        /\ entered' = Renewed(value[c])
        /\ IF Last(values) = value[c] THEN UNCHANGED <<values, stale>>
           ELSE Reorder(Append(Without(values, value[c]), value[c]))

\* A value that another thread has entered meanwhile stays where it is.
Insert(c) ==
  /\ stage[c] = "insert"
  /\ Reach(c, "bound")
  /\ IF value[c] \in ToSet(values) THEN UNCHANGED <<values, stale, entered>>
     ELSE Reorder(Append(values, value[c])) /\ entered' = Renewed(value[c])
  /\ UNCHANGED <<value, line, rest, atStart>>

\* while len(_values) > _max_size ...
CheckBound(c) ==
  /\ stage[c] = "bound"
  /\ IF Len(values) > MaxTracked
       THEN Reach(c, "evict") /\ UNCHANGED <<value, line, rest, atStart>>
       ELSE Leave(c)
  /\ UNCHANGED <<values, stale, entered>>

MutantEvictNewest(c) ==
  /\ stage[c] = "evict"
  /\ Reach(c, "bound")
  /\ Reorder(Front(values))
  /\ UNCHANGED <<value, line, rest, entered, atStart>>

\* ... popitem(last=False).
Evict(c) ==
  /\ stage[c] = "evict"
  /\ Reach(c, "bound")
  /\ Reorder(Tail(values))
  /\ UNCHANGED <<value, line, rest, entered, atStart>>

-----------------------------------------------------------------------------
(* RedactingFilter.filter, scrub.                                          *)

OccursAt(text, v, i) ==
  i + Len(v) - 1 <= Len(text) /\ SubSeq(text, i, i + Len(v) - 1) = v
Occurs(text, v) == \E i \in DOMAIN text : OccursAt(text, v, i)

\* text.replace(v, REDACTED): from the left, without overlaps.
Scrubbed(text, v) ==
  LET from[i \in 1 .. Len(text) + Len(v)] ==
        IF i > Len(text) THEN << >>
        ELSE IF OccursAt(text, v, i) THEN <<Redacted>> \o from[i + Len(v)]
        ELSE <<text[i]>> \o from[i + 1]
  IN  from[1]

\* An empty registry has nothing to iterate over: the line goes out as it is.
StartScrub(c) ==
  /\ stage[c] = "idle"
  /\ \E l \in Line : line' = [line EXCEPT ![c] = l]
  /\ rest' = [rest EXCEPT ![c] = values]
  /\ stale' = [stale EXCEPT ![c] = FALSE]
  /\ atStart' = [atStart EXCEPT ![c] = ToSet(values)]
  /\ Reach(c, "scrub")
  /\ UNCHANGED <<values, value, entered>>

ScrubNext(c) ==
  /\ stage[c] = "scrub" /\ rest[c] # << >> /\ ~stale[c]
  /\ line' = [line EXCEPT ![c] = Scrubbed(@, Head(rest[c]))]
  /\ rest' = [rest EXCEPT ![c] = Tail(@)]
  /\ UNCHANGED <<values, stage, value, stale, entered, atStart>>

MutantIterationCutShort(c) ==
  /\ stage[c] = "scrub" /\ rest[c] # << >> /\ stale[c]
  /\ rest' = [rest EXCEPT ![c] = << >>]
  /\ UNCHANGED <<values, stage, value, line, stale, entered, atStart>>

\* RuntimeError: it passes through the logging call into the thread's request.
ScrubRaises(c) ==
  /\ stage[c] = "scrub" /\ rest[c] # << >> /\ stale[c]
  /\ Leave(c)
  /\ UNCHANGED <<values, stale, entered>>

\* The handler writes the line.
Emit(c) ==
  /\ stage[c] = "scrub" /\ rest[c] = << >>
  /\ Leave(c)
  /\ UNCHANGED <<values, stale, entered>>

LogStep(c) ==
  \/ Register(c) \/ Touch(c) \/ Insert(c) \/ CheckBound(c) \/ Evict(c)
  \/ StartScrub(c) \/ ScrubNext(c) \/ ScrubRaises(c) \/ Emit(c)

LogSpec == LogInit /\ [][\E c \in Caller : LogStep(c)]_logVars

-----------------------------------------------------------------------------
LogTypeOK ==
  /\ values \in Seq(Value) /\ entered \in Seq(Value)
  /\ stage \in [Caller -> {"idle", "touch", "insert", "bound", "evict", "scrub"}]
  /\ value \in [Caller -> Value \cup Short \cup {<< >>}]
  /\ line \in [Caller -> Seq({Redacted} \cup UNION {ToSet(l) : l \in Line})]
  /\ rest \in [Caller -> Seq(Value)] /\ stale \in [Caller -> BOOLEAN]
  /\ atStart \in [Caller -> SUBSET Value]

\* A line that is written holds no value that was registered when its scrub
\* began, whatever the other threads do to the registry meanwhile and however
\* the values overlap.
LinesClean ==
  \A c \in Caller : stage[c] = "scrub" /\ rest[c] = << >> =>
    \A v \in atStart[c] : ~Occurs(line[c], v)

\* The bound forgets the oldest values only: threads that find the registry full
\* at the same time evict at most one value each too many, and while they are at
\* it the registry exceeds its bound by one value each.
NewestKept ==
  /\ \A i \in DOMAIN entered :
       Len(entered) - i <= MaxTracked - Cardinality(Caller) => entered[i] \in ToSet(values)
  /\ Len(values) <= MaxTracked + Cardinality({c \in Caller : stage[c] \in {"bound", "evict"}})
=============================================================================
