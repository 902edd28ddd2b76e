---------------------------- MODULE ReplyProofs -----------------------------
(***************************************************************************)
(* What the stream of a response tells its client, for any number of runs  *)
(* and calls and any texts, wherever it stops: ReplyInvariant, one lemma   *)
(* for each thing an event does.  Last the properties of both relays.      *)
(***************************************************************************)
EXTENDS StreamProofs

-----------------------------------------------------------------------------
(* The Responses API.                                                      *)

Keys == Runs \cup Calls
DeltaTypes == {"text_delta", "args_delta"}
DoneTypes == {"text_done", "args_done", "args_done_bare"}

EventsOver(Text) ==
  [type : {"text_delta", "text_done", "part_done"}, key : Runs, value : Text]
    \cup [type : {"args_delta", "args_done", "args_done_bare"}, key : Calls, value : Text]
    \cup [type : {"item_done"}, key : Keys, value : Text]
    \cup [type : {"terminal"}, key : {Keys}, value : [Keys -> Text]]

ReplyBlock ==
  {Responses!Done, Responses!Other} \cup [block : {"event"}, payload : EventsOver(Seq(Fragment))]
ReplyItem ==
  [sent : {"other", "done", "raw"}]
    \cup [sent : {"event"}, body : [event : EventsOver(Seq(Shown)), number : Int]]
ReplyState ==
  [holds : [Runs -> Seq(Fragment)], textFrames : SUBSET Runs,
   arguments : [Calls -> Seq(Fragment)], argFrames : SUBSET Calls, next : Int]

SaidBy(k) ==
  [b \in ReplyBlock |->
     IF b.block = "event" /\ Responses!DeltaOf(b.payload, k) THEN b.payload.value ELSE << >>]
ReadBy(k) ==
  [t \in ReplyItem |->
     IF t.sent = "event" /\ Responses!DeltaOf(t.body.event, k) THEN t.body.event.value ELSE << >>]
Said(k) == Told(received, SaidBy(k))
Read(k) == Heard(out, ReadBy(k))

\* The provider has said its last word on the key, and on the answer.
Closed(blocks, k) ==
  \E i \in DOMAIN blocks :
    /\ blocks[i].block = "event" /\ blocks[i].payload.type \in DoneTypes
    /\ blocks[i].payload.key = k
Concluded(blocks) ==
  \E i \in DOMAIN blocks : blocks[i].block = "event" /\ blocks[i].payload.type = "terminal"

ReplyTyped ==
  /\ received \in Seq(ReplyBlock) /\ out \in Seq(ReplyItem) /\ state \in ReplyState
  /\ status \in {"open", "closed", "raised"} /\ cut \in {"none", "event", "char"}
  /\ missed \in BOOLEAN

\* What the relay keeps of a key, and what the client lacks of it.
KeyOK(k) ==
  IF Closed(received, k)
  THEN /\ Delivered(Said(k), Read(k), missed)
       /\ k \in Runs => state.holds[k] = << >> /\ k \notin state.textFrames
       /\ k \in Calls => state.arguments[k] = << >> /\ k \notin state.argFrames
  ELSE /\ k \in Runs => /\ Relayed(Said(k), state.holds[k], Read(k), missed)
                        /\ state.holds[k] # << >> => k \in state.textFrames
       /\ k \in Calls => /\ state.arguments[k] = Said(k) /\ Read(k) = << >>
                         /\ Said(k) # << >> => k \in state.argFrames

Answering == Streaming /\ ~Concluded(received)

ReplyOpen ==
  /\ NoRaw(out) /\ \A i \in DOMAIN out : out[i].sent # "done"
  /\ \A i \in DOMAIN out : out[i].sent = "event" =>
       /\ out[i].body.event.type # "terminal"
       /\ out[i].body.event.type \in Responses!LastWords => Closed(received, out[i].body.event.key)
  /\ \A k \in Keys : KeyOK(k)

\* Nothing is left to hand over.
Settled ==
  /\ NoRaw(out) /\ state.textFrames = {} /\ state.argFrames = {}
  /\ \A k \in Keys : Delivered(Said(k), Read(k), missed)

ReplyEnded ==
  /\ status = "open" => Settled
  /\ cut = "none" \/ (status = "raised" /\ cut # "char") =>
       \A k \in Keys : Delivered(Said(k), Read(k), missed)
  /\ ~missed => \A k \in Keys : ~Whole(Read(k))

\* Behind the last word on a key it is only repeated, behind the terminal event
\* comes nothing, and behind [DONE] no event.
ReplyOrder(items) ==
  /\ \A i, j \in Legible(items) : i < j =>
       /\ items[i].body.event.type # "terminal"
       /\ items[i].body.event.type \in Responses!LastWords =>
            \/ items[j].body.event.type \in {"part_done", "item_done", "terminal"}
            \/ items[j].body.event.key # items[i].body.event.key
  /\ \A i, j \in DOMAIN items : (i < j /\ items[i].sent = "done") => items[j].sent # "event"

\* What the first n items say.
HeardTo(items, n, g) ==
  FlattenSeq([i \in 1 .. n |-> IF i \in Legible(items) THEN g[items[i]] ELSE << >>])

\* What is told again is what was heard, or what the provider said.
Again(left, value, heard, lost) ==
  IF left THEN value = Unrestored(heard) ELSE ~lost => value = heard /\ ~Whole(value)

\* An event that repeats a value says what the deltas in front of it said.
Repeats(event, items, n, lost) ==
  IF event.type = "terminal"
  THEN \A k \in Keys : Again(Responses!LeftStanding(event, k), event.value[k],
                            HeardTo(items, n, ReadBy(k)), lost)
  ELSE Again(Responses!LeftStanding(event, event.key), event.value,
             HeardTo(items, n, ReadBy(event.key)), lost)

Agreement(items, lost) ==
  \A i \in Legible(items) :
    items[i].body.event.type \notin DeltaTypes => Repeats(items[i].body.event, items, i, lost)

ReplyInvariant ==
  /\ ReplyTyped /\ ReplyOrder(out) /\ Agreement(out, missed)
  /\ IF Answering THEN ReplyOpen ELSE ReplyEnded

LEMMA ReplyText ==
  /\ \A s : Responses!FlattenSeq(s) = FlattenSeq(s)
  /\ \A s, ok : Responses!Guarded(s, ok) = Guarded(s, ok)
  /\ \A s, ok : Responses!RestoredArguments(s, ok) = Guarded(s, ok)
  /\ \A s : Responses!Unrestored(s) = Unrestored(s)
  /\ \A s : Responses!Whole(s) = Whole(s)
  /\ \A s : Responses!Held(s) = Held(s)
  /\ \A s : Responses!Released(s) = Released(s)
  /\ \A S : Responses!SetToSeq(S) = SetToSeq(S)
  /\ Responses!Keys = Keys
<1>1. \A s : Responses!FlattenSeq(s) = FlattenSeq(s)
  BY DEF Responses!FlattenSeq, FlattenSeq
<1>2. \A s : Responses!Restored(s) = Restored(s)
  BY <1>1 DEF Responses!Restored, Restored
<1>3. \A s, ok : /\ Responses!Guarded(s, ok) = Guarded(s, ok)
                 /\ Responses!RestoredArguments(s, ok) = Guarded(s, ok)
  BY <1>2 DEF Responses!Guarded, Guarded, Responses!RestoredArguments
<1>4. \A s : Responses!Unrestored(s) = Unrestored(s)
  BY <1>1 DEF Responses!Unrestored, Unrestored
<1>5. \A s : Responses!Whole(s) = Whole(s)
  BY DEF Responses!Whole, Whole
<1>6. \A s : Responses!Held(s) = Held(s)
  BY DEF Responses!Held, Held, Last, Responses!Last
<1>7. \A s : Responses!Released(s) = Released(s)
  BY <1>6 DEF Responses!Released, Released, Front, Responses!Front
<1>8. \A S : Responses!SetToSeq(S) = SetToSeq(S)
  BY DEF Responses!SetToSeq, SetToSeq, IsInjective, Responses!IsInjective, Cardinality,
         Responses!Cardinality
<1>9. Responses!Keys = Keys
  BY DEF Responses!Keys, Keys
<1> QED BY <1>1, <1>3, <1>4, <1>5, <1>6, <1>7, <1>8, <1>9

LEMMA EventFacts ==
  ASSUME NEW Text, NEW e \in EventsOver(Text)
  PROVE  /\ e.type \in DeltaTypes \cup DoneTypes \cup {"part_done", "item_done", "terminal"}
         /\ e.type \in {"text_delta", "text_done", "part_done"} => e.key \in Runs
         /\ e.type \in {"args_delta", "args_done", "args_done_bare"} => e.key \in Calls
         /\ e.type # "terminal" => e.key \in Keys /\ e.value \in Text
         /\ e.type = "terminal" => e.value \in [Keys -> Text]
         /\ \A k \in Keys : Responses!DeltaOf(e, k) <=> (e.type \in DeltaTypes /\ e.key = k)
<1>1. CASE e \in [type : {"text_delta", "text_done", "part_done"}, key : Runs, value : Text]
  BY <1>1, KeyAssumption DEF Keys, Responses!DeltaOf, DeltaTypes, DoneTypes
<1>2. CASE e \in [type : {"args_delta", "args_done", "args_done_bare"}, key : Calls, value : Text]
  BY <1>2, KeyAssumption DEF Keys, Responses!DeltaOf, DeltaTypes, DoneTypes
<1>3. CASE e \in [type : {"item_done"}, key : Keys, value : Text]
  BY <1>3, KeyAssumption DEF Keys, Responses!DeltaOf, DeltaTypes, DoneTypes
<1>4. CASE e \in [type : {"terminal"}, key : {Keys}, value : [Keys -> Text]]
  BY <1>4, KeyAssumption DEF Keys, Responses!DeltaOf, DeltaTypes, DoneTypes
<1> QED BY <1>1, <1>2, <1>3, <1>4 DEF EventsOver

LEMMA ReplyReadings ==
  ASSUME NEW k \in Keys
  PROVE  /\ SaidBy(k) \in [ReplyBlock -> Seq(Fragment)]
         /\ ReadBy(k) \in [ReplyItem -> Seq(Shown)]
<1>1. << >> \in Seq(Fragment) /\ << >> \in Seq(Shown)
  OBVIOUS
<1>2. ASSUME NEW b \in ReplyBlock, b.block = "event", Responses!DeltaOf(b.payload, k)
      PROVE  b.payload.value \in Seq(Fragment)
  <2>1. b.payload \in EventsOver(Seq(Fragment))
    BY <1>2 DEF ReplyBlock, Responses!Done, Responses!Other
  <2>2. b.payload.type \in DeltaTypes
    BY <1>2, <2>1, EventFacts
  <2> QED BY <2>1, <2>2, EventFacts DEF DeltaTypes
<1>3. ASSUME NEW t \in ReplyItem, t.sent = "event", Responses!DeltaOf(t.body.event, k)
      PROVE  t.body.event.value \in Seq(Shown)
  <2>1. t.body.event \in EventsOver(Seq(Shown))
    BY <1>3 DEF ReplyItem
  <2>2. t.body.event.type \in DeltaTypes
    BY <1>3, <2>1, EventFacts
  <2> QED BY <2>1, <2>2, EventFacts DEF DeltaTypes
<1> QED BY <1>1, <1>2, <1>3 DEF SaidBy, ReadBy

\* What an item is: an event with its type, or another.
LEMMA ItemFacts ==
  ASSUME NEW t \in ReplyItem
  PROVE  /\ t.sent \in {"other", "done", "raw", "event"}
         /\ t.sent = "event" => t.body.event \in EventsOver(Seq(Shown))
         /\ \A k \in Keys : ReadBy(k)[t] =
              IF t.sent = "event" /\ t.body.event.type \in DeltaTypes /\ t.body.event.key = k
              THEN t.body.event.value ELSE << >>
<1>1. /\ t.sent \in {"other", "done", "raw", "event"}
      /\ t.sent = "event" => t.body.event \in EventsOver(Seq(Shown))
  BY DEF ReplyItem
<1>2. ASSUME NEW k \in Keys
      PROVE  ReadBy(k)[t] =
               IF t.sent = "event" /\ t.body.event.type \in DeltaTypes /\ t.body.event.key = k
               THEN t.body.event.value ELSE << >>
  <2>1. t.sent = "event" => (Responses!DeltaOf(t.body.event, k) <=>
                               (t.body.event.type \in DeltaTypes /\ t.body.event.key = k))
    BY <1>1, EventFacts
  <2> QED BY <2>1 DEF ReadBy
<1> QED BY <1>1, <1>2

LEMMA HeardToWhole == ASSUME NEW I, NEW g, NEW o \in Seq(I) PROVE HeardTo(o, Len(o), g) = Heard(o, g)
<1>1. DOMAIN o = 1 .. Len(o)
  OBVIOUS
<1> QED BY <1>1 DEF HeardTo, Heard

LEMMA HeardToStays ==
  ASSUME NEW I, NEW g, NEW o \in Seq(I), NEW x \in Seq(I), NoRaw(o), NEW n \in 1 .. Len(o)
  PROVE  HeardTo(o \o x, n, g) = HeardTo(o, n, g)
<1>1. \A i \in 1 .. Len(o) : (o \o x)[i] = o[i]
  BY JoinFacts
<1>2. \A i \in 1 .. Len(o) : i \in Legible(o \o x) <=> i \in Legible(o)
  BY LegibleJoin
<1>3. \A i \in 1 .. n : i \in 1 .. Len(o)
  OBVIOUS
<1> DEFINE c == o \o x
<1> HIDE DEF c
<1>4. [i \in 1 .. n |-> IF i \in Legible(c) THEN g[c[i]] ELSE << >>]
        = [i \in 1 .. n |-> IF i \in Legible(o) THEN g[o[i]] ELSE << >>]
  BY <1>1, <1>2, <1>3 DEF c
<1> QED BY <1>4 DEF HeardTo, c

\* What a step writes behind what the client has: the order, and what it repeats.
LEMMA ReplyJoins ==
  ASSUME NEW o \in Seq(ReplyItem), NEW x \in Seq(ReplyItem), NoRaw(o), ReplyOrder(o), ReplyOrder(x),
         NEW lost \in BOOLEAN, NEW more \in BOOLEAN, Agreement(o, lost), ~more => ~lost,
         \A i \in DOMAIN o, j \in DOMAIN x : x[j].sent = "event" => o[i].sent # "done",
         \A i \in DOMAIN o, j \in DOMAIN x : (o[i].sent = "event" /\ x[j].sent = "event") =>
           /\ o[i].body.event.type # "terminal"
           /\ o[i].body.event.type \in Responses!LastWords =>
                \/ x[j].body.event.type \in {"part_done", "item_done", "terminal"}
                \/ x[j].body.event.key # o[i].body.event.key,
         \A j \in DOMAIN x : (x[j].sent = "event" /\ x[j].body.event.type \notin DeltaTypes) =>
           j = Len(x) /\ Repeats(x[j].body.event, o \o x, Len(o \o x), more)
  PROVE  ReplyOrder(o \o x) /\ Agreement(o \o x, more)
<1>0. o \o x \in Seq(ReplyItem) /\ Len(o \o x) = Len(o) + Len(x)
  BY JoinFacts
<1>1. PICK z \in Seq(ReplyItem) : z = o \o x /\ Len(z) = Len(o) + Len(x)
  BY <1>0
<1>2. /\ Len(o) \in Nat /\ Len(x) \in Nat
      /\ DOMAIN o = 1 .. Len(o) /\ DOMAIN x = 1 .. Len(x) /\ DOMAIN z = 1 .. Len(z)
  OBVIOUS
<1>3. ASSUME NEW i \in DOMAIN z
      PROVE  \/ i \in 1 .. Len(o) /\ z[i] = o[i] /\ (i \in Legible(z) => i \in Legible(o))
             \/ \E k \in 1 .. Len(x) :
                  i = Len(o) + k /\ z[i] = x[k] /\ (i \in Legible(z) => k \in Legible(x))
  <2>1. CASE i \in 1 .. Len(o)
    BY <1>1, <2>1, JoinFacts, LegibleJoin
  <2>2. CASE i \notin 1 .. Len(o)
    <3>1. PICK k \in 1 .. Len(x) : i = Len(o) + k
      <4>1. i - Len(o) \in 1 .. Len(x) /\ i = Len(o) + (i - Len(o))
        BY <1>1, <1>2, <2>2
      <4> QED BY <4>1
    <3>2. z[i] = x[k]
      BY <1>1, <3>1, JoinFacts
    <3>3. i \in Legible(z) => k \in Legible(x)
      BY <1>1, <3>1, LegibleJoin
    <3> QED BY <3>1, <3>2, <3>3
  <2> QED BY <2>1, <2>2
<1>4. ASSUME NEW i \in Legible(z), NEW j \in Legible(z), i < j
      PROVE  /\ z[i].body.event.type # "terminal"
             /\ z[i].body.event.type \in Responses!LastWords =>
                  \/ z[j].body.event.type \in {"part_done", "item_done", "terminal"}
                  \/ z[j].body.event.key # z[i].body.event.key
  <2>1. i \in DOMAIN z /\ j \in DOMAIN z /\ z[i].sent = "event" /\ z[j].sent = "event"
    BY DEF Legible
  <2>2. CASE i \in 1 .. Len(o) /\ j \in 1 .. Len(o)
    <3>1. i \in Legible(o) /\ j \in Legible(o) /\ z[i] = o[i] /\ z[j] = o[j]
      BY <1>1, <2>2, JoinFacts, LegibleJoin
    <3> QED BY <1>4, <3>1 DEF ReplyOrder
  <2>3. CASE i \in 1 .. Len(o) /\ j \notin 1 .. Len(o)
    <3>1. z[i] = o[i]
      BY <1>1, <2>3, JoinFacts
    <3>2. PICK k \in 1 .. Len(x) : j = Len(o) + k /\ z[j] = x[k]
      BY <1>3, <2>1, <2>3
    <3> QED BY <1>2, <2>1, <2>3, <3>1, <3>2
  <2>4. CASE i \notin 1 .. Len(o)
    <3>1. j \notin 1 .. Len(o)
      BY <1>1, <1>2, <1>4, <2>1, <2>4
    <3>2. PICK k \in 1 .. Len(x) : i = Len(o) + k /\ z[i] = x[k] /\ k \in Legible(x)
      BY <1>3, <2>1, <2>4
    <3>3. PICK m \in 1 .. Len(x) : j = Len(o) + m /\ z[j] = x[m] /\ m \in Legible(x)
      BY <1>3, <2>1, <3>1
    <3>4. k < m
      BY <1>2, <1>4, <3>2, <3>3
    <3> QED BY <1>4, <3>2, <3>3, <3>4 DEF ReplyOrder
  <2> QED BY <2>2, <2>3, <2>4
<1>5. ASSUME NEW i \in DOMAIN z, NEW j \in DOMAIN z, i < j, z[i].sent = "done"
      PROVE  z[j].sent # "event"
  <2>1. CASE i \in 1 .. Len(o) /\ j \in 1 .. Len(o)
    <3>1. z[i] = o[i] /\ z[j] = o[j]
      BY <1>1, <2>1, JoinFacts
    <3> QED BY <1>2, <1>5, <2>1, <3>1 DEF ReplyOrder
  <2>2. CASE i \in 1 .. Len(o) /\ j \notin 1 .. Len(o)
    <3>1. z[i] = o[i]
      BY <1>1, <2>2, JoinFacts
    <3>2. PICK k \in 1 .. Len(x) : j = Len(o) + k /\ z[j] = x[k]
      BY <1>3, <2>2
    <3> QED BY <1>2, <1>5, <2>2, <3>1, <3>2
  <2>3. CASE i \notin 1 .. Len(o)
    <3>1. j \notin 1 .. Len(o)
      BY <1>1, <1>2, <1>5, <2>3
    <3>2. PICK k \in 1 .. Len(x) : i = Len(o) + k /\ z[i] = x[k]
      BY <1>3, <2>3
    <3>3. PICK m \in 1 .. Len(x) : j = Len(o) + m /\ z[j] = x[m]
      BY <1>3, <3>1
    <3>4. k < m
      BY <1>2, <1>5, <3>2, <3>3
    <3> QED BY <1>2, <1>5, <3>2, <3>3, <3>4, ZenonT(60) DEF ReplyOrder
  <2> QED BY <2>1, <2>2, <2>3
<1>6. ASSUME NEW i \in Legible(z), z[i].body.event.type \notin DeltaTypes
      PROVE  Repeats(z[i].body.event, z, i, more)
  <2>1. i \in DOMAIN z /\ z[i].sent = "event"
    BY DEF Legible
  <2>2. CASE i \in 1 .. Len(o)
    <3>1. i \in Legible(o) /\ z[i] = o[i]
      BY <1>1, <2>2, JoinFacts, LegibleJoin
    <3>2. Repeats(o[i].body.event, o, i, lost)
      BY <1>6, <3>1 DEF Agreement
    <3>3. \A g : HeardTo(z, i, g) = HeardTo(o, i, g)
      BY <1>1, <2>2, HeardToStays
    <3> QED BY <3>1, <3>2, <3>3 DEF Repeats, Again
  <2>3. CASE i \notin 1 .. Len(o)
    <3>1. PICK k \in 1 .. Len(x) : i = Len(o) + k /\ z[i] = x[k]
      BY <1>3, <2>1, <2>3, SMTT(30)
    <3>2. k = Len(x) /\ Repeats(x[k].body.event, o \o x, Len(o \o x), more)
      BY <1>2, <1>6, <2>1, <3>1
    <3> QED BY <1>1, <3>1, <3>2
  <2> QED BY <2>2, <2>3
<1> QED BY <1>1, <1>4, <1>5, <1>6 DEF ReplyOrder, Agreement

LEMMA SaidTyped == ASSUME ReplyTyped, NEW k \in Keys PROVE Said(k) \in Seq(Fragment)
<1> DEFINE g == SaidBy(k)
<1>1. g \in [ReplyBlock -> Seq(Fragment)] /\ received \in Seq(ReplyBlock)
  BY ReplyReadings DEF ReplyTyped
<1> HIDE DEF g
<1>2. Told(received, g) \in Seq(Fragment)
  BY <1>1, ToldTyped
<1> QED BY <1>2 DEF Said, g

LEMMA ReplyReceives ==
  ASSUME ReplyTyped, NEW b \in ReplyBlock, received' = Append(received, b)
  PROVE  /\ received' \in Seq(ReplyBlock)
         /\ \A k \in Keys : Said(k)' = Said(k) \o SaidBy(k)[b] /\ Said(k) \in Seq(Fragment)
         /\ \A k : Closed(received', k) <=>
                     (Closed(received, k) \/
                      (b.block = "event" /\ b.payload.type \in DoneTypes /\ b.payload.key = k))
         /\ Concluded(received') <=>
              (Concluded(received) \/ (b.block = "event" /\ b.payload.type = "terminal"))
         /\ (\A i \in DOMAIN received' : received'[i] # Responses!Done) <=>
              (b # Responses!Done /\ \A i \in DOMAIN received : received[i] # Responses!Done)
<1>1. received \in Seq(ReplyBlock) /\ received' \in Seq(ReplyBlock)
  BY DEF ReplyTyped
<1>2. PICK n \in Nat : n = Len(received)
  BY <1>1
<1>3. /\ DOMAIN received = 1 .. n /\ DOMAIN received' = 1 .. (n + 1)
      /\ (\A i \in 1 .. n : received'[i] = received[i]) /\ received'[n + 1] = b
  BY <1>1, <1>2
<1>4. \A i \in 1 .. (n + 1) : i \in 1 .. n \/ i = n + 1
  BY <1>2
<1>5. \A i \in 1 .. n : i \in 1 .. (n + 1)
  BY <1>2
<1>6. n + 1 \in 1 .. (n + 1)
  BY <1>2
<1>7. ASSUME NEW k \in Keys
      PROVE  Said(k)' = Said(k) \o SaidBy(k)[b] /\ Said(k) \in Seq(Fragment)
  <2> DEFINE g == SaidBy(k)
  <2>1. g \in [ReplyBlock -> Seq(Fragment)]
    BY ReplyReadings
  <2> HIDE DEF g
  <2>2. Told(Append(received, b), g) = Told(received, g) \o g[b]
    BY <1>1, <2>1, ToldJoin
  <2> QED BY <2>2, SaidTyped DEF Said, g
<1>8. ASSUME NEW k
      PROVE  Closed(received', k) <=>
               (Closed(received, k) \/
                (b.block = "event" /\ b.payload.type \in DoneTypes /\ b.payload.key = k))
  BY <1>3, <1>4, <1>5, <1>6, Zenon DEF Closed
<1>9. Concluded(received') <=>
        (Concluded(received) \/ (b.block = "event" /\ b.payload.type = "terminal"))
  BY <1>3, <1>4, <1>5, <1>6, Zenon DEF Concluded
<1>10. (\A i \in DOMAIN received' : received'[i] # Responses!Done) <=>
         (b # Responses!Done /\ \A i \in DOMAIN received : received[i] # Responses!Done)
  BY <1>3, <1>4, <1>5, <1>6
<1> QED BY <1>1, <1>7, <1>8, <1>9, <1>10

LEMMA ReadTyped ==
  ASSUME NEW k \in Keys, NEW x \in Seq(ReplyItem)
  PROVE  Heard(x, ReadBy(k)) \in Seq(Shown)
<1> DEFINE g == ReadBy(k)
           s == [i \in DOMAIN x |-> IF i \in Legible(x) THEN g[x[i]] ELSE << >>]
<1>1. g \in [ReplyItem -> Seq(Shown)]
  BY ReplyReadings
<1> HIDE DEF g
<1>2. DOMAIN x = 1 .. Len(x) /\ Len(x) \in Nat /\ \A i \in 1 .. Len(x) : g[x[i]] \in Seq(Shown)
  BY <1>1
<1>3. \A i \in 1 .. Len(x) : (IF i \in Legible(x) THEN g[x[i]] ELSE << >>) \in Seq(Shown)
  BY <1>2
<1>4. s \in Seq(Seq(Shown))
  BY <1>2, <1>3
<1> HIDE DEF s
<1>5. FlattenSeq(s) \in Seq(Shown)
  BY <1>4, FlattenConcat
<1> QED BY <1>5 DEF Heard, s, g

LEMMA ReplySends ==
  ASSUME ReplyTyped, NoRaw(out), NEW x \in Seq(ReplyItem), out' = out \o x
  PROVE  /\ out' \in Seq(ReplyItem)
         /\ \A k \in Keys : Read(k)' = Read(k) \o Heard(x, ReadBy(k))
         /\ \A i \in DOMAIN out' : (\E j \in DOMAIN out : out'[i] = out[j])
                                     \/ (\E j \in DOMAIN x : out'[i] = x[j])
<1>1. out \in Seq(ReplyItem) /\ x \in Seq(ReplyItem)
  BY DEF ReplyTyped
<1>2. out' \in Seq(ReplyItem) /\ Len(out') = Len(out) + Len(x)
  BY ONLY <1>1, JoinFacts, out' = out \o x
<1>3. ASSUME NEW k \in Keys
      PROVE  Read(k)' = Read(k) \o Heard(x, ReadBy(k))
  <2> DEFINE g == ReadBy(k)
  <2>1. g \in [ReplyItem -> Seq(Shown)]
    BY ReplyReadings
  <2> HIDE DEF g
  <2>2. Heard(out \o x, g) = Heard(out, g) \o Heard(x, g)
    BY <1>1, <2>1, HeardJoin
  <2> QED BY <2>2 DEF Read, g
<1>4. ASSUME NEW i \in DOMAIN out'
      PROVE  (\E j \in DOMAIN out : out'[i] = out[j]) \/ (\E j \in DOMAIN x : out'[i] = x[j])
  <2>1. /\ \A k \in 1 .. Len(out) : out'[k] = out[k]
        /\ \A k \in 1 .. Len(x) : out'[Len(out) + k] = x[k]
    BY ONLY <1>1, JoinFacts, out' = out \o x
  <2>2. /\ DOMAIN out = 1 .. Len(out) /\ DOMAIN x = 1 .. Len(x) /\ DOMAIN out' = 1 .. (Len(out) + Len(x))
        /\ Len(out) \in Nat /\ Len(x) \in Nat
    BY <1>1, <1>2
  <2>3. CASE i \in 1 .. Len(out)
    BY <2>1, <2>2, <2>3
  <2>4. CASE i \notin 1 .. Len(out)
    <3>1. i - Len(out) \in 1 .. Len(x) /\ i = Len(out) + (i - Len(out))
      BY <2>2, <2>4
    <3> QED BY <2>1, <2>2, <3>1
  <2> QED BY <2>3, <2>4
<1> QED BY <1>2, <1>3, <1>4

\* What a flush of the state s writes: one delta for each key it owes something,
\* and at most one item behind them; or raw bytes in front, unless it is whole.
Speaks(t) == t.sent = "event" /\ t.body.event.type \in DeltaTypes
Owes(s, k) == IF k \in Runs THEN s.holds[k] ELSE s.arguments[k]
Debts(s) == {k \in Keys : Owes(s, k) # << >> /\ k \in s.textFrames \cup s.argFrames}
ReplyFlush(x, s, ok, whole) ==
  /\ x \in Seq(ReplyItem)
  /\ \A i \in DOMAIN x : Speaks(x[i]) =>
       /\ x[i].body.event.key \in Debts(s)
       /\ x[i].body.event.value = Guarded(Owes(s, x[i].body.event.key), ok)
  /\ \A i, j \in DOMAIN x :
       (Speaks(x[i]) /\ Speaks(x[j]) /\ x[i].body.event.key = x[j].body.event.key) => i = j
  /\ \A k \in Debts(s) : \E i \in DOMAIN x : Speaks(x[i]) /\ x[i].body.event.key = k
  /\ \A i \in DOMAIN x : ~Speaks(x[i]) => i = Len(x) \/ x[i].sent = "raw"
  /\ whole => NoRaw(x)

\* What the flush says of each key.
LEMMA ReplyFlushHeard ==
  ASSUME NEW x, NEW s, NEW ok \in BOOLEAN, NEW whole \in BOOLEAN,
         ReplyFlush(x, s, ok, whole), NEW k \in Keys, Owes(s, k) # << >> => k \in Debts(s)
  PROVE  HeardOf(Owes(s, k), ok, whole, Heard(x, ReadBy(k)))
<1>1. x \in Seq(ReplyItem) /\ DOMAIN x = 1 .. Len(x)
  BY DEF ReplyFlush
<1>2. ReadBy(k) \in [ReplyItem -> Seq(Shown)]
  BY ReplyReadings
<1>3. ASSUME NEW i \in 1 .. Len(x)
      PROVE  ReadBy(k)[x[i]] =
               IF Speaks(x[i]) /\ x[i].body.event.key = k THEN x[i].body.event.value ELSE << >>
  <2>1. x[i] \in ReplyItem
    BY <1>1
  <2> QED BY <2>1, ItemFacts DEF Speaks
<1>4. CASE k \in Debts(s)
  <2>1. PICK n \in 1 .. Len(x) : Speaks(x[n]) /\ x[n].body.event.key = k
    BY <1>1, <1>4 DEF ReplyFlush
  <2>2. \A i \in 1 .. Len(x) : i # n => ~(Speaks(x[i]) /\ x[i].body.event.key = k)
    BY <1>1, <2>1 DEF ReplyFlush
  <2>3. ReadBy(k)[x[n]] = Guarded(Owes(s, k), ok)
    BY <1>1, <1>3, <2>1 DEF ReplyFlush
  <2>4. \A i \in 1 .. Len(x) : i # n => ReadBy(k)[x[i]] = << >>
    BY <1>3, <2>2
  <2>5. Heard(x, ReadBy(k)) = IF n \in Legible(x) THEN ReadBy(k)[x[n]] ELSE << >>
    BY <1>1, <1>2, <2>4, HeardOnce
  <2>6. whole => n \in Legible(x)
    <3>1. n # 1 => n - 1 \in 1 .. Len(x)
      BY <1>1
    <3> QED BY <1>1, <2>1, <3>1 DEF ReplyFlush, NoRaw, Legible, Speaks
  <2> QED BY <2>3, <2>5, <2>6 DEF HeardOf
<1>5. CASE k \notin Debts(s)
  <2>1. \A i \in 1 .. Len(x) : ReadBy(k)[x[i]] = << >>
    BY <1>1, <1>3, <1>5 DEF ReplyFlush
  <2>2. Heard(x, ReadBy(k)) = << >>
    BY <1>1, <2>1, HeardNothing
  <2> QED BY <1>5, <2>2, NothingWhole DEF HeardOf
<1> QED BY <1>4, <1>5

LEMMA ReplyFlushOrder ==
  ASSUME NEW x, NEW s, NEW ok \in BOOLEAN, NEW whole \in BOOLEAN, ReplyFlush(x, s, ok, whole)
  PROVE  ReplyOrder(x)
<1>1. x \in Seq(ReplyItem) /\ DOMAIN x = 1 .. Len(x) /\ Len(x) \in Nat
  BY DEF ReplyFlush
<1>2. ASSUME NEW i \in DOMAIN x, NEW j \in DOMAIN x, i < j PROVE Speaks(x[i]) \/ x[i].sent = "raw"
  <2>1. i # Len(x)
    BY <1>1, <1>2
  <2> QED BY <2>1 DEF ReplyFlush
<1>3. ASSUME NEW i \in DOMAIN x, Speaks(x[i])
      PROVE  x[i].body.event.type # "terminal" /\ x[i].body.event.type \notin Responses!LastWords
             /\ x[i].sent = "event"
  BY <1>3 DEF Speaks, DeltaTypes, Responses!LastWords
<1>4. ASSUME NEW i \in Legible(x), NEW j \in Legible(x), i < j
      PROVE  x[i].body.event.type # "terminal" /\ x[i].body.event.type \notin Responses!LastWords
  <2>1. i \in DOMAIN x /\ j \in DOMAIN x /\ x[i].sent = "event"
    BY DEF Legible
  <2> QED BY <1>2, <1>3, <1>4, <2>1
<1>5. ASSUME NEW i \in DOMAIN x, NEW j \in DOMAIN x, i < j PROVE x[i].sent # "done"
  BY <1>2, <1>3, <1>5
<1> QED BY <1>4, <1>5 DEF ReplyOrder

\* The deltas of a flush: those of text, then those of tool calls.
LEMMA OwedEvents ==
  ASSUME NEW s \in ReplyState, NEW ok \in BOOLEAN
  PROVE  /\ Responses!OwedText(s, ok) \o Responses!OwedCalls(s, ok) \in Seq(EventsOver(Seq(Shown)))
         /\ LET events == Responses!OwedText(s, ok) \o Responses!OwedCalls(s, ok)
            IN  /\ \A i \in 1 .. Len(events) :
                     /\ events[i].type \in DeltaTypes /\ events[i].key \in Debts(s)
                     /\ events[i].value = Guarded(Owes(s, events[i].key), ok)
                /\ \A i, j \in 1 .. Len(events) : events[i].key = events[j].key => i = j
                /\ \A k \in Debts(s) : \E i \in 1 .. Len(events) : events[i].key = k
<1> DEFINE T == {r \in s.textFrames : s.holds[r] # << >>}
           C == {c \in s.argFrames : s.arguments[c] # << >>}
           t == SetToSeq(T)
           a == SetToSeq(C)
           A == Responses!OwedText(s, ok)
           B == Responses!OwedCalls(s, ok)
           events == A \o B
<1>1. s.textFrames \subseteq Runs /\ s.argFrames \subseteq Calls
      /\ s.holds \in [Runs -> Seq(Fragment)] /\ s.arguments \in [Calls -> Seq(Fragment)]
  BY DEF ReplyState
<1>2. T \subseteq Runs /\ C \subseteq Calls /\ T \cap C = {} /\ Debts(s) = T \cup C
      /\ (\A r \in T : Owes(s, r) = s.holds[r]) /\ (\A c \in C : Owes(s, c) = s.arguments[c])
  BY <1>1, KeyAssumption DEF Debts, Owes, Keys
<1>3. IsFiniteSet(T) /\ IsFiniteSet(C)
  BY <1>2, FiniteAssumption, FS_Subset
<1>4. /\ t \in Seq(T) /\ (\A i, j \in 1 .. Len(t) : t[i] = t[j] => i = j)
      /\ (\A e \in T : \E i \in 1 .. Len(t) : t[i] = e)
  BY <1>3, OrderFacts
<1>5. /\ a \in Seq(C) /\ (\A i, j \in 1 .. Len(a) : a[i] = a[j] => i = j)
      /\ (\A e \in C : \E i \in 1 .. Len(a) : a[i] = e)
  BY <1>3, OrderFacts
<1>6. /\ A = [i \in DOMAIN t |-> [type |-> "text_delta", key |-> t[i], value |-> Guarded(s.holds[t[i]], ok)]]
      /\ B = [i \in DOMAIN a |-> [type |-> "args_delta", key |-> a[i], value |-> Guarded(s.arguments[a[i]], ok)]]
  BY ReplyText DEF Responses!OwedText, Responses!OwedCalls, Responses!Event
<1> HIDE DEF t, a, T, C, A, B
<1>7. /\ A \in Seq(EventsOver(Seq(Shown))) /\ Len(A) = Len(t)
      /\ \A i \in 1 .. Len(t) : /\ A[i].type = "text_delta" /\ A[i].key = t[i] /\ t[i] \in T
                                /\ A[i].value = Guarded(Owes(s, t[i]), ok)
  <2>1. DOMAIN t = 1 .. Len(t) /\ Len(t) \in Nat /\ \A i \in 1 .. Len(t) : t[i] \in T
    BY <1>4
  <2>2. ASSUME NEW i \in 1 .. Len(t)
        PROVE  [type |-> "text_delta", key |-> t[i], value |-> Guarded(s.holds[t[i]], ok)]
                 \in EventsOver(Seq(Shown))
    <3>1. t[i] \in Runs /\ s.holds[t[i]] \in Seq(Fragment)
      BY <1>1, <1>2, <2>1
    <3>2. Guarded(s.holds[t[i]], ok) \in Seq(Shown)
      BY <3>1, GuardedFacts
    <3> QED BY <3>1, <3>2 DEF EventsOver
  <2> QED BY <1>2, <1>6, <2>1, <2>2
<1>8. /\ B \in Seq(EventsOver(Seq(Shown))) /\ Len(B) = Len(a)
      /\ \A i \in 1 .. Len(a) : /\ B[i].type = "args_delta" /\ B[i].key = a[i] /\ a[i] \in C
                                /\ B[i].value = Guarded(Owes(s, a[i]), ok)
  <2>1. DOMAIN a = 1 .. Len(a) /\ Len(a) \in Nat /\ \A i \in 1 .. Len(a) : a[i] \in C
    BY <1>5
  <2>2. ASSUME NEW i \in 1 .. Len(a)
        PROVE  [type |-> "args_delta", key |-> a[i], value |-> Guarded(s.arguments[a[i]], ok)]
                 \in EventsOver(Seq(Shown))
    <3>1. a[i] \in Calls /\ s.arguments[a[i]] \in Seq(Fragment)
      BY <1>1, <1>2, <2>1
    <3>2. Guarded(s.arguments[a[i]], ok) \in Seq(Shown)
      BY <3>1, GuardedFacts
    <3> QED BY <3>1, <3>2 DEF EventsOver
  <2> QED BY <1>2, <1>6, <2>1, <2>2
<1>9. /\ events \in Seq(EventsOver(Seq(Shown))) /\ Len(events) = Len(t) + Len(a)
      /\ \A i \in 1 .. Len(t) : events[i] = A[i]
      /\ \A i \in 1 .. Len(a) : events[Len(t) + i] = B[i]
  <2>1. /\ A \o B \in Seq(EventsOver(Seq(Shown))) /\ Len(A \o B) = Len(A) + Len(B)
        /\ \A i \in 1 .. Len(A) : (A \o B)[i] = A[i]
        /\ \A i \in 1 .. Len(B) : (A \o B)[Len(A) + i] = B[i]
    <3>1. A \in Seq(EventsOver(Seq(Shown))) /\ B \in Seq(EventsOver(Seq(Shown)))
      BY <1>7, <1>8
    <3> QED BY ONLY <3>1, JoinFacts
  <2> QED BY <1>7, <1>8, <2>1
<1> HIDE DEF events
<1>10. Len(t) \in Nat /\ Len(a) \in Nat
  BY <1>4, <1>5
<1>11. ASSUME NEW i \in 1 .. Len(events)
       PROVE  \/ i \in 1 .. Len(t) /\ events[i] = A[i]
              \/ \E k \in 1 .. Len(a) : i = Len(t) + k /\ events[i] = B[k]
  <2>1. CASE i \in 1 .. Len(t)
    BY <1>9, <2>1
  <2>2. CASE i \notin 1 .. Len(t)
    <3>1. i - Len(t) \in 1 .. Len(a) /\ i = Len(t) + (i - Len(t))
      BY <1>9, <1>10, <2>2
    <3> QED BY <1>9, <3>1
  <2> QED BY <2>1, <2>2
<1>12. ASSUME NEW i \in 1 .. Len(events)
       PROVE  /\ events[i].type \in DeltaTypes /\ events[i].key \in Debts(s)
              /\ events[i].value = Guarded(Owes(s, events[i].key), ok)
  <2>1. CASE i \in 1 .. Len(t) /\ events[i] = A[i]
    BY <1>2, <1>7, <2>1 DEF DeltaTypes
  <2>2. ASSUME NEW k \in 1 .. Len(a), events[i] = B[k]
        PROVE  /\ events[i].type \in DeltaTypes /\ events[i].key \in Debts(s)
               /\ events[i].value = Guarded(Owes(s, events[i].key), ok)
    <3>1. B[k].type = "args_delta" /\ B[k].key = a[k] /\ a[k] \in C
          /\ B[k].value = Guarded(Owes(s, a[k]), ok)
      BY <1>8
    <3> QED BY <1>2, <2>2, <3>1 DEF DeltaTypes
  <2> QED BY <1>11, <2>1, <2>2
<1>13. ASSUME NEW i \in 1 .. Len(events), NEW j \in 1 .. Len(events), events[i].key = events[j].key
       PROVE  i = j
  <2>1. CASE i \in 1 .. Len(t) /\ events[i] = A[i] /\ j \in 1 .. Len(t) /\ events[j] = A[j]
    BY <1>4, <1>7, <1>13, <2>1
  <2>2. ASSUME NEW k \in 1 .. Len(a), events[i] = B[k], j \in 1 .. Len(t), events[j] = A[j]
        PROVE  FALSE
    BY <1>2, <1>7, <1>8, <1>13, <2>2
  <2>3. ASSUME NEW k \in 1 .. Len(a), events[j] = B[k], i \in 1 .. Len(t), events[i] = A[i]
        PROVE  FALSE
    BY <1>2, <1>7, <1>8, <1>13, <2>3
  <2>4. ASSUME NEW k \in 1 .. Len(a), i = Len(t) + k, events[i] = B[k],
               NEW m \in 1 .. Len(a), j = Len(t) + m, events[j] = B[m]
        PROVE  i = j
    BY <1>5, <1>8, <1>13, <2>4, SMTT(30)
  <2> QED BY <1>11, <2>1, <2>2, <2>3, <2>4
<1>14. ASSUME NEW k \in Debts(s) PROVE \E i \in 1 .. Len(events) : events[i].key = k
  <2>1. CASE k \in T
    <3>1. PICK i \in 1 .. Len(t) : t[i] = k
      BY <1>4, <2>1
    <3>2. i \in 1 .. Len(events) /\ events[i].key = k
      BY <1>7, <1>9, <1>10, <3>1
    <3> QED BY <3>2
  <2>2. CASE k \in C
    <3>1. PICK i \in 1 .. Len(a) : a[i] = k
      BY <1>5, <2>2
    <3>2. Len(t) + i \in 1 .. Len(events) /\ events[Len(t) + i].key = k
      BY <1>8, <1>9, <1>10, <3>1
    <3> QED BY <3>2
  <2> QED BY <1>2, <2>1, <2>2
<1> QED BY <1>9, <1>12, <1>13, <1>14 DEF events, A, B

LEMMA OwedReply ==
  ASSUME NEW s \in ReplyState, NEW ok \in BOOLEAN
  PROVE  LET flushed == Responses!FlushHeld(s, ok)
         IN  /\ ReplyFlush(Responses!Sent(flushed.out), s, ok, TRUE)
             /\ \A i \in DOMAIN Responses!Sent(flushed.out) : Speaks(Responses!Sent(flushed.out)[i])
             /\ flushed.state \in ReplyState /\ flushed.state.holds = [r \in Runs |-> << >>]
             /\ flushed.state.arguments = s.arguments
             /\ flushed.state.textFrames = {} /\ flushed.state.argFrames = {}
<1> DEFINE events == Responses!OwedText(s, ok) \o Responses!OwedCalls(s, ok)
           cleared == [s EXCEPT !.holds = Responses!Start.holds, !.textFrames = {}, !.argFrames = {}]
           flushed == Responses!FlushHeld(s, ok)
           x == Responses!Sent(flushed.out)
           item(i) == [sent |-> "event", body |-> [event |-> events[i], number |-> cleared.next + i - 1]]
<1>1. /\ events \in Seq(EventsOver(Seq(Shown)))
      /\ \A i \in 1 .. Len(events) :
           /\ events[i].type \in DeltaTypes /\ events[i].key \in Debts(s)
           /\ events[i].value = Guarded(Owes(s, events[i].key), ok)
      /\ \A i, j \in 1 .. Len(events) : events[i].key = events[j].key => i = j
      /\ \A k \in Debts(s) : \E i \in 1 .. Len(events) : events[i].key = k
  BY OwedEvents
<1>2. flushed = [state |-> [cleared EXCEPT !.next = @ + Len(events)],
                 out |-> [i \in DOMAIN events |->
                            [event |-> events[i], number |-> cleared.next + i - 1]]]
  BY DEF Responses!FlushHeld, Responses!Sequenced
<1> HIDE DEF events
<1>3. /\ cleared \in ReplyState /\ cleared.next \in Int /\ cleared.arguments = s.arguments
      /\ cleared.holds = [r \in Runs |-> << >>] /\ cleared.textFrames = {} /\ cleared.argFrames = {}
  <2>1. [r \in Runs |-> << >>] \in [Runs -> Seq(Fragment)]
    OBVIOUS
  <2> QED BY <2>1 DEF ReplyState, Responses!Start
<1> HIDE DEF cleared
<1>4. Len(events) \in Nat /\ DOMAIN events = 1 .. Len(events)
  BY <1>1
<1>5. x = [i \in 1 .. Len(events) |-> item(i)]
  BY <1>2, <1>4 DEF Responses!Sent
<1>6. /\ flushed.state \in ReplyState /\ flushed.state.holds = [r \in Runs |-> << >>]
      /\ flushed.state.arguments = s.arguments
      /\ flushed.state.textFrames = {} /\ flushed.state.argFrames = {}
  <2>1. flushed.state = [cleared EXCEPT !.next = @ + Len(events)]
    BY <1>2
  <2> HIDE DEF flushed
  <2>2. cleared.next + Len(events) \in Int
    BY <1>3, <1>4
  <2> QED BY <1>3, <2>1, <2>2 DEF ReplyState
<1> HIDE DEF x, flushed
<1>7. ASSUME NEW i \in 1 .. Len(events) PROVE item(i) \in ReplyItem
  <2>1. cleared.next + i - 1 \in Int /\ events[i] \in EventsOver(Seq(Shown))
    BY <1>1, <1>3
  <2> QED BY <2>1 DEF ReplyItem
<1>8. x \in Seq(ReplyItem) /\ DOMAIN x = 1 .. Len(events) /\ Len(x) = Len(events)
  BY <1>4, <1>5, <1>7
<1>9. \A i \in 1 .. Len(events) :
        Speaks(x[i]) /\ x[i].sent = "event" /\ x[i].body.event = events[i]
  BY <1>1, <1>5 DEF Speaks
<1>10. ReplyFlush(x, s, ok, TRUE)
  <2>1. \A i, j \in DOMAIN x : x[i].body.event.key = x[j].body.event.key => i = j
    BY <1>1, <1>8, <1>9
  <2>2. \A k \in Debts(s) : \E i \in DOMAIN x : Speaks(x[i]) /\ x[i].body.event.key = k
    BY <1>1, <1>8, <1>9
  <2>3. \A i \in DOMAIN x :
          /\ Speaks(x[i]) /\ x[i].sent # "raw" /\ x[i].body.event.key \in Debts(s)
          /\ x[i].body.event.value = Guarded(Owes(s, x[i].body.event.key), ok)
    BY <1>1, <1>8, <1>9
  <2> QED BY <1>8, <2>1, <2>2, <2>3 DEF ReplyFlush, NoRaw
<1> QED BY <1>6, <1>8, <1>9, <1>10 DEF x, flushed

LEMMA ReplyFramed ==
  ASSUME NEW x, NEW s, NEW ok \in BOOLEAN, ReplyFlush(x, s, ok, TRUE),
         \A i \in DOMAIN x : Speaks(x[i]), NEW y \in ReplyItem, ~Speaks(y)
  PROVE  /\ y.sent # "raw" => ReplyFlush(x \o <<y>>, s, ok, TRUE)
         /\ y.sent = "raw" => ReplyFlush(<<y>> \o x, s, ok, FALSE)
<1> DEFINE n == Len(x)
           d == <<y>>
           xd == x \o d
           dx == d \o x
<1>1. x \in Seq(ReplyItem) /\ n \in Nat /\ DOMAIN x = 1 .. n
  BY DEF ReplyFlush
<1>2. d \in Seq(ReplyItem) /\ Len(d) = 1 /\ d[1] = y
  OBVIOUS
<1> HIDE DEF d
<1>3. /\ xd \in Seq(ReplyItem) /\ Len(xd) = n + 1 /\ DOMAIN xd = 1 .. (n + 1)
      /\ (\A i \in 1 .. n : xd[i] = x[i]) /\ xd[n + 1] = y
  <2>1. /\ x \o d \in Seq(ReplyItem) /\ Len(x \o d) = Len(x) + Len(d)
        /\ \A i \in 1 .. Len(x) : (x \o d)[i] = x[i]
        /\ \A i \in 1 .. Len(d) : (x \o d)[Len(x) + i] = d[i]
    <3>1. x \in Seq(ReplyItem) /\ d \in Seq(ReplyItem)
      BY <1>1, <1>2
    <3> QED BY ONLY <3>1, JoinFacts
  <2> QED BY <1>1, <1>2, <2>1
<1>4. /\ dx \in Seq(ReplyItem) /\ Len(dx) = n + 1 /\ DOMAIN dx = 1 .. (n + 1)
      /\ (\A i \in 1 .. n : dx[1 + i] = x[i]) /\ dx[1] = y
  <2>1. /\ d \o x \in Seq(ReplyItem) /\ Len(d \o x) = Len(d) + Len(x)
        /\ \A i \in 1 .. Len(d) : (d \o x)[i] = d[i]
        /\ \A i \in 1 .. Len(x) : (d \o x)[Len(d) + i] = x[i]
    <3>1. d \in Seq(ReplyItem) /\ x \in Seq(ReplyItem)
      BY <1>1, <1>2
    <3> QED BY ONLY <3>1, JoinFacts
  <2> QED BY <1>1, <1>2, <2>1
<1> HIDE DEF xd, dx, n
<1>5. \A i \in 1 .. (n + 1) : i # n + 1 => i \in 1 .. n
  BY <1>1
<1>6. \A i \in 1 .. (n + 1) : i # 1 => i - 1 \in 1 .. n /\ i = 1 + (i - 1)
  BY <1>1
<1>7. \A i \in 1 .. n : 1 + i \in 1 .. (n + 1) /\ i \in 1 .. (n + 1) /\ (1 + i) - 1 = i
  BY <1>1
<1>8. \A i, j \in DOMAIN x : x[i].body.event.key = x[j].body.event.key => i = j
  BY DEF ReplyFlush
<1>9. \A k \in Debts(s) : \E i \in DOMAIN x : Speaks(x[i]) /\ x[i].body.event.key = k
  BY DEF ReplyFlush
<1>10. \A i \in DOMAIN x : /\ x[i].body.event.key \in Debts(s) /\ Speaks(x[i]) /\ x[i].sent # "raw"
                           /\ x[i].body.event.value = Guarded(Owes(s, x[i].body.event.key), ok)
  BY DEF ReplyFlush, NoRaw
<1>11. ASSUME y.sent # "raw" PROVE ReplyFlush(xd, s, ok, TRUE)
  <2>1. \A i \in DOMAIN xd : (i \in 1 .. n /\ xd[i] = x[i]) \/ (i = Len(xd) /\ xd[i] = y)
    BY <1>3, <1>5
  <2>2. \A k \in Debts(s) : \E i \in DOMAIN xd : Speaks(xd[i]) /\ xd[i].body.event.key = k
    <3> TAKE k \in Debts(s)
    <3>1. PICK i \in 1 .. n : Speaks(x[i]) /\ x[i].body.event.key = k
      BY <1>1, <1>9
    <3>2. i \in DOMAIN xd /\ xd[i] = x[i]
      BY <1>3, <1>7
    <3> QED BY <3>1, <3>2
  <2>3. ASSUME NEW i \in DOMAIN xd, NEW j \in DOMAIN xd, Speaks(xd[i]), Speaks(xd[j]),
               xd[i].body.event.key = xd[j].body.event.key
        PROVE  i = j
    <3>1. i \in 1 .. n /\ xd[i] = x[i] /\ j \in 1 .. n /\ xd[j] = x[j]
      BY <2>1, <2>3
    <3> QED BY <1>1, <1>8, <2>3, <3>1
  <2>4. ASSUME NEW i \in DOMAIN xd, Speaks(xd[i])
        PROVE  /\ xd[i].body.event.key \in Debts(s)
               /\ xd[i].body.event.value = Guarded(Owes(s, xd[i].body.event.key), ok)
    BY <1>1, <1>10, <2>1, <2>4
  <2>5. NoRaw(xd) /\ \A i \in DOMAIN xd : ~Speaks(xd[i]) => i = Len(xd)
    BY <1>1, <1>10, <1>11, <2>1 DEF NoRaw
  <2> QED BY <1>3, <2>2, <2>3, <2>4, <2>5 DEF ReplyFlush
<1>12. ASSUME y.sent = "raw" PROVE ReplyFlush(dx, s, ok, FALSE)
  <2>1. ASSUME NEW i \in DOMAIN dx
        PROVE  (i = 1 /\ dx[i] = y) \/ (\E k \in 1 .. n : i = 1 + k /\ dx[i] = x[k])
    <3>1. CASE i = 1
      BY <1>4, <3>1
    <3>2. CASE i # 1
      <4>1. PICK k \in 1 .. n : i = 1 + k
        BY <1>4, <1>6, <3>2
      <4> QED BY <1>4, <4>1
    <3> QED BY <3>1, <3>2
  <2>2. \A k \in Debts(s) : \E i \in DOMAIN dx : Speaks(dx[i]) /\ dx[i].body.event.key = k
    <3> TAKE k \in Debts(s)
    <3>1. PICK i \in 1 .. n : Speaks(x[i]) /\ x[i].body.event.key = k
      BY <1>1, <1>9
    <3>2. 1 + i \in DOMAIN dx /\ dx[1 + i] = x[i]
      BY <1>4, <1>7
    <3> QED BY <3>1, <3>2
  <2>3. ASSUME NEW i \in DOMAIN dx, NEW j \in DOMAIN dx, Speaks(dx[i]), Speaks(dx[j]),
               dx[i].body.event.key = dx[j].body.event.key
        PROVE  i = j
    <3>1. PICK k \in 1 .. n : i = 1 + k /\ dx[i] = x[k]
      BY <2>1, <2>3
    <3>2. PICK m \in 1 .. n : j = 1 + m /\ dx[j] = x[m]
      BY <2>1, <2>3
    <3> QED BY <1>1, <1>8, <2>3, <3>1, <3>2
  <2>4. ASSUME NEW i \in DOMAIN dx, Speaks(dx[i])
        PROVE  /\ dx[i].body.event.key \in Debts(s)
               /\ dx[i].body.event.value = Guarded(Owes(s, dx[i].body.event.key), ok)
    <3>1. PICK k \in DOMAIN x : dx[i] = x[k]
      BY <1>1, <2>1, <2>4
    <3> QED BY <1>10, <3>1
  <2>5. ASSUME NEW i \in DOMAIN dx, ~Speaks(dx[i]) PROVE dx[i].sent = "raw"
    <3>1. ASSUME NEW k \in 1 .. n, dx[i] = x[k] PROVE FALSE
      BY <1>1, <1>10, <2>5, <3>1
    <3> QED BY <1>12, <2>1, <3>1
  <2> QED BY <1>4, <2>2, <2>3, <2>4, <2>5 DEF ReplyFlush
<1> QED BY <1>11, <1>12 DEF xd, dx, d

\* The relay keeps of a key only what a flush hands over.
LEMMA KeyFacts ==
  ASSUME ReplyTyped, NEW k \in Keys, KeyOK(k)
  PROVE  /\ Read(k) \in Seq(Shown) /\ (~missed => ~Whole(Read(k)))
         /\ Owes(state, k) # << >> => k \in Debts(state)
         /\ k \in Debts(state) => ~Closed(received, k)
         /\ \A ok \in BOOLEAN : Delivered(Said(k), Read(k) \o Guarded(Owes(state, k), ok), missed \/ ~ok)
<1>1. missed \in BOOLEAN /\ Said(k) \in Seq(Fragment) /\ Read(k) \in Seq(Shown)
      /\ state.textFrames \subseteq Runs /\ state.argFrames \subseteq Calls
  BY SaidTyped, ReadTyped DEF ReplyTyped, Read, ReplyState
<1>2. (k \in Runs /\ k \notin Calls) \/ (k \in Calls /\ k \notin Runs)
  BY KeyAssumption DEF Keys
<1>3. Read(k) \o << >> = Read(k)
  BY <1>1
<1>4. CASE Closed(received, k)
  <2>1. Delivered(Said(k), Read(k), missed) /\ Owes(state, k) = << >>
        /\ k \notin state.textFrames \cup state.argFrames
    BY <1>1, <1>2, <1>4 DEF KeyOK, Owes
  <2>2. ~missed => ~Whole(Read(k))
    BY <1>1, <2>1, DeliveredWhole
  <2>3. \A ok \in BOOLEAN : Delivered(Said(k), Read(k), missed \/ ~ok)
    BY <1>1, <2>1, StillRelayed
  <2> QED BY <1>1, <1>3, <2>1, <2>2, <2>3, NothingWhole DEF Debts
<1>5. CASE ~Closed(received, k) /\ k \in Runs
  <2>1. /\ Relayed(Said(k), state.holds[k], Read(k), missed) /\ Owes(state, k) = state.holds[k]
        /\ state.holds[k] # << >> => k \in state.textFrames
    BY <1>5 DEF KeyOK, Owes
  <2>2. ~missed => ~Whole(Read(k))
    BY <1>1, <2>1, RelayedWhole
  <2>3. \A ok \in BOOLEAN : Delivered(Said(k), Read(k) \o Guarded(Owes(state, k), ok), missed \/ ~ok)
    BY <1>1, <2>1, LastDelivers
  <2> QED BY <1>1, <1>5, <2>1, <2>2, <2>3 DEF Debts
<1>6. CASE ~Closed(received, k) /\ k \in Calls
  <2>1. /\ state.arguments[k] = Said(k) /\ Read(k) = << >> /\ Owes(state, k) = Said(k)
        /\ Said(k) # << >> => k \in state.argFrames
    BY <1>2, <1>6 DEF KeyOK, Owes
  <2>2. ~Whole(Read(k))
    BY <2>1, NothingWhole
  <2>3. ASSUME NEW ok \in BOOLEAN
        PROVE  Delivered(Said(k), Read(k) \o Guarded(Owes(state, k), ok), missed \/ ~ok)
    <3>1. Guarded(Said(k), ok) \in Seq(Shown)
      BY <1>1, GuardedFacts
    <3>2. << >> \o Guarded(Said(k), ok) = Guarded(Said(k), ok)
      BY <3>1
    <3>3. Delivered(Said(k), Guarded(Said(k), ok), missed \/ ~ok)
      BY <1>1, LastDelivers
    <3> QED BY <2>1, <3>2, <3>3
  <2> QED BY <1>1, <1>6, <2>1, <2>2, <2>3 DEF Debts
<1> QED BY <1>2, <1>4, <1>5, <1>6

\* What a flush hands over.
LEMMA ReplyHandsOver ==
  ASSUME ReplyInvariant, Answering, NEW ok \in BOOLEAN, NEW whole \in BOOLEAN, NEW x,
         ReplyFlush(x, state, ok, whole), out' = out \o x, NEW k \in Keys
  PROVE  /\ out' \in Seq(ReplyItem)
         /\ whole => Delivered(Said(k), Read(k)', missed \/ ~ok)
         /\ ~(missed \/ ~ok) => ~Whole(Read(k)')
<1>1. ReplyTyped /\ NoRaw(out) /\ KeyOK(k) /\ missed \in BOOLEAN
  BY DEF ReplyInvariant, ReplyOpen, ReplyTyped
<1>2. x \in Seq(ReplyItem)
  BY DEF ReplyFlush
<1>3. out' \in Seq(ReplyItem) /\ Read(k)' = Read(k) \o Heard(x, ReadBy(k))
  BY <1>1, <1>2, ReplySends
<1>4. /\ Read(k) \in Seq(Shown) /\ (~missed => ~Whole(Read(k)))
      /\ Owes(state, k) # << >> => k \in Debts(state)
      /\ Delivered(Said(k), Read(k) \o Guarded(Owes(state, k), ok), missed \/ ~ok)
  BY <1>1, KeyFacts
<1>5. HeardOf(Owes(state, k), ok, whole, Heard(x, ReadBy(k)))
  BY <1>4, ReplyFlushHeard
<1>6. Read(k) \o << >> = Read(k)
  BY <1>4
<1>7. ~(missed \/ ~ok) => ~Whole(Read(k) \o Guarded(Owes(state, k), ok))
  BY <1>1, <1>4, DeliveredWhole
<1> QED BY <1>3, <1>4, <1>5, <1>6, <1>7 DEF HeardOf

\* Besides deltas, x has only a terminal event that agrees with the items.
Repeated(x, items, lost) ==
  \A j \in DOMAIN x : (x[j].sent = "event" /\ ~Speaks(x[j])) =>
    /\ x[j].body.event.type = "terminal"
    /\ Repeats(x[j].body.event, items, Len(items), lost)

LEMMA ReplyAppends ==
  ASSUME ReplyInvariant, Answering, NEW ok \in BOOLEAN, NEW whole \in BOOLEAN, NEW x,
         ReplyFlush(x, state, ok, whole), out' = out \o x, missed' = (missed \/ ~ok),
         Repeated(x, out', missed')
  PROVE  ReplyOrder(out') /\ Agreement(out', missed')
<1>1. /\ ReplyTyped /\ ReplyOrder(out) /\ Agreement(out, missed) /\ NoRaw(out)
      /\ out \in Seq(ReplyItem) /\ missed \in BOOLEAN /\ x \in Seq(ReplyItem)
  BY DEF ReplyInvariant, ReplyOpen, ReplyTyped, ReplyFlush
<1>2. /\ \A i \in DOMAIN out : out[i].sent # "done"
      /\ \A i \in DOMAIN out : out[i].sent = "event" =>
           /\ out[i].body.event.type # "terminal"
           /\ out[i].body.event.type \in Responses!LastWords => Closed(received, out[i].body.event.key)
      /\ \A k \in Keys : KeyOK(k)
  BY DEF ReplyInvariant, ReplyOpen
<1>3. ReplyOrder(x)
  BY ReplyFlushOrder
<1>4. ASSUME NEW j \in DOMAIN x, Speaks(x[j]) PROVE ~Closed(received, x[j].body.event.key)
  <2>1. x[j].body.event.key \in Debts(state) /\ x[j].body.event.key \in Keys
    BY <1>4 DEF ReplyFlush, Debts
  <2> QED BY <1>1, <1>2, <2>1, KeyFacts
<1>5. ASSUME NEW i \in DOMAIN out, NEW j \in DOMAIN x, out[i].sent = "event", x[j].sent = "event"
      PROVE  /\ out[i].body.event.type # "terminal"
             /\ out[i].body.event.type \in Responses!LastWords =>
                  \/ x[j].body.event.type \in {"part_done", "item_done", "terminal"}
                  \/ x[j].body.event.key # out[i].body.event.key
  <2>1. CASE Speaks(x[j])
    BY <1>2, <1>4, <1>5, <2>1
  <2>2. CASE ~Speaks(x[j])
    <3>1. x[j].body.event.type = "terminal"
      BY <1>5, <2>2 DEF Repeated
    <3> QED BY <1>2, <1>5, <3>1
  <2> QED BY <2>1, <2>2
<1>6. ASSUME NEW j \in DOMAIN x, x[j].sent = "event", x[j].body.event.type \notin DeltaTypes
      PROVE  j = Len(x) /\ Repeats(x[j].body.event, out \o x, Len(out \o x), missed')
  <2>1. ~Speaks(x[j])
    BY <1>6 DEF Speaks
  <2>2. j = Len(x)
    BY <1>6, <2>1 DEF ReplyFlush
  <2> QED BY <1>6, <2>1, <2>2 DEF Repeated
<1>7. missed' \in BOOLEAN /\ (~missed' => ~missed)
  BY <1>1
<1>8. ReplyOrder(out \o x) /\ Agreement(out \o x, missed')
  BY <1>1, <1>2, <1>3, <1>5, <1>6, <1>7, ReplyJoins
<1> QED BY <1>8

LEMMA ReplyStreams == Responses!MayArrive => Streaming
<1>1. ASSUME NEW i \in DOMAIN received, received[i] = Responses!Done
      PROVE  Responses!Contains(received, Responses!Done)
  BY <1>1 DEF Responses!Contains
<1>2. Responses!Done = Chat!Done
  BY DEF Responses!Done, Chat!Done
<1> QED BY <1>1, <1>2 DEF Responses!MayArrive, Streaming

\* Items that are no events say nothing.
LEMMA ReplyUnheard ==
  ASSUME ReplyTyped, NoRaw(out), ReplyOrder(out), Agreement(out, missed), NEW x \in Seq(ReplyItem),
         \A i \in DOMAIN x : x[i].sent # "event", out' = out \o x,
         missed' \in BOOLEAN, ~missed' => ~missed
  PROVE  /\ out' \in Seq(ReplyItem) /\ ReplyOrder(out') /\ Agreement(out', missed')
         /\ \A k \in Keys : Read(k)' = Read(k)
<1>1. out \in Seq(ReplyItem) /\ missed \in BOOLEAN
  BY DEF ReplyTyped
<1>2. /\ out' \in Seq(ReplyItem)
      /\ \A k \in Keys : Read(k)' = Read(k) \o Heard(x, ReadBy(k))
  BY ReplySends
<1>3. ASSUME NEW k \in Keys PROVE Read(k)' = Read(k)
  <2> DEFINE g == ReadBy(k)
  <2>1. DOMAIN x = 1 .. Len(x) /\ \A i \in 1 .. Len(x) : x[i] \in ReplyItem
    OBVIOUS
  <2>2. \A i \in 1 .. Len(x) : g[x[i]] = << >>
    BY <2>1, ItemFacts
  <2> HIDE DEF g
  <2>3. Heard(x, g) = << >>
    BY <2>2, HeardNothing
  <2>4. Read(k) \in Seq(Shown)
    BY <1>1, ReadTyped DEF Read
  <2> QED BY <1>2, <2>3, <2>4 DEF g
<1>4. ReplyOrder(x)
  BY DEF ReplyOrder, Legible
<1>5. ReplyOrder(out \o x) /\ Agreement(out \o x, missed')
  BY <1>1, <1>4, ReplyJoins
<1> QED BY <1>2, <1>3, <1>5

LEMMA ReplyInit == ASSUME Responses!RelayInit PROVE ReplyInvariant
<1>1. /\ received = << >> /\ cut = "none" /\ out = << >> /\ status = "open" /\ missed = FALSE
      /\ state = Responses!Start
  BY DEF Responses!RelayInit
<1>2. << >> \in Seq(ReplyBlock) /\ << >> \in Seq(ReplyItem) /\ << >> \in Seq(Fragment)
  OBVIOUS
<1>3. /\ state \in ReplyState /\ state.textFrames = {} /\ state.argFrames = {}
      /\ \A r \in Runs : state.holds[r] = << >>
      /\ \A c \in Calls : state.arguments[c] = << >>
  BY <1>1, <1>2 DEF ReplyState, Responses!Start
<1>4. ReplyTyped
  BY <1>1, <1>2, <1>3 DEF ReplyTyped
<1>5. DOMAIN received = {} /\ DOMAIN out = {}
  BY <1>1
<1>6. ReplyOrder(out) /\ Agreement(out, missed) /\ NoRaw(out) /\ Answering
  BY <1>1, <1>5 DEF ReplyOrder, Agreement, Legible, NoRaw, Streaming, Answering, Concluded
<1>7. ASSUME NEW k \in Keys PROVE KeyOK(k)
  <2>1. ~Closed(received, k)
    BY <1>5 DEF Closed
  <2>2. [i \in DOMAIN received |-> SaidBy(k)[received[i]]] = << >>
    BY <1>1, <1>5
  <2>3. Said(k) = << >>
    BY <2>2, FlattenEmpty DEF Said, Told
  <2>4. Read(k) = << >>
    <3>1. ASSUME NEW g PROVE Heard(out, g) = << >>
      <4>1. out \in Seq(ReplyItem) /\ \A i \in 1 .. Len(out) : g[out[i]] = << >>
        BY <1>1, <1>2
      <4> QED BY ONLY <4>1, HeardNothing
    <3> QED BY <3>1 DEF Read
  <2> QED BY <1>1, <1>3, <2>1, <2>3, <2>4, NothingYet DEF KeyOK
<1> QED BY <1>4, <1>5, <1>6, <1>7 DEF ReplyInvariant, ReplyOpen

LEMMA ReplyQuiet ==
  ASSUME ReplyInvariant, Responses!ArrivePart \/ Responses!DecoderRaises
  PROVE  ReplyInvariant'
<1>1. CASE Responses!ArrivePart
  <2>1. Streaming /\ cut' \in {"event", "char"} /\ UNCHANGED <<received, state, out, status, missed>>
        /\ status = "open"
    BY <1>1, ReplyStreams DEF Responses!ArrivePart, Responses!MayArrive
  <2>2. ReplyTyped' /\ ReplyOrder(out)' /\ Agreement(out, missed)' /\ (Answering' <=> Answering)
    BY <2>1 DEF ReplyInvariant, ReplyTyped, Answering, Streaming
  <2>3. CASE Answering
    <3>1. ReplyOpen'
      BY <2>1, <2>3 DEF ReplyInvariant, ReplyOpen, KeyOK, Said, Read
    <3> QED BY <2>2, <2>3, <3>1 DEF ReplyInvariant
  <2>4. CASE ~Answering
    <3>1. Settled /\ (~missed => \A k \in Keys : ~Whole(Read(k)))
      BY <2>1, <2>4 DEF ReplyInvariant, ReplyEnded
    <3>2. Settled' /\ (~missed' => \A k \in Keys : ~Whole(Read(k)'))
      BY <2>1, <3>1 DEF Settled, Said, Read
    <3>3. ReplyEnded'
      BY <3>2 DEF ReplyEnded, Settled
    <3> QED BY <2>2, <2>4, <3>3 DEF ReplyInvariant
  <2> QED BY <2>3, <2>4
<1>2. CASE Responses!DecoderRaises
  <2>1. /\ status = "open" /\ cut = "char" /\ status' = "raised"
        /\ UNCHANGED <<received, cut, state, out, missed>>
    BY <1>2 DEF Responses!DecoderRaises
  <2>2. ~Answering'
    BY <2>1 DEF Answering, Streaming
  <2>3. ReplyTyped' /\ ReplyOrder(out)' /\ Agreement(out, missed)'
    BY <2>1 DEF ReplyInvariant, ReplyTyped
  <2>4. ASSUME ~missed, NEW k \in Keys PROVE ~Whole(Read(k))
    <3>1. CASE Answering
      BY <2>4, <3>1, KeyFacts DEF ReplyInvariant, ReplyOpen
    <3>2. CASE ~Answering
      BY <2>4, <3>2 DEF ReplyInvariant, ReplyEnded
    <3> QED BY <3>1, <3>2
  <2>5. ReplyEnded'
    BY <2>1, <2>4 DEF ReplyEnded, Read
  <2> QED BY <2>2, <2>3, <2>5 DEF ReplyInvariant
<1> QED BY <1>1, <1>2

\* A key of which nothing changes but what a failed lookup takes away.
LEMMA KeyStays ==
  ASSUME NEW k \in Keys, KeyOK(k), missed \in BOOLEAN, NEW ok \in BOOLEAN, missed' = (missed \/ ~ok),
         Said(k)' = Said(k), Read(k)' = Read(k), Closed(received', k) <=> Closed(received, k),
         k \in Runs => /\ state'.holds[k] = state.holds[k]
                       /\ k \in state'.textFrames <=> k \in state.textFrames,
         k \in Calls => /\ state'.arguments[k] = state.arguments[k]
                        /\ k \in state'.argFrames <=> k \in state.argFrames
  PROVE  KeyOK(k)'
<1>1. CASE Closed(received, k)
  <2>1. Delivered(Said(k), Read(k), missed)
    BY <1>1 DEF KeyOK
  <2>2. Delivered(Said(k), Read(k), missed \/ ~ok)
    BY <2>1, StillRelayed
  <2> QED BY <1>1, <2>2 DEF KeyOK
<1>2. CASE ~Closed(received, k)
  <2>1. ASSUME k \in Runs
        PROVE  /\ Relayed(Said(k), state.holds[k], Read(k), missed \/ ~ok)
               /\ state.holds[k] # << >> => k \in state.textFrames
    <3>1. /\ Relayed(Said(k), state.holds[k], Read(k), missed)
          /\ state.holds[k] # << >> => k \in state.textFrames
      BY <1>2, <2>1 DEF KeyOK
    <3> QED BY <3>1, StillRelayed
  <2>2. ASSUME k \in Calls
        PROVE  /\ state.arguments[k] = Said(k) /\ Read(k) = << >>
               /\ Said(k) # << >> => k \in state.argFrames
    BY <1>2, <2>2 DEF KeyOK
  <2> QED BY <1>2, <2>1, <2>2 DEF KeyOK
<1> QED BY <1>1, <1>2

LEMMA ReplyOther == ASSUME ReplyInvariant, Responses!RelayOther PROVE ReplyInvariant'
<1> DEFINE y == Other("other")
           b == Responses!Other
           x == <<y>>
<1>1. Streaming /\ received' = Append(received, b) /\ status' = status /\ cut' = "none"
      /\ status = "open"
  BY ReplyStreams DEF Responses!RelayOther, Responses!Receive, Responses!MayArrive
<1>2. out' = out \o x /\ state' = state /\ missed' = missed
  BY DEF Responses!RelayOther, Responses!Verbatim, Other
<1>3. b \in ReplyBlock /\ b # Responses!Done /\ b.block # "event" /\ Responses!Done = Chat!Done
  BY DEF ReplyBlock, Responses!Other, Responses!Done, Chat!Done
<1>4. x \in Seq(ReplyItem) /\ \A i \in DOMAIN x : x[i].sent = "other"
  BY DEF Other, ReplyItem
<1> HIDE DEF b, x
<1>5. ReplyTyped /\ ReplyOrder(out) /\ Agreement(out, missed) /\ missed \in BOOLEAN
  BY DEF ReplyInvariant, ReplyTyped
<1>6. NoRaw(out)
  BY <1>1 DEF ReplyInvariant, ReplyOpen, ReplyEnded, Settled
<1>7. /\ received' \in Seq(ReplyBlock) /\ Streaming'
      /\ \A k \in Keys : Said(k)' = Said(k) \o SaidBy(k)[b] /\ Said(k) \in Seq(Fragment)
      /\ \A k : Closed(received', k) <=> Closed(received, k)
      /\ Concluded(received') <=> Concluded(received)
  BY <1>1, <1>3, <1>5, ReplyReceives DEF Streaming
<1>8. ASSUME NEW k \in Keys PROVE Said(k)' = Said(k)
  <2>1. SaidBy(k)[b] = << >>
    BY <1>3 DEF SaidBy
  <2> QED BY <1>7, <2>1
<1>9. /\ out' \in Seq(ReplyItem) /\ ReplyOrder(out') /\ Agreement(out', missed')
      /\ \A k \in Keys : Read(k)' = Read(k)
  BY <1>2, <1>4, <1>5, <1>6, ReplyUnheard
<1>10. ReplyTyped' /\ (Answering' <=> Answering)
  BY <1>1, <1>2, <1>5, <1>7, <1>9 DEF ReplyTyped, Answering
<1>11. \A i \in DOMAIN out' : (\E j \in DOMAIN out : out'[i] = out[j]) \/ out'[i].sent = "other"
  <2>1. \A i \in DOMAIN out' : (\E j \in DOMAIN out : out'[i] = out[j])
                                 \/ (\E j \in DOMAIN x : out'[i] = x[j])
    BY <1>2, <1>4, <1>5, <1>6, ReplySends
  <2> QED BY <1>4, <2>1
<1>12. NoRaw(out')
  BY <1>6, <1>11 DEF NoRaw
<1>13. CASE Answering
  <2>1. ASSUME NEW k \in Keys PROVE KeyOK(k)'
    <3>1. KeyOK(k) /\ missed' = (missed \/ ~TRUE)
      BY <1>2, <1>5, <1>13 DEF ReplyInvariant, ReplyOpen
    <3> QED BY <1>2, <1>5, <1>7, <1>8, <1>9, <3>1, KeyStays
  <2>2. ReplyOpen'
    BY <1>7, <1>11, <1>12, <1>13, <2>1 DEF ReplyInvariant, ReplyOpen
  <2> QED BY <1>9, <1>10, <1>13, <2>2, SMTT(30) DEF ReplyInvariant
<1>14. CASE ~Answering
  <2>1. Settled /\ (~missed => \A k \in Keys : ~Whole(Read(k)))
    BY <1>1, <1>14 DEF ReplyInvariant, ReplyEnded
  <2>2. Settled' /\ (~missed' => \A k \in Keys : ~Whole(Read(k)'))
    BY <1>2, <1>8, <1>9, <1>12, <2>1 DEF Settled
  <2>3. ReplyEnded'
    BY <2>2 DEF ReplyEnded, Settled
  <2> QED BY <1>9, <1>10, <1>14, <2>3 DEF ReplyInvariant
<1> QED BY <1>13, <1>14

\* A flush that ends the answer, or the stream.
LEMMA ReplyEnds ==
  ASSUME ReplyInvariant, Answering, NEW ok \in BOOLEAN, NEW whole \in BOOLEAN, NEW x,
         ReplyFlush(x, state, ok, whole), out' = out \o x, missed' = (missed \/ ~ok),
         Repeated(x, out', missed'),
         state' \in ReplyState, state'.textFrames = {}, state'.argFrames = {},
         \A k \in Keys : Said(k)' = Said(k),
         received' \in Seq(ReplyBlock), ~Answering', status' \in {"open", "closed", "raised"},
         cut' \in {"none", "event", "char"}, status' = "open" => whole,
         cut' = "none" \/ (status' = "raised" /\ cut' # "char") => whole
  PROVE  ReplyInvariant'
<1>1. missed \in BOOLEAN /\ NoRaw(out)
  BY DEF ReplyInvariant, ReplyOpen, ReplyTyped
<1>2. ReplyOrder(out') /\ Agreement(out', missed')
  BY ReplyAppends
<1>3. out' \in Seq(ReplyItem)
  <2>1. out \in Seq(ReplyItem) /\ x \in Seq(ReplyItem)
    BY DEF ReplyInvariant, ReplyTyped, ReplyFlush
  <2>2. out \o x \in Seq(ReplyItem)
    BY ONLY <2>1, JoinFacts
  <2> QED BY <2>2
<1>4. ASSUME NEW k \in Keys
      PROVE  /\ whole => Delivered(Said(k)', Read(k)', missed')
             /\ ~missed' => ~Whole(Read(k)')
  <2>1. /\ whole => Delivered(Said(k), Read(k)', missed \/ ~ok)
        /\ ~(missed \/ ~ok) => ~Whole(Read(k)')
    BY ReplyHandsOver
  <2> QED BY <2>1
<1>5. ReplyTyped'
  BY <1>1, <1>3 DEF ReplyTyped
<1>6. whole => NoRaw(out')
  <2>1. ReplyTyped /\ x \in Seq(ReplyItem)
    BY DEF ReplyInvariant, ReplyFlush
  <2>2. \A i \in DOMAIN out' : (\E j \in DOMAIN out : out'[i] = out[j])
                                 \/ (\E j \in DOMAIN x : out'[i] = x[j])
    BY <1>1, <2>1, ReplySends
  <2> QED BY <1>1, <2>2 DEF NoRaw, ReplyFlush
<1>7. ReplyEnded'
  BY <1>4, <1>6 DEF ReplyEnded, Settled
<1> QED BY <1>2, <1>5, <1>7 DEF ReplyInvariant

\* Behind the answer nothing is left to hand over.
LEMMA ReplyStops ==
  ASSUME ReplyInvariant, ~Answering, status = "open", NEW ok \in BOOLEAN, NEW x \in Seq(ReplyItem),
         \A i \in DOMAIN x : x[i].sent # "event", out' = out \o x, missed' = (missed \/ ~ok),
         state' \in ReplyState, state'.textFrames = {}, state'.argFrames = {},
         \A k \in Keys : Said(k)' = Said(k),
         received' \in Seq(ReplyBlock), ~Answering', status' \in {"open", "closed", "raised"},
         cut' \in {"none", "event", "char"}, status' = "open" => NoRaw(x)
  PROVE  ReplyInvariant'
<1>1. /\ ReplyTyped /\ ReplyOrder(out) /\ Agreement(out, missed) /\ missed \in BOOLEAN
      /\ Settled /\ NoRaw(out) /\ \A k \in Keys : Delivered(Said(k), Read(k), missed)
      /\ ~missed => \A k \in Keys : ~Whole(Read(k))
  BY DEF ReplyInvariant, ReplyTyped, ReplyEnded, Settled
<1>2. missed' \in BOOLEAN /\ (~missed' => ~missed)
  BY <1>1
<1>3. /\ out' \in Seq(ReplyItem) /\ ReplyOrder(out') /\ Agreement(out', missed')
      /\ \A k \in Keys : Read(k)' = Read(k)
  BY <1>1, <1>2, ReplyUnheard
<1>4. ReplyTyped'
  BY <1>2, <1>3 DEF ReplyTyped
<1>5. ASSUME NEW k \in Keys PROVE Delivered(Said(k), Read(k), missed)'
  <2>1. Delivered(Said(k), Read(k), missed \/ ~ok)
    BY <1>1, StillRelayed
  <2> QED BY <1>3, <2>1
<1>6. NoRaw(x) => NoRaw(out')
  <2>1. \A i \in DOMAIN out' : (\E j \in DOMAIN out : out'[i] = out[j])
                                 \/ (\E j \in DOMAIN x : out'[i] = x[j])
    BY <1>1, ReplySends
  <2> QED BY <1>1, <2>1 DEF NoRaw
<1>7. ReplyEnded'
  BY <1>1, <1>2, <1>3, <1>5, <1>6 DEF ReplyEnded, Settled
<1> QED BY <1>3, <1>4, <1>7 DEF ReplyInvariant

\* A flush with nothing to hand over.
LEMMA ReplySpent ==
  ASSUME NEW s \in ReplyState, s.textFrames = {}, s.argFrames = {}, NEW ok \in BOOLEAN
  PROVE  /\ Responses!Sent(Responses!FlushHeld(s, ok).out) = << >>
         /\ Responses!FlushHeld(s, ok).state \in ReplyState
         /\ Responses!FlushHeld(s, ok).state.textFrames = {}
         /\ Responses!FlushHeld(s, ok).state.argFrames = {}
<1> DEFINE x == Responses!Sent(Responses!FlushHeld(s, ok).out)
<1>1. /\ ReplyFlush(x, s, ok, TRUE) /\ \A i \in DOMAIN x : Speaks(x[i])
      /\ Responses!FlushHeld(s, ok).state \in ReplyState
      /\ Responses!FlushHeld(s, ok).state.textFrames = {}
      /\ Responses!FlushHeld(s, ok).state.argFrames = {}
  BY OwedReply
<1> HIDE DEF x
<1>2. Debts(s) = {}
  BY DEF Debts
<1>3. x \in Seq(ReplyItem) /\ DOMAIN x = {}
  BY <1>1, <1>2 DEF ReplyFlush
<1>4. x = << >>
  BY <1>3
<1> QED BY <1>1, <1>4 DEF x

\* The flush of a step, as it leaves the state.
LEMMA ReplyDebts ==
  ASSUME ReplyInvariant, NEW ok \in BOOLEAN
  PROVE  LET flushed == Responses!FlushHeld(state, ok)
         IN  /\ state \in ReplyState /\ out \in Seq(ReplyItem) /\ flushed.state \in ReplyState
             /\ flushed.state.textFrames = {} /\ flushed.state.argFrames = {}
             /\ Responses!Sent(flushed.out) \in Seq(ReplyItem)
             /\ ReplyFlush(Responses!Sent(flushed.out), state, ok, TRUE)
             /\ \A i \in DOMAIN Responses!Sent(flushed.out) : Speaks(Responses!Sent(flushed.out)[i])
             /\ (~Answering /\ status = "open") => Responses!Sent(flushed.out) = << >>
<1>1. state \in ReplyState /\ out \in Seq(ReplyItem)
  BY DEF ReplyInvariant, ReplyTyped
<1> DEFINE flushed == Responses!FlushHeld(state, ok)
           x == Responses!Sent(flushed.out)
<1>2. /\ flushed.state \in ReplyState /\ flushed.state.textFrames = {} /\ flushed.state.argFrames = {}
      /\ ReplyFlush(x, state, ok, TRUE) /\ \A i \in DOMAIN x : Speaks(x[i])
  BY <1>1, OwedReply
<1>3. ASSUME ~Answering, status = "open" PROVE x = << >>
  <2>1. state.textFrames = {} /\ state.argFrames = {}
    BY <1>3 DEF ReplyInvariant, ReplyEnded, Settled
  <2> QED BY <1>1, <2>1, ReplySpent
<1> HIDE DEF x, flushed
<1>4. x \in Seq(ReplyItem)
  BY <1>2 DEF ReplyFlush
<1> QED BY <1>1, <1>2, <1>3, <1>4 DEF x, flushed

LEMMA OtherReply ==
  ASSUME NEW kind \in {"other", "done", "raw"}
  PROVE  /\ Other(kind) \in ReplyItem /\ Other(kind).sent = kind /\ ~Speaks(Other(kind))
         /\ <<Other(kind)>> \in Seq(ReplyItem)
         /\ \A i \in DOMAIN <<Other(kind)>> : <<Other(kind)>>[i].sent = kind
         /\ kind # "event"
BY DEF Other, ReplyItem, Speaks

LEMMA ReplyDone == ASSUME ReplyInvariant, Responses!RelayDone PROVE ReplyInvariant'
<1>1. Streaming /\ received' = Append(received, Responses!Done) /\ status' = status /\ cut' = "none"
      /\ status = "open"
  BY ReplyStreams DEF Responses!RelayDone, Responses!Receive, Responses!MayArrive
<1>2. PICK ok \in BOOLEAN :
        /\ state' = Responses!FlushHeld(state, ok).state
        /\ out' = out \o Responses!Sent(Responses!FlushHeld(state, ok).out) \o Responses!Verbatim("done")
        /\ missed' = (missed \/ ~ok)
  BY DEF Responses!RelayDone
<1> DEFINE flushed == Responses!Sent(Responses!FlushHeld(state, ok).out)
           d == <<Other("done")>>
           x == flushed \o d
<1>3. /\ state' \in ReplyState /\ state'.textFrames = {} /\ state'.argFrames = {}
      /\ flushed \in Seq(ReplyItem) /\ out \in Seq(ReplyItem) /\ ReplyFlush(flushed, state, ok, TRUE)
      /\ \A i \in DOMAIN flushed : Speaks(flushed[i])
      /\ ~Answering => flushed = << >>
  BY <1>1, <1>2, ReplyDebts
<1>4. out' = (out \o flushed) \o d
  BY <1>2 DEF Responses!Verbatim, Other
<1> HIDE DEF flushed
<1>5. /\ d \in Seq(ReplyItem) /\ (\A i \in DOMAIN d : d[i].sent = "done")
      /\ Other("done") \in ReplyItem /\ ~Speaks(Other("done")) /\ Other("done").sent = "done"
  BY OtherReply
<1>6. ReplyFlush(x, state, ok, TRUE)
  BY <1>3, <1>5, ReplyFramed
<1> HIDE DEF d
<1>7. out' = out \o x
  <2>1. Regroups(out, flushed, d)
    BY <1>3, <1>5, JoinedThree
  <2> QED BY <1>4, <2>1 DEF Regroups
<1>8. /\ Responses!Done \in ReplyBlock /\ Responses!Done.block # "event"
      /\ Responses!Done = Chat!Done /\ ReplyTyped
  BY DEF ReplyBlock, Responses!Done, Chat!Done, ReplyInvariant
<1>9. ASSUME NEW k \in Keys PROVE Said(k)' = Said(k)
  <2>1. Said(k)' = Said(k) \o SaidBy(k)[Responses!Done] /\ Said(k) \in Seq(Fragment)
    BY <1>1, <1>8, ReplyReceives
  <2>2. SaidBy(k)[Responses!Done] = << >>
    BY <1>8 DEF SaidBy
  <2> QED BY <2>1, <2>2
<1>10. received' \in Seq(ReplyBlock) /\ ~Answering'
  BY <1>1, <1>8, ReplyReceives DEF Streaming, Answering
<1>11. CASE Answering
  <2>1. ASSUME NEW j \in DOMAIN x, x[j].sent = "event" PROVE Speaks(x[j])
    <3>1. /\ Len(x) = Len(flushed) + Len(d)
          /\ \A i \in 1 .. Len(flushed) : x[i] = flushed[i]
          /\ \A i \in 1 .. Len(d) : x[Len(flushed) + i] = d[i]
      BY <1>3, <1>5, JoinFacts
    <3>2. /\ Len(flushed) \in Nat /\ Len(d) \in Nat /\ DOMAIN flushed = 1 .. Len(flushed)
          /\ DOMAIN d = 1 .. Len(d) /\ DOMAIN x = 1 .. Len(x)
      BY <1>3, <1>5, <1>6 DEF ReplyFlush
    <3>3. CASE j \in 1 .. Len(flushed)
      BY <1>3, <3>1, <3>2, <3>3
    <3>4. CASE j \notin 1 .. Len(flushed)
      <4>1. j - Len(flushed) \in 1 .. Len(d) /\ j = Len(flushed) + (j - Len(flushed))
        BY <3>1, <3>2, <3>4
      <4>2. x[j].sent = "done"
        BY <1>5, <3>1, <3>2, <4>1
      <4> QED BY <2>1, <4>2
    <3> QED BY <3>3, <3>4
  <2> HIDE DEF x
  <2>2. Repeated(x, out', missed')
    BY <2>1 DEF Repeated
  <2> QED BY <1>1, <1>2, <1>3, <1>6, <1>7, <1>9, <1>10, <1>11, <2>2, ReplyEnds
<1>12. CASE ~Answering
  <2>1. x = d
    BY <1>3, <1>5, <1>12
  <2>2. NoRaw(d) /\ \A i \in DOMAIN d : d[i].sent # "event"
    BY <1>5 DEF NoRaw
  <2> QED BY <1>1, <1>2, <1>3, <1>5, <1>7, <1>9, <1>10, <1>12, <2>1, <2>2, ReplyStops
<1> QED BY <1>11, <1>12

LEMMA ReplyDrops == ASSUME ReplyInvariant, Responses!ConnectionDrops PROVE ReplyInvariant'
<1>1. PICK ok \in BOOLEAN :
        /\ state' = Responses!FlushHeld(state, ok).state
        /\ out' = out \o Responses!Sent(Responses!FlushHeld(state, ok).out)
        /\ missed' = (missed \/ ~ok)
  BY DEF Responses!ConnectionDrops
<1>2. status = "open" /\ status' = "raised" /\ received' = received /\ cut' = cut
  BY DEF Responses!ConnectionDrops
<1> DEFINE x == Responses!Sent(Responses!FlushHeld(state, ok).out)
<1>3. /\ state' \in ReplyState /\ state'.textFrames = {} /\ state'.argFrames = {}
      /\ x \in Seq(ReplyItem) /\ ReplyFlush(x, state, ok, TRUE) /\ \A i \in DOMAIN x : Speaks(x[i])
      /\ ~Answering => x = << >>
  BY <1>1, <1>2, ReplyDebts
<1>4. out' = out \o x
  BY <1>1
<1> HIDE DEF x
<1>5. \A k \in Keys : Said(k)' = Said(k)
  BY <1>2 DEF Said
<1>6. received' \in Seq(ReplyBlock) /\ ~Answering' /\ cut' \in {"none", "event", "char"}
  BY <1>2 DEF ReplyInvariant, ReplyTyped, Answering, Streaming
<1>7. CASE Answering
  <2>1. Repeated(x, out', missed')
    BY <1>3 DEF Repeated
  <2> QED BY <1>1, <1>2, <1>3, <1>4, <1>5, <1>6, <1>7, <2>1, ReplyEnds
<1>8. CASE ~Answering
  <2>1. \A i \in DOMAIN x : x[i].sent # "event"
    BY <1>3, <1>8
  <2> QED BY <1>1, <1>2, <1>3, <1>4, <1>5, <1>6, <1>8, <2>1, ReplyStops
<1> QED BY <1>7, <1>8

LEMMA ReplyRunsOut == ASSUME ReplyInvariant, Responses!BytesRunOut PROVE ReplyInvariant'
<1>1. PICK ok \in BOOLEAN :
        /\ state' = Responses!FlushHeld(state, ok).state
        /\ out' = out \o (IF cut = "event" THEN Responses!Verbatim("raw") ELSE << >>)
                      \o Responses!Sent(Responses!FlushHeld(state, ok).out)
        /\ missed' = (missed \/ ~ok)
  BY DEF Responses!BytesRunOut
<1>2. status = "open" /\ status' = "closed" /\ received' = received /\ cut' = cut /\ cut # "char"
  BY DEF Responses!BytesRunOut
<1> DEFINE flushed == Responses!Sent(Responses!FlushHeld(state, ok).out)
           r == <<Other("raw")>>
<1>3. /\ state' \in ReplyState /\ state'.textFrames = {} /\ state'.argFrames = {}
      /\ flushed \in Seq(ReplyItem) /\ out \in Seq(ReplyItem) /\ ReplyFlush(flushed, state, ok, TRUE)
      /\ \A i \in DOMAIN flushed : Speaks(flushed[i])
      /\ ~Answering => flushed = << >>
  BY <1>1, <1>2, ReplyDebts
<1>4. out' = out \o (IF cut = "event" THEN r ELSE << >>) \o flushed
  BY <1>1 DEF Responses!Verbatim, Other
<1>5. /\ r \in Seq(ReplyItem) /\ (\A i \in DOMAIN r : r[i].sent = "raw")
      /\ Other("raw") \in ReplyItem /\ ~Speaks(Other("raw")) /\ Other("raw").sent = "raw"
  BY OtherReply
<1> HIDE DEF flushed
<1>6. \A k \in Keys : Said(k)' = Said(k)
  BY <1>2 DEF Said
<1>7. received' \in Seq(ReplyBlock) /\ ~Answering' /\ cut' \in {"none", "event", "char"}
  BY <1>2 DEF ReplyInvariant, ReplyTyped, Answering, Streaming
<1>8. CASE cut = "none"
  <2>1. out' = out \o flushed
    BY <1>3, <1>4, <1>8
  <2>2. CASE Answering
    <3>1. Repeated(flushed, out', missed')
      BY <1>3 DEF Repeated
    <3> QED BY <1>1, <1>2, <1>3, <1>6, <1>7, <1>8, <2>1, <2>2, <3>1, ReplyEnds
  <2>3. CASE ~Answering
    <3>1. \A i \in DOMAIN flushed : flushed[i].sent # "event"
      BY <1>3, <2>3
    <3> QED BY <1>1, <1>2, <1>3, <1>6, <1>7, <2>1, <2>3, <3>1, ReplyStops
  <2> QED BY <2>2, <2>3
<1>9. CASE cut = "event"
  <2> DEFINE x == r \o flushed
  <2>1. ReplyFlush(x, state, ok, FALSE)
    BY <1>3, <1>5, ReplyFramed
  <2> HIDE DEF r
  <2>2. out' = out \o x
    <3>1. Regroups(out, r, flushed)
      BY <1>3, <1>5, JoinedThree
    <3> QED BY <1>4, <1>9, <3>1 DEF Regroups
  <2>3. CASE Answering
    <3>1. ASSUME NEW j \in DOMAIN x, x[j].sent = "event" PROVE Speaks(x[j])
      <4>1. /\ Len(x) = Len(r) + Len(flushed)
            /\ \A i \in 1 .. Len(r) : x[i] = r[i]
            /\ \A i \in 1 .. Len(flushed) : x[Len(r) + i] = flushed[i]
        BY <1>3, <1>5, JoinFacts
      <4>2. /\ Len(flushed) \in Nat /\ Len(r) \in Nat /\ DOMAIN flushed = 1 .. Len(flushed)
            /\ DOMAIN r = 1 .. Len(r) /\ DOMAIN x = 1 .. Len(x)
        BY <1>3, <1>5, <2>1 DEF ReplyFlush
      <4>3. CASE j \in 1 .. Len(r)
        BY <1>5, <3>1, <4>1, <4>2, <4>3
      <4>4. CASE j \notin 1 .. Len(r)
        <5>1. j - Len(r) \in 1 .. Len(flushed) /\ j = Len(r) + (j - Len(r))
          BY <4>1, <4>2, <4>4
        <5> QED BY <1>3, <4>1, <4>2, <5>1
      <4> QED BY <4>3, <4>4
    <3> HIDE DEF x
    <3>2. Repeated(x, out', missed')
      BY <3>1 DEF Repeated
    <3> QED BY <1>1, <1>2, <1>3, <1>6, <1>7, <1>9, <2>1, <2>2, <2>3, <3>2, ReplyEnds
  <2>4. CASE ~Answering
    <3>1. x = r
      BY <1>3, <1>5, <2>4
    <3>2. \A i \in DOMAIN r : r[i].sent # "event"
      BY <1>5
    <3> QED BY <1>1, <1>2, <1>3, <1>5, <1>6, <1>7, <2>2, <2>4, <3>1, <3>2, ReplyStops
  <2> QED BY <2>3, <2>4
<1> QED BY <1>2, <1>8, <1>9 DEF ReplyInvariant, ReplyTyped

LEMMA SaidWords == ASSUME ReplyTyped, NEW k \in Keys PROVE Responses!Said(received, k) = Said(k)
<1> DEFINE g == SaidBy(k)
<1>1. \A i \in DOMAIN received : received[i] \in ReplyBlock
  BY DEF ReplyTyped
<1>2. [i \in DOMAIN received |-> IF received[i].block = "event" /\ Responses!DeltaOf(received[i].payload, k)
                                 THEN received[i].payload.value ELSE << >>]
        = [i \in DOMAIN received |-> g[received[i]]]
  BY <1>1 DEF SaidBy
<1> HIDE DEF g
<1>3. Responses!Said(received, k)
        = FlattenSeq([i \in DOMAIN received |->
            IF received[i].block = "event" /\ Responses!DeltaOf(received[i].payload, k)
            THEN received[i].payload.value ELSE << >>])
  BY ReplyText DEF Responses!Said
<1>4. Responses!Said(received, k) = Told(received, g)
  BY <1>2, <1>3 DEF Told
<1> QED BY <1>4 DEF Said, g

\* What the provider may send next.
NextForms(p) ==
  \/ \E r \in Runs, v \in Deltas : ~Closed(received, r) /\ p = Responses!Event("text_delta", r, v)
  \/ \E c \in Calls, v \in Arguments : ~Closed(received, c) /\ p = Responses!Event("args_delta", c, v)
  \/ \E r \in Runs : ~Closed(received, r) /\ p = Responses!Event("text_done", r, Said(r))
  \/ \E c \in Calls : ~Closed(received, c) /\ p = Responses!Event("args_done", c, Said(c))
  \/ \E c \in Calls : ~Closed(received, c) /\ p = Responses!Event("args_done_bare", c, << >>)
  \/ \E r \in Runs : Closed(received, r) /\ p = Responses!Event("part_done", r, Said(r))
  \/ \E k \in Keys : Closed(received, k) /\ p = Responses!Event("item_done", k, Said(k))
  \/ p = Responses!Event("terminal", Keys, [k \in Keys |-> Said(k)])

LEMMA ReplyNext ==
  ASSUME ReplyTyped, NEW p \in Responses!NextPayloads(received)
  PROVE  ~Concluded(received) /\ NextForms(p)
<1> DEFINE events == {i \in DOMAIN received : received[i].block = "event"}
           had(types) == {received[i].payload.key : i \in {j \in events : received[j].payload.type \in types}}
           open == Keys \ had({"text_done", "args_done", "args_done_bare"})
           finished == Keys \ (open \cup had({"item_done"}))
           spoken == (finished \cap Runs) \ had({"part_done"})
           said(k) == Responses!Said(received, k)
           running == open \cap Runs
           pending == open \cap Calls
           grows(k, values) == {v \in values : Len(said(k) \o v) <= MaxValue}
           A == UNION {{Responses!Event("text_delta", r, v) : v \in grows(r, Deltas)} : r \in running}
           B == UNION {{Responses!Event("args_delta", c, v) : v \in grows(c, Arguments)} : c \in pending}
           C == {Responses!Event("text_done", r, said(r)) : r \in running}
           D == {Responses!Event("args_done", c, said(c)) : c \in pending}
           E == {Responses!Event("args_done_bare", c, << >>) : c \in pending}
           F == {Responses!Event("item_done", k, said(k)) : k \in finished}
           H == {Responses!Event("part_done", r, said(r)) : r \in spoken}
           G == {Responses!Event("terminal", Keys, [k \in Keys |-> said(k)])}
<1>1. Responses!NextPayloads(received) = IF had({"terminal"}) # {} THEN {} ELSE UNION {A, B, C, D, E, H, F, G}
  BY ReplyText DEF Responses!NextPayloads
<1>2. Concluded(received) => had({"terminal"}) # {}
  BY DEF Concluded
<1>3. \A k \in Keys : k \in open <=> ~Closed(received, k)
  BY DEF Closed, DoneTypes
<1>4. \A k \in Keys : said(k) = Said(k)
  BY SaidWords
<1>5. /\ running \subseteq Runs /\ pending \subseteq Calls /\ finished \subseteq Keys
      /\ \A k \in running \cup pending : k \in Keys /\ ~Closed(received, k)
      /\ \A k \in finished : Closed(received, k)
      /\ \A r \in spoken : r \in Runs /\ r \in Keys /\ Closed(received, r)
  BY <1>3 DEF Keys
<1>6. (\A k \in Keys : \A V : grows(k, V) \subseteq V) /\ running \cup pending \subseteq Keys
  BY DEF Keys
<1> HIDE DEF running, pending, finished, spoken, said, open, had, grows
<1>7. ~Concluded(received) /\ p \in UNION {A, B, C, D, E, H, F, G}
  BY <1>1, <1>2
<1>8. [k \in Keys |-> said(k)] = [k \in Keys |-> Said(k)]
  BY <1>4
<1>9. CASE p \in A
  <2>1. PICK r \in running : p \in {Responses!Event("text_delta", r, v) : v \in grows(r, Deltas)}
    BY <1>9
  <2>2. PICK v \in grows(r, Deltas) : p = Responses!Event("text_delta", r, v)
    BY <2>1
  <2>3. r \in Runs /\ v \in Deltas /\ ~Closed(received, r)
    BY <1>5, <1>6, <2>1, <2>2
  <2> QED BY <1>7, <2>2, <2>3 DEF NextForms
<1>10. CASE p \in B
  <2>1. PICK c \in pending : p \in {Responses!Event("args_delta", c, v) : v \in grows(c, Arguments)}
    BY <1>10
  <2>2. PICK v \in grows(c, Arguments) : p = Responses!Event("args_delta", c, v)
    BY <2>1
  <2>3. c \in Calls /\ v \in Arguments /\ ~Closed(received, c)
    BY <1>5, <1>6, <2>1, <2>2
  <2> QED BY <1>7, <2>2, <2>3 DEF NextForms
<1>11. CASE p \in C
  <2>1. PICK r \in running : p = Responses!Event("text_done", r, said(r))
    BY <1>11
  <2>2. r \in Runs /\ ~Closed(received, r) /\ said(r) = Said(r)
    BY <1>4, <1>5, <2>1
  <2>3. p = Responses!Event("text_done", r, Said(r))
    BY <2>1, <2>2
  <2> QED BY <1>7, <2>2, <2>3 DEF NextForms
<1>12. CASE p \in D
  <2>1. PICK c \in pending : p = Responses!Event("args_done", c, said(c))
    BY <1>12
  <2>2. c \in Calls /\ ~Closed(received, c) /\ said(c) = Said(c)
    BY <1>4, <1>5, <2>1
  <2>3. p = Responses!Event("args_done", c, Said(c))
    BY <2>1, <2>2
  <2> QED BY <1>7, <2>2, <2>3 DEF NextForms
<1>13. CASE p \in E
  <2>1. PICK c \in pending : p = Responses!Event("args_done_bare", c, << >>)
    BY <1>13
  <2>2. c \in Calls /\ ~Closed(received, c)
    BY <1>5, <2>1
  <2> QED BY <1>7, <2>1, <2>2 DEF NextForms
<1>14. CASE p \in F
  <2>1. PICK k \in finished : p = Responses!Event("item_done", k, said(k))
    BY <1>14
  <2>2. k \in Keys /\ Closed(received, k) /\ said(k) = Said(k)
    BY <1>4, <1>5, <2>1
  <2>3. p = Responses!Event("item_done", k, Said(k))
    BY <2>1, <2>2
  <2> QED BY <1>7, <2>2, <2>3 DEF NextForms
<1>15. CASE p \in G
  <2>1. p = Responses!Event("terminal", Keys, [k \in Keys |-> said(k)])
    BY <1>15
  <2>2. p = Responses!Event("terminal", Keys, [k \in Keys |-> Said(k)])
    BY <1>8, <2>1
  <2> QED BY <1>7, <2>2 DEF NextForms
<1>16. CASE p \in H
  <2>1. PICK r \in spoken : p = Responses!Event("part_done", r, said(r))
    BY <1>16
  <2>2. r \in Runs /\ Closed(received, r) /\ said(r) = Said(r)
    BY <1>4, <1>5, <2>1
  <2>3. p = Responses!Event("part_done", r, Said(r))
    BY <2>1, <2>2
  <2> QED BY <1>7, <2>2, <2>3 DEF NextForms
<1> QED BY <1>7, <1>9, <1>10, <1>11, <1>12, <1>13, <1>14, <1>15, <1>16

\* The items that carry these events.
Carries(x, events) ==
  /\ x \in Seq(ReplyItem) /\ Len(x) = Len(events)
  /\ \A i \in 1 .. Len(events) : x[i].sent = "event" /\ x[i].body.event = events[i]

LEMMA SentEvents ==
  ASSUME NEW s \in ReplyState, NEW events \in Seq(EventsOver(Seq(Shown)))
  PROVE  LET written == Responses!Sequenced(s, events)
         IN  /\ Carries(Responses!Sent(written.out), events) /\ written.state \in ReplyState
             /\ written.state.holds = s.holds /\ written.state.textFrames = s.textFrames
             /\ written.state.arguments = s.arguments /\ written.state.argFrames = s.argFrames
<1> DEFINE written == Responses!Sequenced(s, events)
           x == Responses!Sent(written.out)
           item(i) == [sent |-> "event", body |-> [event |-> events[i], number |-> s.next + i - 1]]
<1>1. written = [state |-> [s EXCEPT !.next = @ + Len(events)],
                 out |-> [i \in DOMAIN events |-> [event |-> events[i], number |-> s.next + i - 1]]]
  BY DEF Responses!Sequenced
<1>2. Len(events) \in Nat /\ DOMAIN events = 1 .. Len(events) /\ s.next \in Int
  BY DEF ReplyState
<1>3. x = [i \in 1 .. Len(events) |-> item(i)]
  BY <1>1, <1>2 DEF Responses!Sent
<1>4. /\ written.state \in ReplyState
      /\ written.state.holds = s.holds /\ written.state.textFrames = s.textFrames
      /\ written.state.arguments = s.arguments /\ written.state.argFrames = s.argFrames
  <2>1. written.state = [s EXCEPT !.next = @ + Len(events)]
    BY <1>1
  <2> HIDE DEF written
  <2>2. s.next + Len(events) \in Int
    BY <1>2
  <2> QED BY <2>1, <2>2 DEF ReplyState
<1> HIDE DEF x, written
<1>5. ASSUME NEW i \in 1 .. Len(events) PROVE item(i) \in ReplyItem
  <2>1. s.next + i - 1 \in Int /\ events[i] \in EventsOver(Seq(Shown))
    BY <1>2
  <2> QED BY <2>1 DEF ReplyItem
<1>6. x \in Seq(ReplyItem) /\ DOMAIN x = 1 .. Len(events) /\ Len(x) = Len(events)
  BY <1>2, <1>3, <1>5
<1>7. \A i \in 1 .. Len(events) : x[i].sent = "event" /\ x[i].body.event = events[i]
  BY <1>3
<1> QED BY <1>4, <1>6, <1>7 DEF Carries, x, written

\* Events of one key, at most one delta of it and in front.
OfKey(events, key) ==
  /\ \A i \in 1 .. Len(events) : events[i].key = key /\ events[i].type # "terminal"
  /\ \A i \in 1 .. Len(events) : IF events[i].type \in DeltaTypes THEN i = 1 ELSE i = Len(events)
Spoken(events) ==
  IF events # << >> /\ events[1].type \in DeltaTypes THEN events[1].value ELSE << >>

LEMMA EventsHeard ==
  ASSUME NEW events \in Seq(EventsOver(Seq(Shown))), NEW key \in Keys, OfKey(events, key),
         NEW x, Carries(x, events), NEW k \in Keys
  PROVE  Heard(x, ReadBy(k)) = IF k = key THEN Spoken(events) ELSE << >>
<1> DEFINE g == ReadBy(k)
<1>1. x \in Seq(ReplyItem) /\ Len(x) = Len(events) /\ Len(events) \in Nat
      /\ DOMAIN x = 1 .. Len(events)
  BY DEF Carries
<1>2. g \in [ReplyItem -> Seq(Shown)]
  BY ReplyReadings
<1>3. ASSUME NEW i \in 1 .. Len(events)
      PROVE  g[x[i]] = IF events[i].type \in DeltaTypes /\ events[i].key = k THEN events[i].value
                       ELSE << >>
  <2>1. x[i] \in ReplyItem /\ x[i].sent = "event" /\ x[i].body.event = events[i]
    BY <1>1, <1>3 DEF Carries
  <2> QED BY <2>1, ItemFacts
<1> HIDE DEF g
<1>4. CASE k = key /\ events # << >> /\ events[1].type \in DeltaTypes
  <2>1. 1 \in 1 .. Len(x) /\ 1 \in Legible(x)
    BY <1>1, <1>4, SMTT(30) DEF Carries, Legible
  <2>2. \A i \in 1 .. Len(x) : i # 1 => g[x[i]] = << >>
    BY <1>1, <1>3 DEF OfKey
  <2>3. Heard(x, g) = IF 1 \in Legible(x) THEN g[x[1]] ELSE << >>
    BY <1>1, <1>2, <2>1, <2>2, HeardOnce, ZenonT(60)
  <2>4. g[x[1]] = events[1].value
    BY <1>1, <1>3, <1>4, <2>1 DEF OfKey
  <2> QED BY <1>4, <2>1, <2>3, <2>4 DEF Spoken, g
<1>5. CASE ~(k = key /\ events # << >> /\ events[1].type \in DeltaTypes)
  <2>1. ASSUME NEW i \in 1 .. Len(events) PROVE g[x[i]] = << >>
    <3>1. events[i].key = key /\ (events[i].type \in DeltaTypes => i = 1)
      BY <1>1, <2>1 DEF OfKey
    <3>2. events # << >>
      BY <1>1, <2>1
    <3> QED BY <1>3, <1>5, <3>1, <3>2
  <2>2. Heard(x, g) = << >>
    <3>1. \A i \in 1 .. Len(x) : g[x[i]] = << >>
      BY <1>1, <2>1
    <3> QED BY <1>1, <3>1, HeardNothing
  <2> QED BY <1>5, <2>2 DEF Spoken, g
<1> QED BY <1>4, <1>5

\* An event of one key, and what the relay writes for it.
Writes(p, events, ok) ==
  /\ p \in EventsOver(Seq(Fragment)) /\ p.type # "terminal" /\ ok \in BOOLEAN
  /\ events \in Seq(EventsOver(Seq(Shown))) /\ OfKey(events, p.key)
  /\ \A i \in 1 .. Len(events) :
       /\ events[i].type \notin {"part_done", "item_done"} => ~Closed(received, p.key)
       /\ events[i].type \in Responses!LastWords => Closed(received, p.key) \/ p.type \in DoneTypes
  /\ received' = Append(received, Responses!EventOf(p)) /\ status' = status /\ cut' = "none"
  /\ \E x : Carries(x, events) /\ out' = out \o x
  /\ missed' = (missed \/ ~ok)
  /\ state' \in ReplyState
  /\ \A k \in Runs : k # p.key => /\ state'.holds[k] = state.holds[k]
                                  /\ k \in state'.textFrames <=> k \in state.textFrames
  /\ \A k \in Calls : k # p.key => /\ state'.arguments[k] = state.arguments[k]
                                   /\ k \in state'.argFrames <=> k \in state.argFrames

LEMMA WritesFacts ==
  ASSUME ReplyInvariant, Answering, NEW p, NEW events, NEW ok, Writes(p, events, ok)
  PROVE  /\ p.key \in Keys /\ ReplyTyped' /\ Answering' /\ Said(p.key) \in Seq(Fragment)
         /\ Said(p.key)' = Said(p.key) \o (IF p.type \in DeltaTypes THEN p.value ELSE << >>)
         /\ Read(p.key)' = Read(p.key) \o Spoken(events)
         /\ Read(p.key) \in Seq(Shown) /\ Spoken(events) \in Seq(Shown)
         /\ Closed(received', p.key) <=> (Closed(received, p.key) \/ p.type \in DoneTypes)
         /\ \A k \in Keys : Closed(received, k) => Closed(received', k)
         /\ \A k \in Keys : k # p.key => KeyOK(k)'
<1> DEFINE key == p.key
           b == Responses!EventOf(p)
<1>0. /\ p \in EventsOver(Seq(Fragment)) /\ p.type # "terminal" /\ ok \in BOOLEAN
      /\ events \in Seq(EventsOver(Seq(Shown))) /\ OfKey(events, key)
      /\ received' = Append(received, b) /\ status' = status /\ cut' = "none"
      /\ missed' = (missed \/ ~ok) /\ state' \in ReplyState
  BY DEF Writes
<1>1. PICK x : Carries(x, events) /\ out' = out \o x
  BY DEF Writes
<1>2. x \in Seq(ReplyItem) /\ key \in Keys
  BY <1>0, <1>1, EventFacts DEF Carries
<1>3. ReplyTyped /\ NoRaw(out) /\ missed \in BOOLEAN /\ out \in Seq(ReplyItem)
  BY DEF ReplyInvariant, ReplyOpen, ReplyTyped
<1>4. /\ b \in ReplyBlock /\ b.block = "event" /\ b.payload = p /\ b # Responses!Done
  BY <1>0 DEF ReplyBlock, Responses!EventOf, Responses!Done
<1> HIDE DEF b
<1>5. /\ received' \in Seq(ReplyBlock)
      /\ \A k \in Keys : Said(k)' = Said(k) \o SaidBy(k)[b] /\ Said(k) \in Seq(Fragment)
      /\ \A k : Closed(received', k) <=>
                  (Closed(received, k) \/ (p.type \in DoneTypes /\ p.key = k))
      /\ ~Concluded(received') /\ Streaming'
  <2>1. /\ received' \in Seq(ReplyBlock)
        /\ \A k \in Keys : Said(k)' = Said(k) \o SaidBy(k)[b] /\ Said(k) \in Seq(Fragment)
        /\ \A k : Closed(received', k) <=>
                  (Closed(received, k) \/ (b.block = "event" /\ b.payload.type \in DoneTypes /\ b.payload.key = k))
        /\ Concluded(received') <=>
             (Concluded(received) \/ (b.block = "event" /\ b.payload.type = "terminal"))
        /\ (\A i \in DOMAIN received' : received'[i] # Responses!Done) <=>
              (b # Responses!Done /\ \A i \in DOMAIN received : received[i] # Responses!Done)
    BY <1>0, <1>3, <1>4, ReplyReceives
  <2>2. Responses!Done = Chat!Done
    BY DEF Responses!Done, Chat!Done
  <2> QED BY <1>0, <1>4, <2>1, <2>2 DEF Answering, Streaming
<1>6. ASSUME NEW k \in Keys
      PROVE  SaidBy(k)[b] = IF k = key /\ p.type \in DeltaTypes THEN p.value ELSE << >>
  <2>1. Responses!DeltaOf(p, k) <=> (p.type \in DeltaTypes /\ p.key = k)
    BY <1>0, EventFacts
  <2> QED BY <1>4, <2>1 DEF SaidBy
<1>7. /\ out' \in Seq(ReplyItem)
      /\ \A k \in Keys : Read(k)' = Read(k) \o Heard(x, ReadBy(k))
  BY <1>1, <1>2, <1>3, ReplySends
<1>8. \A k \in Keys : Heard(x, ReadBy(k)) = IF k = key THEN Spoken(events) ELSE << >>
  BY <1>0, <1>1, <1>2, EventsHeard
<1>9. \A k \in Keys : Read(k) \in Seq(Shown) /\ Heard(x, ReadBy(k)) \in Seq(Shown)
  BY <1>2, <1>3, ReadTyped DEF Read
<1>10. ASSUME NEW k \in Keys, k # key PROVE KeyOK(k)'
  <2>1. Said(k)' = Said(k)
    <3>1. Said(k)' = Said(k) \o << >> /\ Said(k) \in Seq(Fragment)
      BY <1>5, <1>6, <1>10
    <3>2. Said(k) \o << >> = Said(k)
      BY <3>1
    <3> QED BY <3>1, <3>2
  <2>2. Read(k)' = Read(k)
    <3>1. Read(k)' = Read(k) \o << >> /\ Read(k) \in Seq(Shown)
      BY <1>7, <1>8, <1>9, <1>10
    <3>2. Read(k) \o << >> = Read(k)
      BY <3>1
    <3> QED BY <3>1, <3>2
  <2>3. KeyOK(k)
    BY DEF ReplyInvariant, ReplyOpen
  <2>4. Closed(received', k) <=> Closed(received, k)
    BY <1>5, <1>10
  <2>5. /\ k \in Runs => /\ state'.holds[k] = state.holds[k]
                         /\ k \in state'.textFrames <=> k \in state.textFrames
        /\ k \in Calls => /\ state'.arguments[k] = state.arguments[k]
                          /\ k \in state'.argFrames <=> k \in state.argFrames
    BY <1>10 DEF Writes
  <2> QED BY <1>0, <1>3, <2>1, <2>2, <2>3, <2>4, <2>5, KeyStays
<1>11. ReplyTyped'
  BY <1>0, <1>3, <1>5, <1>7 DEF ReplyTyped
<1>12. Said(key)' = Said(key) \o (IF p.type \in DeltaTypes THEN p.value ELSE << >>)
  BY <1>2, <1>5, <1>6
<1>13. Read(key)' = Read(key) \o Spoken(events) /\ Read(key) \in Seq(Shown) /\ Spoken(events) \in Seq(Shown)
  BY <1>2, <1>7, <1>8, <1>9
<1> QED BY <1>2, <1>5, <1>10, <1>11, <1>12, <1>13 DEF Answering

LEMMA ReplyContinues ==
  ASSUME ReplyInvariant, Answering, NEW p, NEW events, NEW ok, Writes(p, events, ok), KeyOK(p.key)',
         \A i \in 1 .. Len(events) : events[i].type \notin DeltaTypes =>
           Again(Responses!LeftStanding(events[i], p.key), events[i].value, Read(p.key)', missed')
  PROVE  ReplyInvariant'
<1> DEFINE key == p.key
<1>0. /\ ok \in BOOLEAN /\ events \in Seq(EventsOver(Seq(Shown))) /\ OfKey(events, key)
      /\ missed' = (missed \/ ~ok)
      /\ \A i \in 1 .. Len(events) :
          /\ events[i].type \notin {"part_done", "item_done"} => ~Closed(received, key)
          /\ events[i].type \in Responses!LastWords => Closed(received, key) \/ p.type \in DoneTypes
  BY DEF Writes
<1>1. PICK x : Carries(x, events) /\ out' = out \o x
  BY DEF Writes
<1>2. /\ x \in Seq(ReplyItem) /\ Len(x) = Len(events) /\ DOMAIN x = 1 .. Len(events)
      /\ Len(events) \in Nat
      /\ \A i \in 1 .. Len(events) : x[i].sent = "event" /\ x[i].body.event = events[i]
  BY <1>0, <1>1 DEF Carries
<1>3. /\ key \in Keys /\ ReplyTyped' /\ Answering' /\ \A k \in Keys : k # key => KeyOK(k)'
      /\ Closed(received', key) <=> (Closed(received, key) \/ p.type \in DoneTypes)
      /\ \A k \in Keys : Closed(received, k) => Closed(received', k)
  BY WritesFacts
<1>4. /\ ReplyTyped /\ NoRaw(out) /\ missed \in BOOLEAN /\ out \in Seq(ReplyItem)
      /\ ReplyOrder(out) /\ Agreement(out, missed)
      /\ \A i \in DOMAIN out : out[i].sent # "done"
      /\ \A i \in DOMAIN out : out[i].sent = "event" =>
           /\ out[i].body.event.type # "terminal"
           /\ out[i].body.event.type \in Responses!LastWords => Closed(received, out[i].body.event.key)
  BY DEF ReplyInvariant, ReplyOpen, ReplyTyped
<1>5. ASSUME NEW i \in DOMAIN x
      PROVE  /\ x[i].sent = "event" /\ x[i].body.event = events[i] /\ events[i].key = key
             /\ events[i].type # "terminal" /\ (i # Len(x) => events[i].type \in DeltaTypes)
             /\ events[i].type \notin {"part_done", "item_done"} => ~Closed(received, key)
  BY <1>0, <1>2, <1>5 DEF OfKey
<1>6. ReplyOrder(x)
  <2>1. ASSUME NEW i \in Legible(x), NEW j \in Legible(x), i < j
        PROVE  x[i].body.event.type # "terminal" /\ x[i].body.event.type \notin Responses!LastWords
    <3>1. i \in DOMAIN x /\ i # Len(x)
      BY <1>2, <2>1 DEF Legible
    <3>2. x[i].body.event.type \in DeltaTypes
      BY <1>5, <3>1
    <3> QED BY <3>2 DEF DeltaTypes, Responses!LastWords
  <2> QED BY <1>5, <2>1 DEF ReplyOrder
<1>7. ASSUME NEW i \in DOMAIN out, NEW j \in DOMAIN x, out[i].sent = "event", x[j].sent = "event"
      PROVE  /\ out[i].body.event.type # "terminal"
             /\ out[i].body.event.type \in Responses!LastWords =>
                  \/ x[j].body.event.type \in {"part_done", "item_done", "terminal"}
                  \/ x[j].body.event.key # out[i].body.event.key
  BY <1>4, <1>5, <1>7
<1>8. out' \in Seq(ReplyItem)
  BY <1>3 DEF ReplyTyped
<1>9. ASSUME NEW j \in DOMAIN x, x[j].sent = "event", x[j].body.event.type \notin DeltaTypes
      PROVE  j = Len(x) /\ Repeats(x[j].body.event, out \o x, Len(out \o x), missed')
  <2>1. x[j].body.event = events[j] /\ events[j].key = key /\ events[j].type # "terminal"
        /\ j \in 1 .. Len(events) /\ j = Len(x)
    BY <1>2, <1>5, <1>9
  <2>2. HeardTo(out', Len(out'), ReadBy(key)) = Read(key)'
    BY <1>8, HeardToWhole DEF Read
  <2>3. Again(Responses!LeftStanding(events[j], key), events[j].value, Read(key)', missed')
    BY <1>9, <2>1
  <2>4. Repeats(events[j], out', Len(out'), missed')
    BY <2>1, <2>2, <2>3 DEF Repeats
  <2> QED BY <1>1, <2>1, <2>4
<1>10. missed' \in BOOLEAN /\ (~missed' => ~missed)
  BY <1>0, <1>4
<1>11. ReplyOrder(out') /\ Agreement(out', missed')
  <2>1. ReplyOrder(out \o x) /\ Agreement(out \o x, missed')
    BY <1>2, <1>4, <1>6, <1>7, <1>9, <1>10, ReplyJoins, ZenonT(60)
  <2> QED BY <1>1, <2>1
<1>12. \A i \in DOMAIN out' : (\E j \in DOMAIN out : out'[i] = out[j])
                                 \/ (\E j \in DOMAIN x : out'[i] = x[j])
  BY <1>1, <1>2, <1>4, ReplySends
<1>13. NoRaw(out') /\ \A i \in DOMAIN out' : out'[i].sent # "done"
  BY <1>4, <1>5, <1>12 DEF NoRaw
<1>14. ASSUME NEW i \in DOMAIN out', out'[i].sent = "event"
       PROVE  /\ out'[i].body.event.type # "terminal"
              /\ out'[i].body.event.type \in Responses!LastWords =>
                   Closed(received', out'[i].body.event.key)
  <2>1. CASE \E j \in DOMAIN out : out'[i] = out[j]
    <3>1. PICK j \in DOMAIN out : out'[i] = out[j]
      BY <2>1
    <3>2. ASSUME out[j].body.event.type \in Responses!LastWords PROVE out[j].body.event.key \in Keys
      <4>1. out[j] \in ReplyItem /\ out[j].sent = "event"
        BY <1>4, <1>14, <3>1
      <4>2. out[j].body.event \in EventsOver(Seq(Shown)) /\ out[j].body.event.type # "terminal"
        BY <1>4, <3>1, <4>1, ItemFacts
      <4> QED BY <4>2, EventFacts
    <3> QED BY <1>3, <1>4, <1>14, <3>1, <3>2
  <2>2. CASE \E j \in DOMAIN x : out'[i] = x[j]
    BY <1>0, <1>2, <1>3, <1>5, <2>2
  <2> QED BY <1>12, <2>1, <2>2
<1>15. ReplyOpen'
  BY <1>3, <1>13, <1>14 DEF ReplyOpen
<1> QED BY <1>3, <1>11, <1>15 DEF ReplyInvariant

LEMMA EventTyped ==
  ASSUME NEW Text, NEW w \in Text
  PROVE  /\ \A r \in Runs, t \in {"text_delta", "text_done", "part_done"} :
              Responses!Event(t, r, w) \in EventsOver(Text)
         /\ \A c \in Calls, t \in {"args_delta", "args_done", "args_done_bare"} :
              Responses!Event(t, c, w) \in EventsOver(Text)
         /\ \A k \in Keys : Responses!Event("item_done", k, w) \in EventsOver(Text)
BY DEF EventsOver, Responses!Event

LEMMA EventParts ==
  ASSUME NEW t, NEW k, NEW v
  PROVE  /\ Responses!Event(t, k, v).type = t /\ Responses!Event(t, k, v).key = k
         /\ Responses!Event(t, k, v).value = v
BY DEF Responses!Event

LEMMA OneEvent ==
  ASSUME NEW e \in EventsOver(Seq(Shown)), e.type # "terminal"
  PROVE  /\ <<e>> \in Seq(EventsOver(Seq(Shown))) /\ OfKey(<<e>>, e.key)
         /\ \A i \in 1 .. Len(<<e>>) : <<e>>[i] = e
         /\ Spoken(<<e>>) = IF e.type \in DeltaTypes THEN e.value ELSE << >>
<1> DEFINE z == <<e>>
<1>1. z \in Seq(EventsOver(Seq(Shown))) /\ Len(z) = 1 /\ z # << >> /\ z[1] = e
      /\ \A i \in 1 .. Len(z) : i = 1
  OBVIOUS
<1> HIDE DEF z
<1> QED BY <1>1 DEF OfKey, Spoken, z

LEMMA TwoEvents ==
  ASSUME NEW d \in EventsOver(Seq(Shown)), NEW e \in EventsOver(Seq(Shown)), d.key = e.key,
         d.type \in DeltaTypes, e.type \notin DeltaTypes, e.type # "terminal"
  PROVE  /\ <<d, e>> \in Seq(EventsOver(Seq(Shown))) /\ OfKey(<<d, e>>, e.key)
         /\ \A i \in 1 .. Len(<<d, e>>) : <<d, e>>[i] = d \/ <<d, e>>[i] = e
         /\ Spoken(<<d, e>>) = d.value
<1> DEFINE z == <<d, e>>
<1>1. z \in Seq(EventsOver(Seq(Shown))) /\ Len(z) = 2 /\ z # << >> /\ z[1] = d /\ z[2] = e
      /\ \A i \in 1 .. Len(z) : i = 1 \/ i = 2
  OBVIOUS
<1> HIDE DEF z
<1>2. d.type # "terminal"
  BY DEF DeltaTypes
<1> QED BY <1>1, <1>2 DEF OfKey, Spoken, z

\* A step that relays an event of one key.
Says(p, ok) ==
  /\ p \in EventsOver(Seq(Fragment)) /\ p.type # "terminal" /\ ok \in BOOLEAN
  /\ received' = Append(received, Responses!EventOf(p)) /\ status' = status /\ cut' = "none"
  /\ missed' = (missed \/ ~ok)
  /\ state' = Responses!Rewrite(state, p, ok).state
  /\ out' = out \o Responses!Sent(Responses!Rewrite(state, p, ok).out)

LEMMA SaysWrites ==
  ASSUME NEW p, NEW ok, Says(p, ok), NEW s \in ReplyState, NEW events \in Seq(EventsOver(Seq(Shown))),
         Responses!Rewrite(state, p, ok) = Responses!Sequenced(s, events), OfKey(events, p.key),
         \A i \in 1 .. Len(events) :
           /\ events[i].type \notin {"part_done", "item_done"} => ~Closed(received, p.key)
           /\ events[i].type \in Responses!LastWords => Closed(received, p.key) \/ p.type \in DoneTypes,
         \A k \in Runs : k # p.key => s.holds[k] = state.holds[k]
                                      /\ (k \in s.textFrames <=> k \in state.textFrames),
         \A k \in Calls : k # p.key => s.arguments[k] = state.arguments[k]
                                       /\ (k \in s.argFrames <=> k \in state.argFrames)
  PROVE  /\ Writes(p, events, ok)
         /\ state'.holds = s.holds /\ state'.textFrames = s.textFrames
         /\ state'.arguments = s.arguments /\ state'.argFrames = s.argFrames
<1> DEFINE written == Responses!Sequenced(s, events)
           x == Responses!Sent(written.out)
<1>1. /\ Carries(x, events) /\ written.state \in ReplyState
      /\ written.state.holds = s.holds /\ written.state.textFrames = s.textFrames
      /\ written.state.arguments = s.arguments /\ written.state.argFrames = s.argFrames
  BY SentEvents
<1>2. state' = written.state /\ out' = out \o x
  BY DEF Says
<1> HIDE DEF written, x
<1>3. Writes(p, events, ok)
  BY <1>1, <1>2, ZenonT(60) DEF Says, Writes
<1> QED BY <1>1, <1>2, <1>3

LEMMA SaysTextDelta ==
  ASSUME ReplyInvariant, Answering, NEW r \in Runs, NEW v \in Seq(Fragment), ~Closed(received, r),
         NEW p, p = Responses!Event("text_delta", r, v), NEW ok, Says(p, ok)
  PROVE  ReplyInvariant'
<1> DEFINE b == state.holds[r] \o v
           e == Responses!Event("text_delta", r, Guarded(Released(b), ok))
           z == <<e>>
           s == [state EXCEPT !.holds[r] = Held(b), !.textFrames = @ \cup {r}]
<1>1. p.type = "text_delta" /\ p.key = r /\ p.value = v /\ r \in Keys /\ ok \in BOOLEAN
      /\ missed' = (missed \/ ~ok)
  BY EventParts DEF Keys, Says
<1>2. Responses!Rewrite(state, p, ok) = Responses!Sequenced(s, z)
  BY <1>1, ReplyText DEF Responses!Rewrite, Responses!TextDelta
<1>3. state \in ReplyState /\ KeyOK(r) /\ missed \in BOOLEAN
  BY <1>1 DEF ReplyInvariant, ReplyTyped, ReplyOpen
<1>4. Relayed(Said(r), state.holds[r], Read(r), missed) /\ state.holds[r] \in Seq(Fragment)
  BY <1>3 DEF KeyOK, ReplyState
<1>5. b \in Seq(Fragment)
  BY <1>4, JoinFacts
<1> HIDE DEF b
<1>6. Held(b) \in Seq(Fragment) /\ Guarded(Released(b), ok) \in Seq(Shown)
  BY <1>1, <1>5, HeldFacts, KeptTyped, GuardedFacts
<1>7. /\ s \in ReplyState /\ s.holds[r] = Held(b) /\ r \in s.textFrames
      /\ (\A k \in Runs : k # r => s.holds[k] = state.holds[k]
                                   /\ (k \in s.textFrames <=> k \in state.textFrames))
      /\ s.arguments = state.arguments /\ s.argFrames = state.argFrames
  BY <1>3, <1>6 DEF ReplyState
<1>8. /\ e \in EventsOver(Seq(Shown)) /\ e.type = "text_delta" /\ e.key = r
      /\ e.value = Guarded(Released(b), ok)
  BY <1>6, EventTyped, EventParts
<1> HIDE DEF e, s
<1>9. /\ z \in Seq(EventsOver(Seq(Shown))) /\ OfKey(z, r) /\ Spoken(z) = e.value
      /\ \A i \in 1 .. Len(z) : z[i] = e
  BY <1>8, OneEvent DEF DeltaTypes
<1> HIDE DEF z
<1>10. /\ Writes(p, z, ok)
       /\ state'.holds = s.holds /\ state'.textFrames = s.textFrames
  <2>1. \A i \in 1 .. Len(z) :
          /\ z[i].type \notin {"part_done", "item_done"} => ~Closed(received, p.key)
          /\ z[i].type \in Responses!LastWords => Closed(received, p.key) \/ p.type \in DoneTypes
    BY <1>1, <1>8, <1>9 DEF Responses!LastWords
  <2>2. OfKey(z, p.key)
    BY <1>1, <1>9
  <2>3. /\ \A k \in Runs : k # p.key => s.holds[k] = state.holds[k]
                                      /\ (k \in s.textFrames <=> k \in state.textFrames)
        /\ \A k \in Calls : k # p.key => s.arguments[k] = state.arguments[k]
                                       /\ (k \in s.argFrames <=> k \in state.argFrames)
    BY <1>1, <1>7
  <2>4. s \in ReplyState /\ z \in Seq(EventsOver(Seq(Shown)))
    BY <1>7, <1>9
  <2>5. Says(p, ok)
    OBVIOUS
  <2> QED BY <1>2, <2>1, <2>2, <2>3, <2>4, <2>5, SaysWrites
<1>11. /\ Said(r)' = Said(r) \o v /\ Read(r)' = Read(r) \o Guarded(Released(b), ok)
       /\ ~Closed(received', r)
  <2>1. p.type \in DeltaTypes /\ p.type \notin DoneTypes
    BY <1>1 DEF DeltaTypes, DoneTypes
  <2>2. /\ Said(p.key)' = Said(p.key) \o (IF p.type \in DeltaTypes THEN p.value ELSE << >>)
        /\ Read(p.key)' = Read(p.key) \o Spoken(z)
        /\ Closed(received', p.key) <=> (Closed(received, p.key) \/ p.type \in DoneTypes)
    BY <1>10, WritesFacts
  <2> QED BY <1>1, <1>8, <1>9, <2>1, <2>2
<1>12. Relayed(Said(r)', Held(b), Read(r)', missed')
  BY <1>1, <1>3, <1>4, <1>11, DeltaRelays DEF b
<1>13. KeyOK(r)'
  BY <1>7, <1>10, <1>11, <1>12, KeyAssumption DEF KeyOK
<1> QED BY <1>1, <1>8, <1>9, <1>10, <1>13, ReplyContinues DEF DeltaTypes

\* A value told again, restored or left standing, is what was delivered.
Retold(left, said, ok) == IF left THEN said ELSE Guarded(said, ok)

LEMMA ToldAgain ==
  ASSUME NEW said, NEW got, NEW lost \in BOOLEAN, NEW ok \in BOOLEAN, NEW left \in BOOLEAN,
         Delivered(said, got, lost \/ ~ok)
  PROVE  Again(left, Retold(left, said, ok), got, lost \/ ~ok)
<1>1. CASE left
  BY <1>1 DEF Again, Retold, Delivered
<1>2. CASE ~left
  BY <1>2, DeliveredWhole DEF Again, Retold, Guarded
<1> QED BY <1>1, <1>2

LEMMA TwoJoined ==
  ASSUME NEW W, NEW d \in W, NEW e \in W
  PROVE  << >> \o <<e>> = <<e>> /\ <<d>> \o <<e>> = <<d, e>>
<1>1. << >> \o <<e>> = <<e>>
  OBVIOUS
<1> DEFINE a == <<d>>
           b == <<e>>
           t == <<d, e>>
<1>2. /\ a \in Seq(W) /\ b \in Seq(W) /\ t \in Seq(W) /\ Len(a) = 1 /\ Len(b) = 1 /\ Len(t) = 2
      /\ a[1] = d /\ b[1] = e /\ t[1] = d /\ t[2] = e
  OBVIOUS
<1> HIDE DEF a, b, t
<1>3. /\ a \o b \in Seq(W) /\ Len(a \o b) = Len(a) + Len(b)
      /\ (\A i \in 1 .. Len(a) : (a \o b)[i] = a[i])
      /\ \A i \in 1 .. Len(b) : (a \o b)[Len(a) + i] = b[i]
  <2>1. a \in Seq(W) /\ b \in Seq(W)
    BY <1>2
  <2> QED BY ONLY <2>1, JoinFacts
<1>4. Len(a \o b) = 2 /\ (a \o b)[1] = d /\ (a \o b)[2] = e
  BY <1>2, <1>3
<1>5. a \o b = t
  BY <1>2, <1>3, <1>4
<1> QED BY <1>1, <1>5 DEF a, b, t

LEMMA SaysTextDone ==
  ASSUME ReplyInvariant, Answering, NEW r \in Runs, ~Closed(received, r),
         NEW p, p = Responses!Event("text_done", r, Said(r)), NEW ok, Says(p, ok)
  PROVE  ReplyInvariant'
<1> DEFINE w == state.holds[r]
           d == Responses!Event("text_delta", r, Guarded(w, ok))
           e == Responses!Event("text_done", r, Guarded(Said(r), ok))
           z == (IF w = << >> THEN << >> ELSE <<d>>) \o <<e>>
           s == [state EXCEPT !.holds[r] = << >>, !.textFrames = @ \ {r}]
<1>1. p.type = "text_done" /\ p.key = r /\ p.value = Said(r) /\ r \in Keys /\ ok \in BOOLEAN
      /\ missed' = (missed \/ ~ok)
  BY EventParts DEF Keys, Says
<1>2. Responses!Rewrite(state, p, ok) = Responses!Sequenced(s, z)
  BY <1>1, ReplyText DEF Responses!Rewrite, Responses!TextDone
<1>3. state \in ReplyState /\ KeyOK(r) /\ missed \in BOOLEAN /\ ReplyTyped
  BY <1>1 DEF ReplyInvariant, ReplyTyped, ReplyOpen
<1>4. Relayed(Said(r), w, Read(r), missed) /\ w \in Seq(Fragment) /\ Said(r) \in Seq(Fragment)
  BY <1>1, <1>3, SaidTyped DEF KeyOK, ReplyState
<1>5. << >> \in Seq(Fragment)
  OBVIOUS
<1>6. /\ s \in ReplyState /\ s.holds[r] = << >> /\ r \notin s.textFrames
      /\ (\A k \in Runs : k # r => s.holds[k] = state.holds[k]
                                   /\ (k \in s.textFrames <=> k \in state.textFrames))
      /\ s.arguments = state.arguments /\ s.argFrames = state.argFrames
  BY <1>3, <1>5 DEF ReplyState
<1> HIDE DEF w, s
<1>7. Guarded(w, ok) \in Seq(Shown) /\ Guarded(Said(r), ok) \in Seq(Shown)
  BY <1>1, <1>4, GuardedFacts
<1>8. /\ d \in EventsOver(Seq(Shown)) /\ d.type = "text_delta" /\ d.key = r /\ d.value = Guarded(w, ok)
      /\ e \in EventsOver(Seq(Shown)) /\ e.type = "text_done" /\ e.key = r
      /\ e.value = Guarded(Said(r), ok)
      /\ d.type \in DeltaTypes /\ e.type \notin DeltaTypes /\ e.type # "terminal"
  <2>1. d \in EventsOver(Seq(Shown)) /\ e \in EventsOver(Seq(Shown))
    BY <1>7, EventTyped
  <2>2. d.type = "text_delta" /\ d.key = r /\ d.value = Guarded(w, ok)
    BY EventParts
  <2>3. e.type = "text_done" /\ e.key = r /\ e.value = Guarded(Said(r), ok)
    BY EventParts
  <2> HIDE DEF d, e
  <2> QED BY <2>1, <2>2, <2>3 DEF DeltaTypes
<1> HIDE DEF d, e
<1>9. /\ z \in Seq(EventsOver(Seq(Shown))) /\ OfKey(z, r) /\ Spoken(z) = Guarded(w, ok)
      /\ \A i \in 1 .. Len(z) : z[i] = d \/ z[i] = e
  <2> DEFINE y == <<e>>
             t == <<d, e>>
  <2>1. /\ y \in Seq(EventsOver(Seq(Shown))) /\ OfKey(y, r) /\ Spoken(y) = << >>
        /\ \A i \in 1 .. Len(y) : y[i] = e
    BY <1>8, OneEvent
  <2>2. /\ t \in Seq(EventsOver(Seq(Shown))) /\ OfKey(t, r) /\ Spoken(t) = Guarded(w, ok)
        /\ \A i \in 1 .. Len(t) : t[i] = d \/ t[i] = e
    BY <1>8, TwoEvents
  <2>3. << >> \o <<e>> = y /\ <<d>> \o <<e>> = t
    BY <1>8, TwoJoined
  <2> HIDE DEF y, t
  <2>4. CASE w = << >>
    <3>1. z = y /\ Guarded(w, ok) = << >>
      BY <2>3, <2>4, NothingWhole
    <3> HIDE DEF z
    <3> QED BY <2>1, <3>1
  <2>5. CASE w # << >>
    <3>1. z = t
      BY <2>3, <2>5
    <3> HIDE DEF z
    <3> QED BY <2>2, <3>1
  <2> QED BY <2>4, <2>5
<1> HIDE DEF z
<1>10. p.type \notin DeltaTypes /\ p.type \in DoneTypes
  BY <1>1 DEF DeltaTypes, DoneTypes
<1>11. /\ Writes(p, z, ok)
       /\ state'.holds = s.holds /\ state'.textFrames = s.textFrames
  <2>1. \A i \in 1 .. Len(z) :
          /\ z[i].type \notin {"part_done", "item_done"} => ~Closed(received, p.key)
          /\ z[i].type \in Responses!LastWords => Closed(received, p.key) \/ p.type \in DoneTypes
    BY <1>1, <1>8, <1>9, <1>10
  <2>2. OfKey(z, p.key)
    BY <1>1, <1>9
  <2>3. /\ \A k \in Runs : k # p.key => s.holds[k] = state.holds[k]
                                      /\ (k \in s.textFrames <=> k \in state.textFrames)
        /\ \A k \in Calls : k # p.key => s.arguments[k] = state.arguments[k]
                                       /\ (k \in s.argFrames <=> k \in state.argFrames)
    BY <1>1, <1>6
  <2> QED BY <1>2, <1>6, <1>9, <2>1, <2>2, <2>3, SaysWrites
<1>12. /\ Said(r)' = Said(r) /\ Read(r)' = Read(r) \o Guarded(w, ok)
       /\ Closed(received', r)
  <2>1. /\ Said(p.key)' = Said(p.key) \o (IF p.type \in DeltaTypes THEN p.value ELSE << >>)
        /\ Read(p.key)' = Read(p.key) \o Spoken(z)
        /\ Closed(received', p.key) <=> (Closed(received, p.key) \/ p.type \in DoneTypes)
    BY <1>11, WritesFacts
  <2>2. Said(r)' = Said(r) \o << >>
    BY <1>1, <1>10, <2>1
  <2> QED BY <1>1, <1>4, <1>9, <1>10, <2>1, <2>2
<1>13. Delivered(Said(r)', Read(r)', missed \/ ~ok)
  BY <1>1, <1>3, <1>4, <1>12, LastDelivers
<1>14. KeyOK(r)'
  BY <1>1, <1>6, <1>11, <1>12, <1>13, KeyAssumption DEF KeyOK
<1>15. Again(Responses!LeftStanding(e, r), e.value, Read(r)', missed')
  <2>1. Responses!LeftStanding(e, r) = FALSE
    BY <1>8 DEF Responses!LeftStanding
  <2>2. Again(FALSE, Retold(FALSE, Said(r), ok), Read(r)', missed \/ ~ok)
    BY <1>1, <1>3, <1>12, <1>13, ToldAgain
  <2>3. Retold(FALSE, Said(r), ok) = e.value
    BY <1>8 DEF Retold
  <2> QED BY <1>1, <2>1, <2>2, <2>3
<1> QED BY <1>1, <1>8, <1>9, <1>11, <1>14, <1>15, ReplyContinues

LEMMA SaysCallDone ==
  ASSUME ReplyInvariant, Answering, NEW c \in Calls, ~Closed(received, c),
         NEW p, p = Responses!Event("args_done", c, Said(c)) \/ p = Responses!Event("args_done_bare", c, << >>),
         NEW ok, Says(p, ok)
  PROVE  ReplyInvariant'
<1> DEFINE w == Guarded(Said(c), ok)
           d == Responses!Event("args_delta", c, w)
           e == Responses!Event("args_done", c, w)
           z == <<d, e>>
           s == [state EXCEPT !.arguments[c] = << >>, !.argFrames = @ \ {c}]
<1>1. /\ p.key = c /\ c \in Keys /\ ok \in BOOLEAN /\ missed' = (missed \/ ~ok)
      /\ (p.type = "args_done" /\ p.value = Said(c)) \/ p.type = "args_done_bare"
  BY EventParts DEF Keys, Says
<1>2. state \in ReplyState /\ KeyOK(c) /\ missed \in BOOLEAN /\ ReplyTyped
  BY <1>1 DEF ReplyInvariant, ReplyTyped, ReplyOpen
<1>3. state.arguments[c] = Said(c) /\ Read(c) = << >> /\ Said(c) \in Seq(Fragment)
  BY <1>1, <1>2, SaidTyped DEF KeyOK
<1>4. Responses!Rewrite(state, p, ok) = Responses!Sequenced(s, z)
  BY <1>1, <1>3, ReplyText DEF Responses!Rewrite, Responses!ArgsDone
<1>5. << >> \in Seq(Fragment)
  OBVIOUS
<1>6. /\ s \in ReplyState /\ s.arguments[c] = << >> /\ c \notin s.argFrames
      /\ (\A k \in Calls : k # c => s.arguments[k] = state.arguments[k]
                                    /\ (k \in s.argFrames <=> k \in state.argFrames))
      /\ s.holds = state.holds /\ s.textFrames = state.textFrames
  BY <1>2, <1>5 DEF ReplyState
<1> HIDE DEF s
<1>7. w \in Seq(Shown)
  BY <1>1, <1>3, GuardedFacts
<1> HIDE DEF w
<1>8. /\ d \in EventsOver(Seq(Shown)) /\ d.type = "args_delta" /\ d.key = c /\ d.value = w
      /\ e \in EventsOver(Seq(Shown)) /\ e.type = "args_done" /\ e.key = c /\ e.value = w
      /\ d.type \in DeltaTypes /\ e.type \notin DeltaTypes /\ e.type # "terminal"
  <2>1. d \in EventsOver(Seq(Shown)) /\ e \in EventsOver(Seq(Shown))
    BY <1>7, EventTyped
  <2>2. d.type = "args_delta" /\ d.key = c /\ d.value = w
    BY EventParts
  <2>3. e.type = "args_done" /\ e.key = c /\ e.value = w
    BY EventParts
  <2> HIDE DEF d, e
  <2> QED BY <2>1, <2>2, <2>3 DEF DeltaTypes
<1> HIDE DEF d, e
<1>9. /\ z \in Seq(EventsOver(Seq(Shown))) /\ OfKey(z, c) /\ Spoken(z) = w
      /\ \A i \in 1 .. Len(z) : z[i] = d \/ z[i] = e
  BY <1>8, TwoEvents
<1> HIDE DEF z
<1>10. p.type \notin DeltaTypes /\ p.type \in DoneTypes
  BY <1>1 DEF DeltaTypes, DoneTypes
<1>11. /\ Writes(p, z, ok)
       /\ state'.arguments = s.arguments /\ state'.argFrames = s.argFrames
  <2>1. \A i \in 1 .. Len(z) :
          /\ z[i].type \notin {"part_done", "item_done"} => ~Closed(received, p.key)
          /\ z[i].type \in Responses!LastWords => Closed(received, p.key) \/ p.type \in DoneTypes
    BY <1>1, <1>8, <1>9, <1>10
  <2>2. OfKey(z, p.key)
    BY <1>1, <1>9
  <2>3. /\ \A k \in Runs : k # p.key => s.holds[k] = state.holds[k]
                                      /\ (k \in s.textFrames <=> k \in state.textFrames)
        /\ \A k \in Calls : k # p.key => s.arguments[k] = state.arguments[k]
                                       /\ (k \in s.argFrames <=> k \in state.argFrames)
    BY <1>1, <1>6
  <2> QED BY <1>4, <1>6, <1>9, <2>1, <2>2, <2>3, SaysWrites
<1>12. Said(c)' = Said(c) /\ Read(c)' = w /\ Closed(received', c)
  <2>1. /\ Said(p.key)' = Said(p.key) \o (IF p.type \in DeltaTypes THEN p.value ELSE << >>)
        /\ Read(p.key)' = Read(p.key) \o Spoken(z)
        /\ Closed(received', p.key) <=> (Closed(received, p.key) \/ p.type \in DoneTypes)
    BY <1>11, WritesFacts
  <2>2. Said(c)' = Said(c) \o << >> /\ Read(c)' = << >> \o w
    BY <1>1, <1>3, <1>9, <1>10, <2>1
  <2> QED BY <1>1, <1>3, <1>7, <1>10, <2>1, <2>2
<1>13. Delivered(Said(c)', Read(c)', missed \/ ~ok)
  BY <1>1, <1>2, <1>3, <1>12, LastDelivers DEF w
<1>14. KeyOK(c)'
  BY <1>1, <1>6, <1>11, <1>12, <1>13, KeyAssumption DEF KeyOK
<1>15. Again(Responses!LeftStanding(e, c), e.value, Read(c)', missed')
  <2>1. Responses!LeftStanding(e, c) = FALSE
    BY <1>8 DEF Responses!LeftStanding
  <2>2. Again(FALSE, Retold(FALSE, Said(c), ok), Read(c)', missed \/ ~ok)
    BY <1>1, <1>2, <1>12, <1>13, ToldAgain
  <2>3. Retold(FALSE, Said(c), ok) = e.value
    BY <1>8 DEF Retold, w
  <2> QED BY <1>1, <2>1, <2>2, <2>3
<1> QED BY <1>1, <1>8, <1>9, <1>11, <1>14, <1>15, ReplyContinues

LEMMA SaysNothing ==
  ASSUME NEW s \in ReplyState
  PROVE  Responses!Sequenced(s, << >>) = [state |-> s, out |-> << >>]
<1>1. s.next \in Int /\ s.next + 0 = s.next
  BY DEF ReplyState
<1>2. [s EXCEPT !.next = @ + Len(<< >>)] = s
  <2>1. Len(<< >>) = 0
    OBVIOUS
  <2> QED BY <1>1, <2>1 DEF ReplyState
<1>3. [i \in DOMAIN << >> |-> [event |-> << >>[i], number |-> s.next + i - 1]] = << >>
  OBVIOUS
<1> QED BY <1>2, <1>3 DEF Responses!Sequenced

LEMMA SaysCallDelta ==
  ASSUME ReplyInvariant, Answering, NEW c \in Calls, NEW v \in Seq(Fragment), ~Closed(received, c),
         NEW p, p = Responses!Event("args_delta", c, v), NEW ok, Says(p, ok)
  PROVE  ReplyInvariant'
<1> DEFINE w == state.arguments[c] \o v
           s == [state EXCEPT !.arguments[c] = w, !.argFrames = @ \cup {c}]
           z == << >>
<1>1. p.type = "args_delta" /\ p.key = c /\ p.value = v /\ c \in Keys /\ ok \in BOOLEAN
      /\ missed' = (missed \/ ~ok)
  BY EventParts DEF Keys, Says
<1>2. state \in ReplyState /\ KeyOK(c) /\ missed \in BOOLEAN /\ ReplyTyped
  BY <1>1 DEF ReplyInvariant, ReplyTyped, ReplyOpen
<1>3. state.arguments[c] = Said(c) /\ Read(c) = << >> /\ Said(c) \in Seq(Fragment)
  BY <1>1, <1>2, SaidTyped DEF KeyOK
<1>4. Responses!Rewrite(state, p, ok) = [state |-> s, out |-> << >>]
  BY <1>1 DEF Responses!Rewrite, Responses!ArgsDelta
<1>5. w \in Seq(Fragment) /\ w = Said(c) \o v
  BY <1>3, JoinFacts
<1> HIDE DEF w
<1>6. /\ s \in ReplyState /\ s.arguments[c] = w /\ c \in s.argFrames
      /\ (\A k \in Calls : k # c => s.arguments[k] = state.arguments[k]
                                    /\ (k \in s.argFrames <=> k \in state.argFrames))
      /\ s.holds = state.holds /\ s.textFrames = state.textFrames
  BY <1>2, <1>5 DEF ReplyState
<1> HIDE DEF s
<1>7. Responses!Rewrite(state, p, ok) = Responses!Sequenced(s, z)
  BY <1>4, <1>6, SaysNothing
<1>8. /\ z \in Seq(EventsOver(Seq(Shown))) /\ OfKey(z, c) /\ Spoken(z) = << >>
      /\ (1 .. Len(z)) = {}
  BY DEF OfKey, Spoken
<1> HIDE DEF z
<1>9. p.type \in DeltaTypes /\ p.type \notin DoneTypes
  BY <1>1 DEF DeltaTypes, DoneTypes
<1>10. /\ Writes(p, z, ok)
       /\ state'.arguments = s.arguments /\ state'.argFrames = s.argFrames
  <2>1. \A i \in 1 .. Len(z) :
          /\ z[i].type \notin {"part_done", "item_done"} => ~Closed(received, p.key)
          /\ z[i].type \in Responses!LastWords => Closed(received, p.key) \/ p.type \in DoneTypes
    BY <1>8
  <2>2. OfKey(z, p.key)
    BY <1>1, <1>8
  <2>3. /\ \A k \in Runs : k # p.key => s.holds[k] = state.holds[k]
                                      /\ (k \in s.textFrames <=> k \in state.textFrames)
        /\ \A k \in Calls : k # p.key => s.arguments[k] = state.arguments[k]
                                       /\ (k \in s.argFrames <=> k \in state.argFrames)
    BY <1>1, <1>6
  <2>4. s \in ReplyState /\ z \in Seq(EventsOver(Seq(Shown))) /\ Says(p, ok)
    BY <1>6, <1>8
  <2> QED BY <1>7, <2>1, <2>2, <2>3, <2>4, SaysWrites
<1>11. Said(c)' = Said(c) \o v /\ Read(c)' = << >> /\ ~Closed(received', c)
  <2>1. /\ Said(p.key)' = Said(p.key) \o (IF p.type \in DeltaTypes THEN p.value ELSE << >>)
        /\ Read(p.key)' = Read(p.key) \o Spoken(z)
        /\ Closed(received', p.key) <=> (Closed(received, p.key) \/ p.type \in DoneTypes)
    BY <1>10, WritesFacts
  <2>2. Said(c)' = Said(c) \o v /\ Read(c)' = << >> \o << >>
    BY <1>1, <1>3, <1>8, <1>9, <2>1
  <2> QED BY <1>1, <1>9, <2>1, <2>2
<1>12. KeyOK(c)'
  BY <1>5, <1>6, <1>10, <1>11, KeyAssumption DEF KeyOK
<1> QED BY <1>1, <1>8, <1>10, <1>12, ReplyContinues

\* A done event behind the last word on a key.
LEMMA SaysAgain ==
  ASSUME ReplyInvariant, Answering, NEW k \in Keys, Closed(received, k),
         NEW t \in {"part_done", "item_done"}, t = "part_done" => k \in Runs,
         NEW p, p = Responses!Event(t, k, Said(k)), NEW ok, Says(p, ok),
         NEW left \in BOOLEAN, left <=> Responses!LeftStanding(p, k),
         NEW e, e = Responses!Event(t, k, Retold(left, Said(k), ok)),
         Responses!Rewrite(state, p, ok) = Responses!Sequenced(state, <<e>>)
  PROVE  ReplyInvariant'
<1> DEFINE w == Retold(left, Said(k), ok)
           z == <<e>>
<1>1. p.type = t /\ p.key = k /\ p.value = Said(k) /\ ok \in BOOLEAN
      /\ missed' = (missed \/ ~ok)
  BY EventParts DEF Says
<1>4. state \in ReplyState /\ KeyOK(k) /\ missed \in BOOLEAN /\ ReplyTyped
  BY <1>1 DEF ReplyInvariant, ReplyTyped, ReplyOpen
<1>5. Delivered(Said(k), Read(k), missed) /\ Said(k) \in Seq(Fragment)
  BY <1>4, SaidTyped DEF KeyOK
<1>6. w \in Seq(Shown)
  BY <1>1, <1>5, GuardedFacts, FragmentsShown DEF Retold
<1> HIDE DEF w
<1>7. e \in EventsOver(Seq(Shown)) /\ e.type = t /\ e.key = k /\ e.value = w
      /\ e.type \notin DeltaTypes /\ e.type # "terminal"
  <2>1. e \in EventsOver(Seq(Shown))
    BY <1>6, EventTyped DEF w
  <2>2. e.type = t /\ e.key = k /\ e.value = w
    BY EventParts DEF w
  <2> QED BY <2>1, <2>2 DEF DeltaTypes
<1>8. /\ z \in Seq(EventsOver(Seq(Shown))) /\ OfKey(z, k) /\ Spoken(z) = << >>
      /\ \A i \in 1 .. Len(z) : z[i] = e
  BY <1>7, OneEvent
<1>0. Responses!Rewrite(state, p, ok) = Responses!Sequenced(state, z)
  OBVIOUS
<1> HIDE DEF z
<1>9. p.type \notin DeltaTypes /\ p.type \notin DoneTypes
  BY <1>1 DEF DeltaTypes, DoneTypes
<1>10. /\ Writes(p, z, ok)
       /\ state'.holds = state.holds /\ state'.textFrames = state.textFrames
       /\ state'.arguments = state.arguments /\ state'.argFrames = state.argFrames
  <2>1. \A i \in 1 .. Len(z) :
          /\ z[i].type \notin {"part_done", "item_done"} => ~Closed(received, p.key)
          /\ z[i].type \in Responses!LastWords => Closed(received, p.key) \/ p.type \in DoneTypes
    BY <1>1, <1>7, <1>8
  <2>2. OfKey(z, p.key)
    BY <1>1, <1>8
  <2> QED BY <1>0, <1>4, <1>8, <2>1, <2>2, SaysWrites
<1>11. Said(k)' = Said(k) /\ Read(k)' = Read(k) /\ (Closed(received', k) <=> Closed(received, k))
  <2>1. /\ Said(p.key)' = Said(p.key) \o (IF p.type \in DeltaTypes THEN p.value ELSE << >>)
        /\ Read(p.key)' = Read(p.key) \o Spoken(z) /\ Read(p.key) \in Seq(Shown)
        /\ Closed(received', p.key) <=> (Closed(received, p.key) \/ p.type \in DoneTypes)
    BY <1>10, WritesFacts
  <2>2. Said(k)' = Said(k) \o << >> /\ Read(k)' = Read(k) \o << >> /\ Read(k) \in Seq(Shown)
    BY <1>1, <1>8, <1>9, <2>1
  <2>3. Said(k) \o << >> = Said(k) /\ Read(k) \o << >> = Read(k)
    BY <1>5, <2>2
  <2> QED BY <1>1, <1>9, <2>1, <2>2, <2>3
<1>12. KeyOK(k)'
  BY <1>1, <1>4, <1>10, <1>11, KeyStays
<1>13. Again(Responses!LeftStanding(e, k), e.value, Read(k)', missed')
  <2>1. Delivered(Said(k), Read(k), missed \/ ~ok)
    BY <1>1, <1>4, <1>5, StillRelayed
  <2>2. Again(left, w, Read(k), missed \/ ~ok)
    BY <1>1, <1>4, <2>1, ToldAgain DEF w
  <2>3. Responses!LeftStanding(e, k) <=> left
    BY <1>1, <1>7 DEF Responses!LeftStanding
  <2> QED BY <1>1, <1>7, <1>11, <2>2, <2>3 DEF Again
<1> QED BY <1>1, <1>7, <1>8, <1>10, <1>12, <1>13, ReplyContinues

LEMMA SaysPartDone ==
  ASSUME ReplyInvariant, Answering, NEW r \in Runs, Closed(received, r),
         NEW p, p = Responses!Event("part_done", r, Said(r)), NEW ok, Says(p, ok)
  PROVE  ReplyInvariant'
<1>1. p.type = "part_done" /\ r \in Keys
  BY EventParts DEF Keys
<1>2. Responses!Rewrite(state, p, ok) = Responses!Sequenced(state, <<p>>)
  BY <1>1 DEF Responses!Rewrite, Responses!PassedOn
<1>3. p = Responses!Event("part_done", r, Retold(TRUE, Said(r), ok))
  BY DEF Retold
<1>4. Responses!LeftStanding(p, r)
  BY <1>1 DEF Responses!LeftStanding
<1> QED BY <1>1, <1>2, <1>3, <1>4, SaysAgain

LEMMA SaysItemDone ==
  ASSUME ReplyInvariant, Answering, NEW k \in Keys, Closed(received, k),
         NEW p, p = Responses!Event("item_done", k, Said(k)), NEW ok, Says(p, ok)
  PROVE  ReplyInvariant'
<1>1. p.type = "item_done" /\ p.key = k /\ p.value = Said(k)
  BY EventParts
<1>2. PICK left \in BOOLEAN : left <=> k \in Refusals
  OBVIOUS
<1>3. Responses!RestoredItem(k, Said(k), ok) = Retold(left, Said(k), ok)
  BY <1>2, ReplyText, KeyAssumption DEF Responses!RestoredItem, Retold
<1>4. PICK e : e = Responses!Event("item_done", k, Retold(left, Said(k), ok))
  OBVIOUS
<1>5. Responses!Rewrite(state, p, ok) = Responses!Sequenced(state, <<e>>)
  BY <1>1, <1>3, <1>4 DEF Responses!Rewrite, Responses!ItemDone
<1>6. left <=> Responses!LeftStanding(p, k)
  BY <1>1, <1>2 DEF Responses!LeftStanding
<1> QED BY <1>2, <1>4, <1>5, <1>6, SaysAgain

LEMMA FirstOf == ASSUME NEW W, NEW d \in Seq(W), Len(d) = 1 PROVE d[1] \in W
<1>1. \A n \in 1 .. Len(d) : d[n] \in W
  OBVIOUS
<1>2. 1 \in 1 .. Len(d)
  OBVIOUS
<1> QED BY <1>1, <1>2

\* A flush, and the terminal event behind it.
LEMMA SaysTerminal ==
  ASSUME ReplyInvariant, Answering, status = "open", NEW p, NEW ok \in BOOLEAN,
         p = Responses!Event("terminal", Keys, [k \in Keys |-> Said(k)]),
         received' = Append(received, Responses!EventOf(p)), status' = status, cut' = "none",
         missed' = (missed \/ ~ok),
         state' = Responses!Rewrite(Responses!FlushHeld(state, ok).state, p, ok).state,
         out' = out \o Responses!Sent(Responses!FlushHeld(state, ok).out)
                    \o Responses!Sent(Responses!Rewrite(Responses!FlushHeld(state, ok).state, p, ok).out)
  PROVE  ReplyInvariant'
<1> DEFINE f == Responses!FlushHeld(state, ok).state
           flushed == Responses!Sent(Responses!FlushHeld(state, ok).out)
           left(k) == k \in Refusals
           w == [k \in Keys |-> Retold(left(k), Said(k), ok)]
           e == Responses!Event("terminal", Keys, w)
           z == <<e>>
           written == Responses!Sequenced(f, z)
           d == Responses!Sent(written.out)
           x == flushed \o d
           b == Responses!EventOf(p)
<1>1. p.type = "terminal" /\ p.value = [k \in Keys |-> Said(k)]
  BY EventParts
<1>2. ReplyTyped /\ missed \in BOOLEAN /\ out \in Seq(ReplyItem)
  BY DEF ReplyInvariant, ReplyTyped
<1>3. Responses!RestoredResponse(p.value, ok) = w
  <2>1. \A k \in Keys : Responses!RestoredItem(k, Said(k), ok) = Retold(left(k), Said(k), ok)
    BY ReplyText, KeyAssumption DEF Responses!RestoredItem, Retold
  <2>2. Responses!RestoredResponse(p.value, ok) = [k \in Keys |-> Responses!RestoredItem(k, p.value[k], ok)]
    BY ReplyText DEF Responses!RestoredResponse
  <2> QED BY <1>1, <2>1, <2>2, ZenonT(60)
<1>4. Responses!Rewrite(f, p, ok) = written
  <2> HIDE DEF w, f
  <2> QED BY <1>1, <1>3, ReplyText DEF Responses!Rewrite, Responses!Terminal
<1>5. /\ f \in ReplyState /\ f.textFrames = {} /\ f.argFrames = {}
      /\ flushed \in Seq(ReplyItem) /\ ReplyFlush(flushed, state, ok, TRUE)
      /\ \A i \in DOMAIN flushed : Speaks(flushed[i])
  BY ReplyDebts
<1>6. \A k \in Keys : Said(k) \in Seq(Fragment) /\ Retold(left(k), Said(k), ok) \in Seq(Shown)
  BY <1>2, SaidTyped, GuardedFacts, FragmentsShown DEF Retold
<1>7. w \in [Keys -> Seq(Shown)] /\ \A k \in Keys : w[k] = Retold(left(k), Said(k), ok)
  BY <1>6
<1> HIDE DEF w, f, flushed
<1>8. e \in EventsOver(Seq(Shown)) /\ e.type = "terminal" /\ e.value = w
  BY <1>7 DEF EventsOver, Responses!Event
<1> HIDE DEF e
<1>9. z \in Seq(EventsOver(Seq(Shown))) /\ Len(z) = 1 /\ z[1] = e
  BY <1>8
<1> HIDE DEF z
<1>10. /\ Carries(d, z) /\ written.state \in ReplyState
       /\ written.state.textFrames = f.textFrames /\ written.state.argFrames = f.argFrames
  BY <1>5, <1>9, SentEvents
<1>11. /\ state' = written.state /\ out' = (out \o flushed) \o d
  BY <1>4 DEF f, flushed
<1> HIDE DEF written, d
<1>12. PICK y \in ReplyItem : y = d[1] /\ y.sent = "event" /\ y.body.event = e
  <2>1. d \in Seq(ReplyItem) /\ Len(d) = 1 /\ d[1].sent = "event" /\ d[1].body.event = e
    BY <1>9, <1>10 DEF Carries
  <2>2. d[1] \in ReplyItem
    BY <2>1, FirstOf
  <2> QED BY <2>1, <2>2
<1>13. d = <<y>> /\ d \in Seq(ReplyItem) /\ Len(d) = 1
  <2>1. d \in Seq(ReplyItem) /\ Len(d) = 1 /\ d[1] = y
    BY <1>9, <1>10, <1>12 DEF Carries
  <2> QED BY <2>1
<1>14. ~Speaks(y) /\ y.sent # "raw"
  BY <1>8, <1>12 DEF Speaks, DeltaTypes
<1>15. ReplyFlush(x, state, ok, TRUE)
  BY <1>5, <1>12, <1>13, <1>14, ReplyFramed
<1>16. out' = out \o x
  <2>1. Regroups(out, flushed, d)
    BY <1>2, <1>5, <1>13, JoinedThree
  <2> QED BY <1>11, <2>1 DEF Regroups
<1>17. ASSUME NEW j \in DOMAIN x, ~Speaks(x[j]) PROVE x[j] = y
  <2>1. /\ Len(x) = Len(flushed) + Len(d)
        /\ \A i \in 1 .. Len(flushed) : x[i] = flushed[i]
        /\ \A i \in 1 .. Len(d) : x[Len(flushed) + i] = d[i]
    BY <1>5, <1>13, JoinFacts
  <2>2. /\ Len(flushed) \in Nat /\ DOMAIN flushed = 1 .. Len(flushed) /\ DOMAIN x = 1 .. Len(x)
        /\ 1 \in 1 .. Len(d)
    BY <1>5, <1>13, <1>15 DEF ReplyFlush
  <2>3. j \notin 1 .. Len(flushed)
    BY <1>5, <1>17, <2>1, <2>2
  <2>4. j = Len(flushed) + 1
    BY <1>13, <2>1, <2>2, <2>3
  <2> QED BY <1>12, <2>1, <2>2, <2>4
<1> HIDE DEF x
<1>18. out' \in Seq(ReplyItem) /\ \A k \in Keys : Delivered(Said(k), Read(k)', missed \/ ~ok)
  <2>1. out' \in Seq(ReplyItem)
    <3>1. x \in Seq(ReplyItem)
      BY <1>15 DEF ReplyFlush
    <3>2. out \o x \in Seq(ReplyItem)
      BY ONLY <1>2, <3>1, JoinFacts
    <3> QED BY <1>16, <3>2
  <2>2. ASSUME NEW k \in Keys PROVE Delivered(Said(k), Read(k)', missed \/ ~ok)
    BY <1>15, <1>16, ReplyHandsOver
  <2> QED BY <2>1, <2>2
<1>19. Repeats(e, out', Len(out'), missed')
  <2>1. ASSUME NEW k \in Keys
        PROVE  Again(Responses!LeftStanding(e, k), e.value[k],
                     HeardTo(out', Len(out'), ReadBy(k)), missed')
    <3>1. PICK l \in BOOLEAN : l <=> k \in Refusals
      OBVIOUS
    <3>2. Again(l, Retold(l, Said(k), ok), Read(k)', missed \/ ~ok)
      BY <1>2, <1>18, ToldAgain
    <3>3. HeardTo(out', Len(out'), ReadBy(k)) = Read(k)'
      BY <1>18, HeardToWhole DEF Read
    <3>4. Responses!LeftStanding(e, k) <=> l
      BY <1>8, <3>1 DEF Responses!LeftStanding
    <3>5. e.value[k] = Retold(l, Said(k), ok)
      BY <1>7, <1>8, <3>1 DEF Retold
    <3> QED BY <3>2, <3>3, <3>4, <3>5 DEF Again
  <2> QED BY <1>8, <2>1 DEF Repeats
<1>20. Repeated(x, out', missed')
  BY <1>8, <1>12, <1>17, <1>19 DEF Repeated
<1>21. /\ b \in ReplyBlock /\ b.block = "event" /\ b.payload = p /\ p \in EventsOver(Seq(Fragment))
  <2>1. [k \in Keys |-> Said(k)] \in [Keys -> Seq(Fragment)]
    BY <1>6
  <2>2. p \in EventsOver(Seq(Fragment))
    <3> DEFINE v == [k \in Keys |-> Said(k)]
    <3>1. p = Responses!Event("terminal", Keys, v) /\ v \in [Keys -> Seq(Fragment)]
      BY <2>1
    <3> HIDE DEF v
    <3> QED BY <3>1 DEF EventsOver, Responses!Event
  <2> QED BY <2>2 DEF ReplyBlock, Responses!EventOf
<1>22. received' = Append(received, b)
  OBVIOUS
<1> HIDE DEF b
<1>23. /\ received' \in Seq(ReplyBlock) /\ Concluded(received')
       /\ \A k \in Keys : Said(k)' = Said(k) \o SaidBy(k)[b]
  BY <1>1, <1>2, <1>21, <1>22, ReplyReceives
<1>24. ASSUME NEW k \in Keys PROVE Said(k)' = Said(k)
  <2>1. ~Responses!DeltaOf(p, k)
    BY <1>1, <1>21, EventFacts DEF DeltaTypes
  <2>2. SaidBy(k)[b] = << >>
    BY <1>21, <2>1 DEF SaidBy
  <2>3. Said(k)' = Said(k) \o << >> /\ Said(k) \in Seq(Fragment)
    BY <1>6, <1>23, <2>2
  <2>4. Said(k) \o << >> = Said(k)
    BY <2>3
  <2> QED BY <2>3, <2>4
<1>25. ~Answering'
  BY <1>23 DEF Answering
<1>26. state' \in ReplyState /\ state'.textFrames = {} /\ state'.argFrames = {}
  BY <1>5, <1>10, <1>11
<1> QED BY <1>15, <1>16, <1>20, <1>23, <1>24, <1>25, <1>26, ReplyEnds

LEMMA ReplyEvent == ASSUME ReplyInvariant, Responses!RelayEvent PROVE ReplyInvariant'
<1>1. PICK p \in Responses!NextPayloads(received), ok \in BOOLEAN :
        LET flushed == IF Responses!Ends(p) THEN Responses!FlushHeld(state, ok)
                       ELSE [state |-> state, out |-> << >>]
            written == Responses!Rewrite(flushed.state, p, ok)
        IN  /\ Responses!Receive(Responses!EventOf(p))
            /\ state' = written.state
            /\ out' = out \o Responses!Sent(flushed.out) \o Responses!Sent(written.out)
            /\ missed' = (missed \/ ~ok)
  BY DEF Responses!RelayEvent
<1>2. /\ Streaming /\ status = "open" /\ status' = status /\ cut' = "none"
      /\ received' = Append(received, Responses!EventOf(p)) /\ missed' = (missed \/ ~ok)
  BY <1>1, ReplyStreams DEF Responses!Receive, Responses!MayArrive
<1>3. ReplyTyped /\ out \in Seq(ReplyItem)
  BY DEF ReplyInvariant, ReplyTyped
<1>4. Answering /\ NextForms(p)
  BY <1>1, <1>2, <1>3, ReplyNext DEF Answering
<1>5. ASSUME p.type # "terminal", p \in EventsOver(Seq(Fragment)) PROVE Says(p, ok)
  <2>1. /\ state' = Responses!Rewrite(state, p, ok).state
        /\ out' = out \o Responses!Sent(<< >>) \o Responses!Sent(Responses!Rewrite(state, p, ok).out)
    BY <1>1, <1>5 DEF Responses!Ends
  <2>2. Responses!Sent(<< >>) = << >>
    BY DEF Responses!Sent
  <2>3. out \o << >> = out
    BY <1>3
  <2> QED BY <1>1, <1>2, <1>5, <2>1, <2>2, <2>3 DEF Says
<1>6. ASSUME NEW t \in DeltaTypes \cup DoneTypes \cup {"part_done", "item_done"}, NEW k, NEW v,
             p = Responses!Event(t, k, v), p \in EventsOver(Seq(Fragment))
      PROVE  Says(p, ok)
  <2>1. p.type # "terminal"
    BY <1>6, EventParts DEF DeltaTypes, DoneTypes
  <2> QED BY <1>5, <1>6, <2>1
<1>7. \A k \in Keys : Said(k) \in Seq(Fragment)
  BY <1>3, SaidTyped
<1>8. /\ Deltas \subseteq Seq(Fragment) /\ Arguments \subseteq Seq(Fragment) /\ << >> \in Seq(Fragment)
      /\ Runs \subseteq Keys /\ Calls \subseteq Keys
  BY TextAssumption DEF Keys
<1>9. ASSUME NEW r \in Runs, NEW v \in Deltas, ~Closed(received, r),
             p = Responses!Event("text_delta", r, v)
      PROVE  ReplyInvariant'
  <2>1. v \in Seq(Fragment)
    BY <1>8, <1>9
  <2>2. Says(p, ok)
    BY <1>6, <1>9, <2>1, EventTyped DEF DeltaTypes
  <2> QED BY <1>4, <1>9, <2>1, <2>2, SaysTextDelta
<1>10. ASSUME NEW c \in Calls, NEW v \in Arguments, ~Closed(received, c),
              p = Responses!Event("args_delta", c, v)
       PROVE  ReplyInvariant'
  <2>1. v \in Seq(Fragment)
    BY <1>8, <1>10
  <2>2. Says(p, ok)
    BY <1>6, <1>10, <2>1, EventTyped DEF DeltaTypes
  <2> QED BY <1>4, <1>10, <2>1, <2>2, SaysCallDelta
<1>11. ASSUME NEW r \in Runs, ~Closed(received, r), p = Responses!Event("text_done", r, Said(r))
       PROVE  ReplyInvariant'
  <2>1. Said(r) \in Seq(Fragment)
    BY <1>7, <1>8, <1>11
  <2>2. Says(p, ok)
    BY <1>6, <1>11, <2>1, EventTyped DEF DoneTypes
  <2> QED BY <1>4, <1>11, <2>2, SaysTextDone
<1>12. ASSUME NEW c \in Calls, ~Closed(received, c),
              p = Responses!Event("args_done", c, Said(c))
                \/ p = Responses!Event("args_done_bare", c, << >>)
       PROVE  ReplyInvariant'
  <2>1. Said(c) \in Seq(Fragment)
    BY <1>7, <1>8, <1>12
  <2>2. Says(p, ok)
    BY <1>6, <1>8, <1>12, <2>1, EventTyped DEF DoneTypes
  <2> QED BY <1>4, <1>12, <2>2, SaysCallDone
<1>13. ASSUME NEW k \in Keys, Closed(received, k), p = Responses!Event("item_done", k, Said(k))
       PROVE  ReplyInvariant'
  <2>1. Said(k) \in Seq(Fragment)
    BY <1>7, <1>13
  <2>2. Says(p, ok)
    BY <1>6, <1>13, <2>1, EventTyped
  <2> QED BY <1>4, <1>13, <2>2, SaysItemDone
<1>14. ASSUME p = Responses!Event("terminal", Keys, [k \in Keys |-> Said(k)]) PROVE ReplyInvariant'
  <2>1. p.type = "terminal"
    BY <1>14, EventParts
  <2>2. /\ state' = Responses!Rewrite(Responses!FlushHeld(state, ok).state, p, ok).state
        /\ out' = out \o Responses!Sent(Responses!FlushHeld(state, ok).out)
                      \o Responses!Sent(Responses!Rewrite(Responses!FlushHeld(state, ok).state, p, ok).out)
    BY <1>1, <2>1 DEF Responses!Ends
  <2> QED BY <1>1, <1>2, <1>4, <1>14, <2>2, SaysTerminal
<1>15. ASSUME NEW r \in Runs, Closed(received, r), p = Responses!Event("part_done", r, Said(r))
       PROVE  ReplyInvariant'
  <2>1. Said(r) \in Seq(Fragment)
    BY <1>7, <1>8, <1>15
  <2>2. Says(p, ok)
    BY <1>6, <1>15, <2>1, EventTyped
  <2> QED BY <1>4, <1>15, <2>2, SaysPartDone
<1> QED BY <1>4, <1>9, <1>10, <1>11, <1>12, <1>13, <1>14, <1>15 DEF NextForms

LEMMA ReplyStep == ASSUME ReplyInvariant, Responses!RelayNext PROVE ReplyInvariant'
BY ReplyQuiet, ReplyOther, ReplyDone, ReplyEvent, ReplyDrops, ReplyRunsOut DEF Responses!RelayNext

\* The events among the items carry growing numbers, a or more and less than b.
Numbered(items, a, b) ==
  /\ \A i \in DOMAIN items : items[i].sent = "event" => items[i].body.number \in a .. (b - 1)
  /\ \A i, j \in DOMAIN items : (i < j /\ items[i].sent = "event" /\ items[j].sent = "event") =>
       items[i].body.number < items[j].body.number

Numbering == state.next \in Nat /\ Numbered(out, 0, state.next)

LEMMA NumberedJoin ==
  ASSUME NEW V, NEW o \in Seq(V), NEW x \in Seq(V), NEW a \in Int, NEW b \in Int, NEW c \in Int,
         a <= b, b <= c, Numbered(o, a, b), Numbered(x, b, c)
  PROVE  Numbered(o \o x, a, c) /\ o \o x \in Seq(V)
<1>1. PICK z \in Seq(V) : z = o \o x /\ Len(z) = Len(o) + Len(x)
  BY JoinFacts
<1>2. /\ DOMAIN o = 1 .. Len(o) /\ DOMAIN x = 1 .. Len(x) /\ DOMAIN z = 1 .. Len(z)
      /\ Len(o) \in Nat /\ Len(x) \in Nat
  OBVIOUS
<1>3. ASSUME NEW i \in DOMAIN z
      PROVE  \/ i \in 1 .. Len(o) /\ z[i] = o[i]
             \/ \E k \in 1 .. Len(x) : i = Len(o) + k /\ z[i] = x[k]
  <2>1. CASE i \in 1 .. Len(o)
    BY <1>1, <2>1, JoinFacts
  <2>2. CASE i \notin 1 .. Len(o)
    <3>1. i - Len(o) \in 1 .. Len(x) /\ i = Len(o) + (i - Len(o))
      BY <1>1, <1>2, <2>2
    <3>2. PICK k \in 1 .. Len(x) : i = Len(o) + k
      BY <3>1
    <3>3. z[Len(o) + k] = x[k]
      BY <1>1, JoinFacts
    <3> QED BY <3>2, <3>3
  <2> QED BY <2>1, <2>2
<1>4. ASSUME NEW i \in DOMAIN z, z[i].sent = "event"
      PROVE  /\ z[i].body.number \in a .. (c - 1)
             /\ i \in 1 .. Len(o) => z[i].body.number < b
             /\ i \notin 1 .. Len(o) => b <= z[i].body.number
  <2>1. CASE i \in 1 .. Len(o) /\ z[i] = o[i]
    <3>1. o[i].body.number \in a .. (b - 1)
      BY <1>2, <1>4, <2>1 DEF Numbered
    <3> QED BY <2>1, <3>1
  <2>2. ASSUME NEW k \in 1 .. Len(x), i = Len(o) + k, z[i] = x[k]
        PROVE  z[i].body.number \in b .. (c - 1) /\ i \notin 1 .. Len(o)
    <3>1. x[k].body.number \in b .. (c - 1)
      BY <1>2, <1>4, <2>2 DEF Numbered
    <3>2. i \notin 1 .. Len(o)
      BY <1>2, <2>2
    <3> QED BY <2>2, <3>1, <3>2
  <2> QED BY <1>3, <2>1, <2>2
<1>5. ASSUME NEW i \in DOMAIN z, NEW j \in DOMAIN z, i < j, z[i].sent = "event", z[j].sent = "event"
      PROVE  z[i].body.number < z[j].body.number
  <2>1. CASE j \in 1 .. Len(o)
    <3>1. i \in 1 .. Len(o)
      BY <1>1, <1>2, <1>5, <2>1
    <3>2. z[i] = o[i] /\ z[j] = o[j]
      BY <1>1, <2>1, <3>1, JoinFacts
    <3> QED BY <1>2, <1>5, <2>1, <3>1, <3>2 DEF Numbered
  <2>2. CASE i \in 1 .. Len(o) /\ j \notin 1 .. Len(o)
    <3>1. /\ z[i].body.number \in a .. (c - 1) /\ z[i].body.number < b
          /\ z[j].body.number \in a .. (c - 1) /\ b <= z[j].body.number
      BY <1>4, <1>5, <2>2
    <3> QED BY <3>1
  <2>3. CASE i \notin 1 .. Len(o) /\ j \notin 1 .. Len(o)
    <3>1. PICK k \in 1 .. Len(x) : i = Len(o) + k /\ z[i] = x[k]
      BY <1>3, <2>3
    <3>2. PICK m \in 1 .. Len(x) : j = Len(o) + m /\ z[j] = x[m]
      BY <1>3, <2>3
    <3>3. k < m
      BY <1>2, <1>5, <3>1, <3>2
    <3> QED BY <1>2, <1>5, <3>1, <3>2, <3>3 DEF Numbered
  <2> QED BY <2>1, <2>2, <2>3
<1>6. Numbered(z, a, c)
  BY <1>4, <1>5 DEF Numbered
<1> QED BY <1>1, <1>6

\* sequenced numbers events on from the count it keeps.
Items(W) == [sent : {"event"}, body : [event : W, number : Int]]

NumbersOn(next, written) ==
  /\ written.state.next \in Nat /\ next <= written.state.next
  /\ \E W : Responses!Sent(written.out) \in Seq(Items(W))
  /\ Numbered(Responses!Sent(written.out), next, written.state.next)

LEMMA SequencedNumbers ==
  ASSUME NEW s, s.next \in Nat, "next" \in DOMAIN s, NEW W, NEW events \in Seq(W)
  PROVE  NumbersOn(s.next, Responses!Sequenced(s, events))
<1> DEFINE written == Responses!Sequenced(s, events)
           x == Responses!Sent(written.out)
           item(i) == [sent |-> "event", body |-> [event |-> events[i], number |-> s.next + i - 1]]
<1>1. written = [state |-> [s EXCEPT !.next = @ + Len(events)],
                 out |-> [i \in DOMAIN events |-> [event |-> events[i], number |-> s.next + i - 1]]]
  BY DEF Responses!Sequenced
<1>2. PICK n \in Nat : n = Len(events) /\ DOMAIN events = 1 .. n
  OBVIOUS
<1>3. x = [i \in 1 .. n |-> item(i)]
  BY <1>1, <1>2 DEF Responses!Sent
<1>4. written.state.next = s.next + n
  BY <1>1, <1>2
<1> HIDE DEF x, written
<1>5. ASSUME NEW i \in 1 .. n PROVE item(i) \in Items(W) /\ s.next + i - 1 \in s.next .. (s.next + n - 1)
  <2>1. events[i] \in W /\ s.next + i - 1 \in Int
    BY <1>2
  <2> QED BY <2>1 DEF Items
<1>6. x \in Seq(Items(W)) /\ DOMAIN x = 1 .. n
  BY <1>3, <1>5
<1>7. \A i \in 1 .. n : x[i].sent = "event" /\ x[i].body.number = s.next + i - 1
  BY <1>3
<1>8. Numbered(x, s.next, s.next + n)
  BY <1>5, <1>6, <1>7 DEF Numbered
<1>9. s.next + n \in Nat /\ s.next <= s.next + n
  BY <1>2
<1> QED BY <1>4, <1>6, <1>8, <1>9 DEF NumbersOn, x, written

LEMMA FlushNumbers ==
  ASSUME NEW s \in ReplyState, s.next \in Nat, NEW ok \in BOOLEAN
  PROVE  NumbersOn(s.next, Responses!FlushHeld(s, ok))
<1> DEFINE events == Responses!OwedText(s, ok) \o Responses!OwedCalls(s, ok)
           cleared == [s EXCEPT !.holds = Responses!Start.holds, !.textFrames = {}, !.argFrames = {}]
<1>1. events \in Seq(EventsOver(Seq(Shown)))
  BY OwedEvents
<1>2. Responses!FlushHeld(s, ok) = Responses!Sequenced(cleared, events)
  BY DEF Responses!FlushHeld
<1>3. cleared.next = s.next /\ "next" \in DOMAIN cleared
  BY DEF ReplyState
<1> HIDE DEF events, cleared
<1> QED BY <1>1, <1>2, <1>3, SequencedNumbers

LEMMA OneOrTwo ==
  ASSUME NEW next \in Nat, NEW t, t.next = next, "next" \in DOMAIN t, NEW d, NEW e
  PROVE  /\ NumbersOn(next, Responses!Sequenced(t, <<e>>))
         /\ NumbersOn(next, Responses!Sequenced(t, <<d, e>>))
         /\ NumbersOn(next, Responses!Sequenced(t, << >> \o <<e>>))
         /\ NumbersOn(next, Responses!Sequenced(t, <<d>> \o <<e>>))
<1>1. <<e>> \in Seq({d, e}) /\ <<d, e>> \in Seq({d, e})
  OBVIOUS
<1>2. << >> \o <<e>> = <<e>> /\ <<d>> \o <<e>> = <<d, e>>
  <2>1. d \in {d, e} /\ e \in {d, e}
    OBVIOUS
  <2> QED BY ONLY <2>1, TwoJoined
<1>3. \A events \in Seq({d, e}) : NumbersOn(next, Responses!Sequenced(t, events))
  BY SequencedNumbers
<1> QED BY <1>1, <1>2, <1>3

LEMMA RewriteNumbers ==
  ASSUME NEW s \in ReplyState, s.next \in Nat, NEW p, NextForms(p), NEW ok \in BOOLEAN
  PROVE  NumbersOn(s.next, Responses!Rewrite(s, p, ok))
<1> DEFINE written == Responses!Rewrite(s, p, ok)
<1> SUFFICES NumbersOn(s.next, written)
  OBVIOUS
<1>1. /\ p.type \in DeltaTypes \cup DoneTypes \cup {"part_done", "item_done", "terminal"}
      /\ p.type \in {"args_delta", "args_done", "args_done_bare"} => p.key \in Calls
  BY EventParts DEF NextForms, DeltaTypes, DoneTypes
<1>3. CASE p.type = "text_delta"
  <2> DEFINE buffer == s.holds[p.key] \o p.value
             t == [s EXCEPT !.holds[p.key] = Responses!Held(buffer), !.textFrames = @ \cup {p.key}]
             e == Responses!Event("text_delta", p.key, Responses!Guarded(Responses!Released(buffer), ok))
  <2>1. written = Responses!Sequenced(t, <<e>>)
    BY <1>3 DEF Responses!Rewrite, Responses!TextDelta
  <2>2. t.next = s.next /\ "next" \in DOMAIN t
    BY DEF ReplyState
  <2> HIDE DEF t, e, written
  <2> QED BY <2>1, <2>2, OneOrTwo
<1>4. CASE p.type = "text_done"
  <2> DEFINE t == [s EXCEPT !.holds[p.key] = << >>, !.textFrames = @ \ {p.key}]
             d == Responses!Event("text_delta", p.key, Responses!Guarded(s.holds[p.key], ok))
             e == Responses!Event("text_done", p.key, Responses!Guarded(p.value, ok))
  <2>1. written = Responses!Sequenced(t, (IF s.holds[p.key] = << >> THEN << >> ELSE <<d>>) \o <<e>>)
    BY <1>4 DEF Responses!Rewrite, Responses!TextDone
  <2>2. t.next = s.next /\ "next" \in DOMAIN t
    BY DEF ReplyState
  <2> HIDE DEF t, d, e, written
  <2>3. \/ written = Responses!Sequenced(t, << >> \o <<e>>)
        \/ written = Responses!Sequenced(t, <<d>> \o <<e>>)
    BY <2>1
  <2> QED BY <2>2, <2>3, OneOrTwo
<1>5. CASE p.type = "args_delta"
  <2> DEFINE t == [s EXCEPT !.arguments[p.key] = @ \o p.value, !.argFrames = @ \cup {p.key}]
  <2>1. written = [state |-> t, out |-> << >>]
    BY <1>5 DEF Responses!Rewrite, Responses!ArgsDelta
  <2>2. t.next = s.next
    BY DEF ReplyState
  <2>3. Responses!Sent(<< >>) = << >> /\ << >> \in Seq(Items({}))
    BY DEF Responses!Sent
  <2> HIDE DEF t
  <2>4. written.state = t /\ written.out = << >>
    BY <2>1
  <2> HIDE DEF written
  <2>5. Numbered(<< >>, s.next, s.next)
    BY DEF Numbered
  <2>6. \E W : << >> \in Seq(Items(W))
    BY <2>3
  <2>7. s.next <= s.next
    OBVIOUS
  <2> QED BY <2>2, <2>3, <2>4, <2>5, <2>6, <2>7 DEF NumbersOn
<1>6. ASSUME p.type \in {"args_done", "args_done_bare"}, NEW w,
             written = Responses!ArgsDone(s, p.key, w, ok)
      PROVE  NumbersOn(s.next, written)
  <2> DEFINE t == [s EXCEPT !.arguments[p.key] = << >>, !.argFrames = @ \ {p.key}]
             d == Responses!Event("args_delta", p.key, Responses!RestoredArguments(w, ok))
             e == Responses!Event("args_done", p.key, Responses!RestoredArguments(w, ok))
  <2>1. written = Responses!Sequenced(t, <<d, e>>)
    BY <1>6 DEF Responses!ArgsDone
  <2>2. t.next = s.next /\ "next" \in DOMAIN t
    BY DEF ReplyState
  <2> HIDE DEF t, d, e, written
  <2> QED BY <2>1, <2>2, OneOrTwo
<1>7. CASE p.type = "args_done"
  <2>1. written = Responses!ArgsDone(s, p.key, p.value, ok)
    BY <1>7 DEF Responses!Rewrite
  <2> QED BY <1>6, <1>7, <2>1
<1>8. CASE p.type = "args_done_bare"
  <2>1. written = Responses!ArgsDone(s, p.key, s.arguments[p.key], ok)
    BY <1>8 DEF Responses!Rewrite
  <2> QED BY <1>6, <1>8, <2>1
<1>9. CASE p.type \in {"part_done", "item_done", "terminal"}
  <2>1. s.next = s.next /\ "next" \in DOMAIN s
    BY DEF ReplyState
  <2>2. \E e : written = Responses!Sequenced(s, <<e>>)
    BY <1>9 DEF Responses!Rewrite, Responses!PassedOn, Responses!ItemDone, Responses!Terminal
  <2> HIDE DEF written
  <2> QED BY <2>1, <2>2, OneOrTwo
<1> HIDE DEF written
<1> QED BY <1>1, <1>3, <1>4, <1>5, <1>7, <1>8, <1>9 DEF DeltaTypes, DoneTypes

\* Events written behind what the client has are numbered behind it.
LEMMA NumberedOn ==
  ASSUME NEW o, NEW V, o \in Seq(V), NEW n \in Nat, Numbered(o, 0, n), NEW written,
         NumbersOn(n, written)
  PROVE  /\ Numbered(o \o Responses!Sent(written.out), 0, written.state.next)
         /\ written.state.next \in Nat
         /\ \E U : o \o Responses!Sent(written.out) \in Seq(U)
<1>1. PICK W : Responses!Sent(written.out) \in Seq(Items(W))
  BY DEF NumbersOn
<1> DEFINE x == Responses!Sent(written.out)
           m == written.state.next
           U == V \cup Items(W)
<1>2. o \in Seq(U) /\ x \in Seq(U)
  BY <1>1
<1>3. m \in Nat /\ n <= m /\ Numbered(x, n, m)
  BY DEF NumbersOn
<1> HIDE DEF x, m, U
<1>4. Numbered(o \o x, 0, m) /\ o \o x \in Seq(U)
  <2>1. 0 \in Int /\ n \in Int /\ m \in Int /\ 0 <= n
    BY <1>3
  <2> QED BY <1>2, <1>3, <2>1, NumberedJoin
<1> QED BY <1>3, <1>4 DEF x, m

\* An item that is no event has no number.
LEMMA NumberedVerbatim ==
  ASSUME NEW o, NEW V, o \in Seq(V), NEW n \in Nat, Numbered(o, 0, n), NEW kind \in {"other", "done", "raw"}
  PROVE  Numbered(o \o Responses!Verbatim(kind), 0, n) /\ \E U : o \o Responses!Verbatim(kind) \in Seq(U)
<1> DEFINE y == [sent |-> kind]
           x == <<y>>
           U == V \cup {y}
<1>1. o \in Seq(U) /\ x \in Seq(U) /\ DOMAIN x = {1} /\ x[1] = y /\ y.sent # "event"
  OBVIOUS
<1>2. Responses!Verbatim(kind) = x
  BY DEF Responses!Verbatim
<1> HIDE DEF x, y, U
<1>3. Numbered(x, n, n)
  BY <1>1 DEF Numbered
<1>4. Numbered(o \o x, 0, n) /\ o \o x \in Seq(U)
  <2>1. 0 \in Int /\ n \in Int /\ 0 <= n /\ n <= n
    OBVIOUS
  <2> QED BY <1>1, <1>3, <2>1, NumberedJoin
<1> QED BY <1>2, <1>4

\* The numbers start at 0 ...
LEMMA NumberingInit == ASSUME Responses!RelayInit PROVE Numbering
<1>1. out = << >> /\ state.next = 0
  BY DEF Responses!RelayInit, Responses!Start
<1> QED BY <1>1 DEF Numbering, Numbered

\* ... and every step goes on where the last one stopped.
LEMMA NumberingStep ==
  ASSUME ReplyInvariant, Numbering, Responses!RelayNext
  PROVE  Numbering'
<1>1. /\ ReplyTyped /\ state \in ReplyState /\ state.next \in Nat /\ Numbered(out, 0, state.next)
      /\ out \in Seq(ReplyItem)
  BY DEF ReplyInvariant, ReplyTyped, Numbering
<1>2. ASSUME NEW ok \in BOOLEAN
      PROVE  /\ NumbersOn(state.next, Responses!FlushHeld(state, ok))
             /\ Responses!FlushHeld(state, ok).state \in ReplyState
             /\ Responses!FlushHeld(state, ok).state.next \in Nat
             /\ Numbered(out \o Responses!Sent(Responses!FlushHeld(state, ok).out), 0,
                         Responses!FlushHeld(state, ok).state.next)
             /\ \E U : out \o Responses!Sent(Responses!FlushHeld(state, ok).out) \in Seq(U)
  <2>1. NumbersOn(state.next, Responses!FlushHeld(state, ok))
    BY <1>1, FlushNumbers
  <2>2. Responses!FlushHeld(state, ok).state \in ReplyState
    BY <1>1, OwedReply
  <2> QED BY <1>1, <2>1, <2>2, NumberedOn
<1>3. CASE Responses!ArrivePart \/ Responses!DecoderRaises
  BY <1>3 DEF Responses!ArrivePart, Responses!DecoderRaises, Numbering
<1>4. CASE Responses!RelayOther
  <2>1. out' = out \o Responses!Verbatim("other") /\ state' = state
    BY <1>4 DEF Responses!RelayOther
  <2>2. Numbered(out \o Responses!Verbatim("other"), 0, state.next)
    BY <1>1, NumberedVerbatim
  <2> QED BY <1>1, <2>1, <2>2 DEF Numbering
<1>5. CASE Responses!RelayDone
  <2>1. PICK ok \in BOOLEAN :
          /\ state' = Responses!FlushHeld(state, ok).state
          /\ out' = out \o Responses!Sent(Responses!FlushHeld(state, ok).out) \o Responses!Verbatim("done")
    BY <1>5 DEF Responses!RelayDone
  <2> DEFINE o == out \o Responses!Sent(Responses!FlushHeld(state, ok).out)
  <2>2. state'.next \in Nat /\ Numbered(o, 0, state'.next) /\ \E U : o \in Seq(U)
    BY <1>2, <2>1
  <2>3. out' = o \o Responses!Verbatim("done")
    BY <2>1
  <2> HIDE DEF o
  <2>4. Numbered(o \o Responses!Verbatim("done"), 0, state'.next)
    BY <2>2, NumberedVerbatim
  <2> QED BY <2>2, <2>3, <2>4 DEF Numbering
<1>6. CASE Responses!ConnectionDrops
  <2>1. PICK ok \in BOOLEAN :
          /\ state' = Responses!FlushHeld(state, ok).state
          /\ out' = out \o Responses!Sent(Responses!FlushHeld(state, ok).out)
    BY <1>6 DEF Responses!ConnectionDrops
  <2> QED BY <1>2, <2>1 DEF Numbering
<1>7. CASE Responses!BytesRunOut
  <2>1. PICK ok \in BOOLEAN :
          /\ state' = Responses!FlushHeld(state, ok).state
          /\ out' = out \o (IF cut = "event" THEN Responses!Verbatim("raw") ELSE << >>)
                        \o Responses!Sent(Responses!FlushHeld(state, ok).out)
    BY <1>7 DEF Responses!BytesRunOut
  <2> DEFINE o == out \o (IF cut = "event" THEN Responses!Verbatim("raw") ELSE << >>)
             flushed == Responses!FlushHeld(state, ok)
  <2>2. Numbered(o, 0, state.next) /\ \E U : o \in Seq(U)
    <3>1. CASE cut = "event"
      BY <1>1, <3>1, NumberedVerbatim
    <3>2. CASE cut # "event"
      <4>1. o = out
        BY <1>1, <3>2
      <4> QED BY <1>1, <4>1
    <3> QED BY <3>1, <3>2
  <2>3. NumbersOn(state.next, flushed)
    BY <1>2
  <2>4. state' = flushed.state /\ out' = o \o Responses!Sent(flushed.out)
    BY <2>1
  <2> HIDE DEF o, flushed
  <2>5. Numbered(o \o Responses!Sent(flushed.out), 0, flushed.state.next) /\ flushed.state.next \in Nat
    BY <1>1, <2>2, <2>3, NumberedOn
  <2> QED BY <2>4, <2>5 DEF Numbering
<1>8. CASE Responses!RelayEvent
  <2>1. PICK p \in Responses!NextPayloads(received), ok \in BOOLEAN :
          LET flushed == IF Responses!Ends(p) THEN Responses!FlushHeld(state, ok)
                         ELSE [state |-> state, out |-> << >>]
              written == Responses!Rewrite(flushed.state, p, ok)
          IN  /\ state' = written.state
              /\ out' = out \o Responses!Sent(flushed.out) \o Responses!Sent(written.out)
    BY <1>8 DEF Responses!RelayEvent
  <2> DEFINE flushed == IF Responses!Ends(p) THEN Responses!FlushHeld(state, ok)
                        ELSE [state |-> state, out |-> << >>]
             written == Responses!Rewrite(flushed.state, p, ok)
             o == out \o Responses!Sent(flushed.out)
  <2>2. flushed.state \in ReplyState /\ flushed.state.next \in Nat
        /\ Numbered(o, 0, flushed.state.next) /\ \E U : o \in Seq(U)
    <3>1. CASE Responses!Ends(p)
      BY <1>2, <3>1
    <3>2. CASE ~Responses!Ends(p)
      <4>1. flushed.state = state /\ Responses!Sent(flushed.out) = << >>
        BY <3>2 DEF Responses!Sent
      <4>2. o = out
        BY <1>1, <4>1
      <4> QED BY <1>1, <4>1, <4>2
    <3> QED BY <3>1, <3>2
  <2>3. NextForms(p)
    BY <1>1, ReplyNext
  <2> HIDE DEF flushed
  <2>4. NumbersOn(flushed.state.next, written)
    BY <2>2, <2>3, RewriteNumbers
  <2>5. state' = written.state /\ out' = o \o Responses!Sent(written.out)
    BY <2>1 DEF flushed
  <2> HIDE DEF o, written
  <2>6. Numbered(o \o Responses!Sent(written.out), 0, written.state.next) /\ written.state.next \in Nat
    BY <2>2, <2>4, NumberedOn
  <2> QED BY <2>5, <2>6 DEF Numbering
<1> QED BY <1>3, <1>4, <1>5, <1>6, <1>7, <1>8 DEF Responses!RelayNext

\* What a client reads is what the module says it reads.
LEMMA ReplyWords ==
  ASSUME ReplyTyped
  PROVE  /\ Responses!Readable = Legible(out)
         /\ \A k \in Keys, n \in 0 .. Len(out) : Responses!Read(n, k) = HeardTo(out, n, ReadBy(k))
         /\ \A k \in Keys : Responses!Read(Len(out), k) = Read(k)
<1>1. out \in Seq(ReplyItem) /\ Len(out) \in Nat
  BY DEF ReplyTyped
<1>2. Responses!Readable = Legible(out)
  BY DEF Responses!Readable, Legible
<1>3. ASSUME NEW k \in Keys, NEW n \in 0 .. Len(out)
      PROVE  Responses!Read(n, k) = HeardTo(out, n, ReadBy(k))
  <2>1. ASSUME NEW i \in 1 .. n
        PROVE  (IF i \in Legible(out) /\ Responses!DeltaOf(out[i].body.event, k)
                THEN out[i].body.event.value ELSE << >>)
               = (IF i \in Legible(out) THEN ReadBy(k)[out[i]] ELSE << >>)
    <3>1. i \in 1 .. Len(out)
      BY <1>1, <1>3, <2>1
    <3>2. out[i] \in ReplyItem
      BY <1>1, <3>1
    <3>3. i \in Legible(out) => out[i].sent = "event"
      BY DEF Legible
    <3> QED BY <3>2, <3>3 DEF ReadBy
  <2>2. [i \in 1 .. n |-> IF i \in Legible(out) /\ Responses!DeltaOf(out[i].body.event, k)
                          THEN out[i].body.event.value ELSE << >>]
         = [i \in 1 .. n |-> IF i \in Legible(out) THEN ReadBy(k)[out[i]] ELSE << >>]
    BY <2>1
  <2>3. Responses!Read(n, k)
          = FlattenSeq([i \in 1 .. n |-> IF i \in Legible(out) /\ Responses!DeltaOf(out[i].body.event, k)
                                         THEN out[i].body.event.value ELSE << >>])
    BY <1>2, ReplyText DEF Responses!Read
  <2> QED BY <2>2, <2>3 DEF HeardTo
<1>4. ASSUME NEW k \in Keys PROVE Responses!Read(Len(out), k) = Read(k)
  <2>1. Len(out) \in 0 .. Len(out)
    BY <1>1
  <2>2. HeardTo(out, Len(out), ReadBy(k)) = Read(k)
    BY <1>1, HeardToWhole DEF Read
  <2> QED BY <1>3, <2>1, <2>2
<1> QED BY <1>2, <1>3, <1>4

LEMMA ReplySafe ==
  ASSUME ReplyInvariant, Numbering
  PROVE  /\ Responses!NothingLost /\ Responses!HeldBeforeTheEnd /\ Responses!WholeIsRestored
         /\ Responses!EveryReadingAgrees
<1>1. ReplyTyped /\ ReplyOrder(out) /\ Agreement(out, missed)
  BY DEF ReplyInvariant
<1>2. out \in Seq(ReplyItem) /\ DOMAIN out = 1 .. Len(out) /\ Len(out) \in Nat
  BY <1>1 DEF ReplyTyped
<1>3. /\ Responses!Readable = Legible(out)
      /\ \A k \in Keys, n \in 0 .. Len(out) : Responses!Read(n, k) = HeardTo(out, n, ReadBy(k))
      /\ \A k \in Keys : Responses!Read(Len(out), k) = Read(k)
  BY <1>1, ReplyWords
<1>4. Responses!HeldBeforeTheEnd
  <2>1. ASSUME NEW i \in Legible(out), NEW j \in Legible(out), i < j
        PROVE  out[i].body.number < out[j].body.number
    <3>1. i \in DOMAIN out /\ j \in DOMAIN out /\ out[i].sent = "event" /\ out[j].sent = "event"
      BY DEF Legible
    <3> QED BY <2>1, <3>1 DEF Numbering, Numbered
  <2> QED BY <1>1, <1>3, <2>1 DEF ReplyOrder, Responses!HeldBeforeTheEnd
<1>5. Responses!NothingLost
  <2>1. ASSUME (status = "closed" /\ cut = "none") \/ (status = "raised" /\ cut # "char"), NEW k \in Keys
        PROVE  Responses!Unrestored(Responses!Read(Len(out), k)) = Responses!Said(received, k)
    <3>1. Delivered(Said(k), Read(k), missed)
      BY <2>1 DEF ReplyInvariant, ReplyEnded, Answering, Streaming
    <3>2. Responses!Said(received, k) = Said(k)
      BY <1>1, SaidWords
    <3> QED BY <1>3, <3>1, <3>2, ReplyText DEF Delivered
  <2> QED BY <2>1, ReplyText DEF Responses!NothingLost
<1>6. ASSUME NEW i \in Responses!Repetitions, NEW k \in Responses!KeysOf(out[i].body.event)
      PROVE  LET event == out[i].body.event
             IN  k \in Keys /\ Again(Responses!LeftStanding(event, k), Responses!ValueOf(event, k),
                                    Responses!Read(i, k), missed)
  <2> DEFINE event == out[i].body.event
  <2>1. /\ i \in Legible(out) /\ i \in 0 .. Len(out) /\ i \in DOMAIN out /\ out[i].sent = "event"
        /\ event.type \in Responses!LastWords \cup {"terminal"}
    BY <1>2, <1>3 DEF Legible, Responses!Repetitions
  <2>2. out[i] \in ReplyItem
    BY <1>2, <2>1
  <2>3. event \in EventsOver(Seq(Shown))
    BY <2>1, <2>2, ItemFacts
  <2>4. event.type # "terminal" => event.key \in Keys
    BY <2>3, EventFacts
  <2>5. Repeats(event, out, i, missed)
    BY <1>1, <2>1 DEF Agreement, DeltaTypes, Responses!LastWords
  <2>6. k \in IF event.type = "terminal" THEN Keys ELSE {event.key}
    BY ReplyText DEF Responses!KeysOf
  <2> HIDE DEF event
  <2>7. k \in Keys /\ Responses!Read(i, k) = HeardTo(out, i, ReadBy(k))
    BY <1>3, <2>1, <2>4, <2>6
  <2>8. CASE event.type = "terminal"
    BY <2>5, <2>6, <2>7, <2>8 DEF Repeats, Responses!ValueOf, event
  <2>9. CASE event.type # "terminal"
    BY <2>5, <2>6, <2>7, <2>9 DEF Repeats, Responses!ValueOf, event
  <2> QED BY <2>8, <2>9
<1>7. Responses!EveryReadingAgrees
  BY <1>6, ReplyText DEF Responses!EveryReadingAgrees, Again
<1>8. ASSUME ~missed, NEW k \in Keys PROVE ~Whole(Read(k))
  <2>1. CASE Answering
    BY <1>1, <1>8, <2>1, KeyFacts DEF ReplyInvariant, ReplyOpen
  <2>2. CASE ~Answering
    BY <1>8, <2>2 DEF ReplyInvariant, ReplyEnded
  <2> QED BY <2>1, <2>2
<1>9. Responses!WholeIsRestored
  BY <1>3, <1>6, <1>8, ReplyText DEF Responses!WholeIsRestored, Again
<1> QED BY <1>4, <1>5, <1>7, <1>9

-----------------------------------------------------------------------------
(* Both relays.                                                            *)

StreamInvariant ==
  \/ protocol = "chat" /\ ChatInvariant
  \/ protocol = "responses" /\ ReplyInvariant /\ Numbering

LEMMA ChatIdle ==
  ASSUME ChatInvariant, UNCHANGED <<received, cut, state, out, status, missed>>
  PROVE  ChatInvariant'
BY DEF ChatInvariant, ChatTyped, Streaming, ChatOpen, ChatEnded, ChoiceOK, Sent, Got

LEMMA ReplyIdle ==
  ASSUME ReplyInvariant, Numbering, UNCHANGED <<received, cut, state, out, status, missed>>
  PROVE  ReplyInvariant' /\ Numbering'
BY DEF Numbering, ReplyInvariant, ReplyTyped, Streaming, Answering, ReplyOpen, KeyOK, ReplyEnded, Settled, Said, Read

\* However the bytes are cut and whatever fails, a relay keeps of a value only
\* what the next flush hands over, and has handed over the rest, once and in
\* order: the invariant of both relays (gateway/sse.py, gateway/stream.py,
\* gateway/stream_responses.py).
THEOREM StreamsKeepTheirWord == Spec => []StreamInvariant
<1>1. Init => StreamInvariant
  BY ChatInit, ReplyInit, NumberingInit DEF Init, StreamInvariant
<1>2. StreamInvariant /\ [Next]_streamVars => StreamInvariant'
  <2> SUFFICES ASSUME StreamInvariant, [Next]_streamVars PROVE StreamInvariant'
    OBVIOUS
  <2>1. CASE protocol = "chat" /\ Chat!RelayNext /\ UNCHANGED protocol
    BY <2>1, ChatStep DEF StreamInvariant
  <2>2. CASE protocol = "responses" /\ Responses!RelayNext /\ UNCHANGED protocol
    BY <2>2, ReplyStep, NumberingStep DEF StreamInvariant
  <2>3. CASE UNCHANGED streamVars
    <3>1. UNCHANGED <<protocol, received, cut, state, out, status, missed>>
      BY <2>3 DEF streamVars
    <3>2. ChatInvariant => ChatInvariant'
      BY <3>1, ChatIdle
    <3>3. ReplyInvariant /\ Numbering => ReplyInvariant' /\ Numbering'
      BY <3>1, ReplyIdle
    <3> QED BY <3>1, <3>2, <3>3 DEF StreamInvariant
  <2> QED BY <2>1, <2>2, <2>3 DEF Next
<1> QED BY <1>1, <1>2, PTL DEF Spec

\* A stream that ends between two events, or in an error of the connection, has
\* given the client every value, each fragment once and in order: what is held
\* back leaves with the flush (relay_sse, gateway/sse.py).
THEOREM StreamsLoseNothing == Spec => []NothingLost
<1>1. StreamInvariant => NothingLost
  BY ChatSafe, ReplySafe DEF StreamInvariant, NothingLost
<1> QED BY <1>1, StreamsKeepTheirWord, PTL

\* Behind the last word on a value it is at most repeated, behind the terminal
\* event nothing comes, and behind [DONE] no event: a flush always comes in front.
\* And the numbers of a response's events grow, with those the relay puts in.
THEOREM StreamsEndLast == Spec => []NothingAfterTheEnd
<1>1. StreamInvariant => NothingAfterTheEnd
  BY ChatSafe, ReplySafe DEF StreamInvariant, NothingAfterTheEnd
<1> QED BY <1>1, StreamsKeepTheirWord, PTL

\* No placeholder reaches the client in two halves, whichever deltas they came in
\* (HoldBack, gateway/restore.py), nor whole in a done event, nor in the done event
\* of an item or the terminal event, unless it stands in a refusal; those two and
\* the done event of a part the code relays unrestored.
THEOREM StreamsRestoreWhole == Spec => []WholeIsRestored
<1>1. StreamInvariant => WholeIsRestored
  BY ChatSafe, ReplySafe DEF StreamInvariant, WholeIsRestored
<1> QED BY <1>1, StreamsKeepTheirWord, PTL

\* The arguments of a tool call of Chat Completions leave in one chunk
\* (gateway/stream.py): no client sees a call it could run in part.
THEOREM CallsLeaveInOnePiece == Spec => []CallsInOnePiece
<1>1. StreamInvariant => CallsInOnePiece
  BY ChatSafe DEF StreamInvariant, CallsInOnePiece
<1> QED BY <1>1, StreamsKeepTheirWord, PTL

\* The done event of a value, of its item and the terminal event say what the
\* deltas in front of them said (gateway/stream_responses.py): a client may read
\* any.  Where the code leaves a value standing, a refusal or the done event of a
\* part, they say it in the provider's words.
THEOREM ReadingsAgree == Spec => []EveryReadingAgrees
<1>1. StreamInvariant => EveryReadingAgrees
  BY ReplySafe DEF StreamInvariant, EveryReadingAgrees
<1> QED BY <1>1, StreamsKeepTheirWord, PTL
=============================================================================
