----------------------------- MODULE Catalogue -----------------------------
(***************************************************************************)
(* The catalogue of placeholder types (app/catalogue.py): the build ships  *)
(* one, an operator's file is merged onto it, and what comes out is built  *)
(* and validated when a process first asks for it (app/config.py).  Files  *)
(* outlive builds: an upgrade brings another catalogue under the same      *)
(* file.                                                                   *)
(*                                                                         *)
(* A YAML value is a record of one shape whatever it is, so that any two   *)
(* can be compared: "kids" for a mapping, "items" for a list, and for a    *)
(* text, which Python iterates over, its characters.                       *)
(***************************************************************************)
EXTENDS Integers, Sequences, SequencesExt, FiniteSetsExt

CONSTANTS
  NoFile,
  Missing,   \* a path at which there is no file
  Builds,    \* the catalogues of successive builds: YAML values
  Drafts,    \* what an operator may write into a file: YAML values
  OldFiles,  \* what may be there to begin with
  Known,     \* by setting, the values that validation accepts
  Builtin    \* "builtin:x" to "x", as _strip_builtin shortens it

VARIABLES
  build,     \* the build that is installed
  files,     \* by place: the file, or NoFile
  edits,     \* bound: an operator writes one file in each behaviour
  loaded     \* by the process that runs: [status, base, overlay, types]

-----------------------------------------------------------------------------
(* YAML values.                                                            *)

NoKids == [k \in {} |-> <<>>]
Yaml(tag, kids, items, word) == [tag |-> tag, kids |-> kids, items |-> items, word |-> word]
Mapping(kids) == Yaml("mapping", kids, << >>, "")
Sequence(items) == Yaml("list", NoKids, items, "")
Text(word, letters) == Yaml("text", NoKids, letters, word)
Scalar(tag, word) == Yaml(tag, NoKids, << >>, word)
Empty == Scalar("null", "null")

IsMapping(v) == v.tag = "mapping"
Has(v, k) == k \in DOMAIN v.kids
GetOr(v, k, default) == IF Has(v, k) THEN v.kids[k] ELSE default

\* What `or {}` and `or ()` replace.
Falsy(v) ==
  \/ v.tag \in {"null", "list", "text"} /\ v.items = << >>
  \/ v.tag = "mapping" /\ DOMAIN v.kids = {}
  \/ v = Scalar("bool", "false")

OrEmpty(v) == IF Falsy(v) THEN Mapping(NoKids) ELSE v

-----------------------------------------------------------------------------
(* _deep_merge                                                             *)

MutantReplaces(base, overlay) ==
  Mapping([k \in DOMAIN base.kids \cup DOMAIN overlay.kids |->
             IF Has(overlay, k) THEN overlay.kids[k] ELSE base.kids[k]])

RECURSIVE DeepMerge(_, _)
DeepMerge(base, overlay) ==
  Mapping([k \in DOMAIN base.kids \cup DOMAIN overlay.kids |->
             CASE ~Has(overlay, k) -> base.kids[k]
               [] Has(base, k) /\ Has(overlay, k)
                  /\ IsMapping(base.kids[k]) /\ IsMapping(overlay.kids[k]) ->
                    DeepMerge(base.kids[k], overlay.kids[k])
               [] OTHER -> overlay.kids[k]])

-----------------------------------------------------------------------------
(* _read, _build and _validate: whether they raise, and what they make.    *)

\* What _read rejects, and `for name in` the overlay's types.  To Python, True is 1.
Unreadable(v) ==
  \/ ~IsMapping(v)
  \/ GetOr(v, "version", Empty) \notin {Scalar("number", "1"), Scalar("bool", "true")}
  \/ GetOr(v, "placeholder_types", Mapping(NoKids)).tag \in {"null", "bool", "number"}

EntriesOf(raw) == OrEmpty(GetOr(raw, "placeholder_types", Empty))
BodyOf(raw, name) == OrEmpty(EntriesOf(raw).kids[name])

\* _strip_builtin
Stripped(k, word) ==
  IF k \in {"validator", "backstop"} /\ word \in DOMAIN Builtin THEN Builtin[word] ELSE word

WordOf(body, k) == IF Has(body, k) THEN Stripped(k, body.kids[k].word) ELSE "default"

LabelsOf(body) ==
  LET v == GetOr(body, "labels", Empty) IN
  IF IsMapping(v) THEN SetToSeq(DOMAIN v.kids) ELSE v.items

FlagOf(body, k) == GetOr(body, k, Scalar("bool", "true")) = Scalar("bool", "true")

TypeOf(raw, name) ==
  LET body == BodyOf(raw, name) IN
  [labels |-> LabelsOf(body),
   prompts |-> OrEmpty(GetOr(body, "prompts", Empty)).kids,
   settings |-> [k \in DOMAIN Known |-> WordOf(body, k)],
   reversible |-> FlagOf(body, "reversible"),
   enabled |-> FlagOf(body, "enabled")]

\* AttributeError and TypeError included: the process does not start either way.
BodyRaises(body) ==
  \/ ~IsMapping(body)
  \/ GetOr(body, "labels", Empty) = Scalar("bool", "true")
  \/ ~IsMapping(OrEmpty(GetOr(body, "prompts", Empty)))
  \/ \E k \in {"reversible", "enabled"} : Has(body, k) /\ body.kids[k].tag # "bool"
  \/ \E k \in DOMAIN Known : WordOf(body, k) \notin Known[k] \cup {"default"}

TypesOf(raw) == [name \in DOMAIN EntriesOf(raw).kids |-> TypeOf(raw, name)]
EnabledIn(types) == {name \in DOMAIN types : types[name].enabled}

\* A label is listed twice: by two enabled types, or by one.
ClaimedTwice(types) ==
  \/ \E name \in EnabledIn(types) : ~IsInjective(types[name].labels)
  \/ \E one, other \in EnabledIn(types) :
       one # other /\ ToSet(types[one].labels) \cap ToSet(types[other].labels) # {}

Raises(raw) ==
  \/ ~IsMapping(EntriesOf(raw))
  \/ \E name \in DOMAIN EntriesOf(raw).kids : BodyRaises(BodyOf(raw, name))
  \/ ClaimedTwice(TypesOf(raw))

\* Catalogue.schema and label_to_type.
Schema(types) ==
  [label \in UNION {ToSet(types[name].labels) : name \in EnabledIn(types)} |->
     LET name == CHOOSE n \in EnabledIn(types) : label \in ToSet(types[n].labels)
     IN  [type |-> name,
          prompt |-> IF label \in DOMAIN types[name].prompts
                     THEN types[name].prompts[label] ELSE Text(label, << >>)]]

-----------------------------------------------------------------------------
(* discover_catalogue_path and load_catalogue                              *)

Place == {"env", "project", "user"}

\* An explicit path that is wrong is an error, not a reason to look elsewhere.
Discovered ==
  CASE files["env"] # NoFile -> files["env"]
    [] files["env"] = NoFile /\ files["project"] # NoFile -> files["project"]
    [] OTHER -> files["user"]

NotLoaded == [status |-> "none", base |-> Empty, overlay |-> NoFile, types |-> << >>]

BookInit ==
  /\ build = 1 /\ edits = 0 /\ loaded = NotLoaded
  /\ files \in [Place -> OldFiles \cup {NoFile}]

Upgrade ==
  /\ build < Len(Builds)
  /\ build' = build + 1
  /\ loaded' = NotLoaded
  /\ UNCHANGED <<files, edits>>

\* The running process has read its file and does not see the change.
Edit ==
  /\ edits = 0 /\ edits' = 1
  /\ \/ \E place \in Place, draft \in Drafts : files' = [files EXCEPT ![place] = draft]
     \/ files' = [files EXCEPT !["env"] = Missing]
  /\ UNCHANGED <<build, loaded>>

Restart ==
  /\ loaded.status # "none"
  /\ loaded' = NotLoaded
  /\ UNCHANGED <<build, files, edits>>

Load ==
  LET base == Builds[build]
      raw == IF Discovered = NoFile THEN base ELSE DeepMerge(base, Discovered)
      outcome(status, types) ==
        [status |-> status, base |-> base, overlay |-> Discovered, types |-> types]
  IN
  /\ loaded.status = "none"
  /\ loaded' =
       IF Discovered = Missing \/ (Discovered # NoFile /\ Unreadable(Discovered)) \/ Raises(raw)
       THEN outcome("refused", << >>)
       ELSE outcome("ready", TypesOf(raw))
  /\ UNCHANGED <<build, files, edits>>

BookNext == Upgrade \/ Edit \/ Restart \/ Load

-----------------------------------------------------------------------------
(* Properties.                                                             *)

\* Whether the file says anything of its own about a setting of a type.
Says(overlay, name, k) ==
  /\ overlay # NoFile
  /\ LET types == GetOr(overlay, "placeholder_types", Mapping(NoKids)) IN
     \/ ~IsMapping(types)
     \/ Has(types, name) /\ (IsMapping(types.kids[name]) => Has(types.kids[name], k))

\* An upgrade reaches everyone: a setting of the installed build, of a type that
\* is older than the file or newer, is in force unless the file gives it too, and
\* what the model finds under the type's labels is taken for that type.
UpgradeReaches ==
  loaded.status = "ready" =>
    \A name \in DOMAIN EntriesOf(loaded.base).kids :
      LET body == BodyOf(loaded.base, name)
          own(k) == ~Says(loaded.overlay, name, k)
      IN  /\ own("enabled") => loaded.types[name].enabled = FlagOf(body, "enabled")
          /\ own("reversible") => loaded.types[name].reversible = FlagOf(body, "reversible")
          /\ \A k \in DOMAIN Known :
               own(k) => loaded.types[name].settings[k] = WordOf(body, k)
          /\ own("labels") => loaded.types[name].labels = LabelsOf(body)
          /\ own("labels") /\ loaded.types[name].enabled =>
               \A label \in ToSet(LabelsOf(body)) :
                 Schema(loaded.types)[label].type = name

\* What the module says and the code does not do: "Removing a type takes
\* enabled: false".  A type the build detects is still detected, under some
\* label, unless the file disables it or lists other labels.
RemovedOnlyByDisabling ==
  loaded.status = "ready" =>
    \A name \in EnabledIn(TypesOf(loaded.base)) :
      \/ name \in EnabledIn(loaded.types) /\ loaded.types[name].labels # << >>
      \/ LET types == GetOr(loaded.overlay, "placeholder_types", Empty) IN
         /\ IsMapping(types) /\ Has(types, name) /\ IsMapping(types.kids[name])
         /\ Has(types.kids[name], "enabled") \/ Has(types.kids[name], "labels")
=============================================================================
