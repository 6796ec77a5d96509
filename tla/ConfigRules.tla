---------------------------- MODULE ConfigRules ----------------------------
(***************************************************************************)
(* What a configuration means: the schemas plugins register for their      *)
(* namespaces and how those of one namespace are composed (registry.ts),   *)
(* the check of the whole configuration at startup (validation.ts), and    *)
(* the small YAML reader that is used without the optional "yaml" package  *)
(* (resolution.ts).  Pure functions, checked over bounded inputs.          *)
(*                                                                         *)
(* A name is the sequence of its words: trimming, lower case and the       *)
(* separators are what normalizeNamespace takes away.  The value of a      *)
(* namespace is a function from keys to values, "absent" where it has no   *)
(* such key.                                                               *)
(***************************************************************************)
EXTENDS Naturals, Sequences, FiniteSets, SequencesExt

CONSTANT Rejected       \* what a reader that throws returns

-----------------------------------------------------------------------------
(* Registration.  A fragment is [id, schema] with an explicit ns or none;  *)
(* an id is [scoped, prefixed, words] and a schema                         *)
(*   [kind |-> "object", rules]   a zod object, with merge and and         *)
(*   [kind |-> "zod", rules]      another zod schema, with and only        *)
(*   [kind |-> "fussy", rules]    one whose and throws                     *)
(*   [kind |-> "plain", rules, drops]  safeParse alone; drops some keys    *)
(*   [kind |-> "throws"], [kind |-> "odd"], [kind |-> "none"].             *)

deriveNamespaceFromPluginId(id) == id.words

namespaceOf(f) == IF "ns" \in DOMAIN f THEN f.ns ELSE deriveNamespaceFromPluginId(f.id)

Prepares(f) ==
  /\ f.id.scoped \/ f.id.prefixed \/ f.id.words # <<>>
  /\ f.schema.kind # "none"
  /\ namespaceOf(f) # <<>>

\* The fragments before the first that is refused stay registered.
Register(fragments, batch) ==
  LET bad == {i \in DOMAIN batch : ~Prepares(batch[i])}
      n   == IF bad = {} THEN Len(batch) ELSE CHOOSE i \in 0..Len(batch) : i + 1 \in bad /\ \A j \in bad : i < j
  IN  fragments \o SubSeq(batch, 1, n)

-----------------------------------------------------------------------------
(* Composition.                                                            *)

Merges(s) == s.kind = "object"
Ands(s)   == s.kind \in {"object", "zod", "fussy", "both"}

MergeAll(left, right) == [kind |-> "object", rules |-> [k \in DOMAIN left.rules |->
                            IF right.rules[k].named THEN right.rules[k] ELSE left.rules[k]]]
MergeLeft(left, right) == MergeAll(right, left)
merge(left, right) == MergeAll(left, right)

composeTwoSchemas(left, right) ==
  IF left = Rejected THEN Rejected
  ELSE IF Merges(left) /\ Merges(right) THEN merge(left, right)
  ELSE IF Ands(left) THEN (IF left.kind = "fussy" THEN Rejected ELSE [kind |-> "both", left |-> left, right |-> right])
  ELSE [kind |-> "steps", left |-> left, right |-> right]

composeNamespaceSchemas(schemas) == FoldLeft(composeTwoSchemas, schemas[1], Tail(schemas))

fragmentsOf(fragments, ns) == SelectSeq(fragments, LAMBDA f : namespaceOf(f) = ns)

\* Rejected: a SCHEMA_CONFLICT, for the whole configuration.
compose(fragments) ==
  LET names  == {namespaceOf(fragments[i]) : i \in DOMAIN fragments}
      of(ns) == fragmentsOf(fragments, ns)
      schema == [ns \in names |-> composeNamespaceSchemas([i \in DOMAIN of(ns) |-> of(ns)[i].schema])]
  IN  IF \E ns \in names : schema[ns] = Rejected THEN Rejected
      ELSE [ns \in names |-> [schema |-> schema[ns], provenance |-> {f.id : f \in ToSet(of(ns))}]]

Broken(r, value) == {k \in DOMAIN r : r[k].named /\ value[k] \notin r[k].may}

Keeping(value, keys) == [k \in DOMAIN value |-> IF k \in keys THEN value[k] ELSE "absent"]

\* An issue is the key it is about, or "whole".  A schema that fails hands its
\* input on to the next one of a sequence.
RECURSIVE safeParse(_, _)
safeParse(s, value) ==
  CASE s.kind \in {"throws", "odd"} -> [issues |-> {"whole"}, data |-> value]
    [] s.kind = "object" -> [issues |-> Broken(s.rules, value), data |-> Keeping(value, {k \in DOMAIN value : s.rules[k].named})]
    [] s.kind \in {"zod", "fussy"} -> [issues |-> Broken(s.rules, value), data |-> value]
    [] s.kind = "plain" -> [issues |-> Broken(s.rules, value), data |-> Keeping(value, DOMAIN value \ s.drops)]
    [] s.kind = "both" ->
         LET l == safeParse(s.left, value)
             r == safeParse(s.right, value)
         IN  [issues |-> l.issues \cup r.issues,
              data   |-> [k \in DOMAIN value |-> IF l.data[k] = "absent" THEN r.data[k] ELSE l.data[k]]]
    [] OTHER ->
         LET l == safeParse(s.left, value)
             r == safeParse(s.right, IF l.issues = {} THEN l.data ELSE value)
         IN  [issues |-> l.issues \cup r.issues, data |-> r.data]

-----------------------------------------------------------------------------
(* The check at startup.  A configuration is [object] and, for an object,  *)
(* plugins: [object, given], given a function from namespaces to values.   *)

Diagnostic(code, ns, at, ids) == [code |-> code, namespace |-> ns, at |-> at, plugins |-> ids]

unknownNamespaces(given, composed) ==
  {Diagnostic("UNKNOWN_PLUGIN_NAMESPACE", ns, "whole", {}) : ns \in DOMAIN given \ DOMAIN composed}

failedNamespaces(given, composed) ==
  UNION {{Diagnostic("SCHEMA_VALIDATION_FAILED", ns, k, composed[ns].provenance) : k \in safeParse(composed[ns].schema, given[ns]).issues} :
           ns \in DOMAIN given \cap DOMAIN composed}

validateConfigAtStartup(config, fragments, reject) ==
  LET composed == compose(fragments)
  IN  IF composed = Rejected THEN Rejected
      ELSE IF ~config.object THEN {Diagnostic("ROOT_CONFIG_NOT_OBJECT", <<>>, "whole", {})}
      ELSE IF "plugins" \notin DOMAIN config THEN {}
      ELSE IF ~config.plugins.object THEN {Diagnostic("PLUGINS_CONFIG_NOT_OBJECT", <<>>, "whole", {})}
      ELSE (IF reject THEN unknownNamespaces(config.plugins.given, composed) ELSE {})
           \cup failedNamespaces(config.plugins.given, composed)

\* A startup that finds nothing wrong was given every namespace's fragments their
\* due: of fragments that are all zod objects the last to name a key decides it,
\* and of the others each accepts the value as far as the ones before it kept it.
\* What is wrong is told with every plugin that has a say in the namespace, and a
\* value no plugin knows is told when that is asked for.  A batch refused after its
\* first n fragments and registered again never lets through what the batch alone
\* does not.
Tells(batch, config, reject, fragments, told) ==
  /\ told = {} => validateConfigAtStartup(config, Register(<<>>, batch), reject) = {}
  /\ (told # Rejected /\ config.object /\ "plugins" \in DOMAIN config /\ config.plugins.object) =>
       \A ns \in DOMAIN config.plugins.given :
         LET mine    == fragmentsOf(fragments, ns)
             value   == config.plugins.given[ns]
             here    == {d \in told : d.namespace = ns}
             namers(k) == {i \in DOMAIN mine : mine[i].schema.rules[k].named}
         IN  /\ mine = <<>> => (here = {} <=> ~reject)
             /\ \A d \in here : d.plugins = {f.id : f \in ToSet(mine)}
             /\ (mine # <<>> /\ \A i \in DOMAIN mine : mine[i].schema.kind = "object") =>
                  (here = {} <=> \A k \in DOMAIN value : \A i \in namers(k) :
                                   (\A j \in namers(k) : j <= i) => value[k] \in mine[i].schema.rules[k].may)
             /\ (here = {} /\ mine # <<>> /\ \A i \in DOMAIN mine : mine[i].schema.kind # "object") =>
                  \A i \in DOMAIN mine : mine[i].schema.kind \notin {"throws", "odd"}
                                         /\ \E seen \in {Keeping(value, ks) : ks \in SUBSET DOMAIN value} :
                                              Broken(mine[i].schema.rules, seen) = {}

StartupTells(batch, n, bad, config, reject) ==
  LET fragments == IF n = 0 THEN Register(<<>>, batch) ELSE Register(Register(<<>>, Append(SubSeq(batch, 1, n), bad)), batch)
  IN Tells(batch, config, reject, fragments, validateConfigAtStartup(config, fragments, reject))

-----------------------------------------------------------------------------
(* The YAML reader.  A line is [indent, item, text], item for a line that  *)
(* begins with "- "; its text is a sequence of words and of the marks      *)
(* ' " : # .  What it reads is [map |-> pairs], [list |-> values] or       *)
(* [text |-> words].                                                       *)

\* The quote open after i marks of a text.
OpenQuote(t) ==
  LET q[i \in 0..Len(t)] == IF i = 0 THEN ""
                            ELSE IF q[i - 1] = "" /\ t[i] \in {"'", "\""} THEN t[i]
                            ELSE IF t[i] = q[i - 1] THEN "" ELSE q[i - 1]
  IN  q

\* The first mark m outside quotes, or 0.
FirstBare(t, m) ==
  LET at == {i \in DOMAIN t : t[i] = m /\ OpenQuote(t)[i - 1] = ""}
  IN  IF at = {} THEN 0 ELSE CHOOSE i \in at : \A j \in at : i <= j

FirstAny(t, m) == SelectInSeq(t, LAMBDA w : w = m)

StripAnyMark(t) == LET c == FirstAny(t, "#") IN IF c = 0 THEN t ELSE SubSeq(t, 1, c - 1)

stripInlineComment(t) == LET c == FirstBare(t, "#") IN IF c = 0 THEN t ELSE SubSeq(t, 1, c - 1)

\* Blank lines go.  A lone dash has lost the blank that made it an item.
preprocessYamlLines(ls) ==
  LET cut  == [i \in DOMAIN ls |-> [ls[i] EXCEPT !.text = stripInlineComment(@)]]
      kept == SelectSeq(cut, LAMBDA l : l.item \/ l.text # <<>>)
  IN  IF \E i \in DOMAIN kept : kept[i].indent % 2 # 0 THEN Rejected
      ELSE [i \in DOMAIN kept |-> IF kept[i].text = <<>> THEN [kept[i] EXCEPT !.item = FALSE, !.text = <<"-">>] ELSE kept[i]]

parseYamlScalar(t) ==
  LET inner == SubSeq(t, 2, Len(t) - 1)
  IN  IF t = <<>> \/ Head(t) \notin {"'", "\""} \/ Last(t) # Head(t) THEN [text |-> t]
      ELSE IF Head(t) = "'" THEN [text |-> inner]
      ELSE IF Len(t) > 1 /\ "\"" \notin ToSet(inner) THEN [text |-> inner]
      ELSE Rejected

KeyOf(t)   == SubSeq(t, 1, FirstBare(t, ":") - 1)
ValueOf(t) == SubSeq(t, FirstBare(t, ":") + 1, Len(t))

\* A list item is a scalar or a mapping of one key; nothing may be nested in it.
Item(t) ==
  IF FirstBare(t, ":") > 1
  THEN LET v == parseYamlScalar(ValueOf(t)) IN IF v = Rejected THEN Rejected ELSE [map |-> <<<<KeyOf(t), v>>>>]
  ELSE parseYamlScalar(t)

\* [value, rest], the lines that are left, or Rejected.
RECURSIVE parseYamlSequence(_, _, _), parseYamlMapping(_, _, _)

SequenceEnds(ls, indent) == ls = <<>> \/ ls[1].indent < indent \/ (ls[1].indent = indent /\ ~ls[1].item)

parseYamlSequence(ls, indent, values) ==
  IF SequenceEnds(ls, indent) THEN [value |-> [list |-> values], rest |-> ls]
  ELSE IF ls[1].indent > indent \/ Item(ls[1].text) = Rejected THEN Rejected
  ELSE parseYamlSequence(Tail(ls), indent, Append(values, Item(ls[1].text)))

parseYamlBlock(ls, indent) ==
  IF ls[1].indent # indent THEN Rejected
  ELSE IF ls[1].item THEN parseYamlSequence(ls, indent, <<>>) ELSE parseYamlMapping(ls, indent, <<>>)

NeverTwice(pairs, key) == FALSE

SameKeyTwice(pairs, key) == \E i \in DOMAIN pairs : pairs[i][1] = key

\* A key whose value is on no line is an empty mapping when nothing deeper follows.
parseYamlMapping(ls, indent, pairs) ==
  IF ls = <<>> \/ ls[1].indent < indent THEN [value |-> [map |-> pairs], rest |-> ls]
  ELSE LET line   == ls[1]
           key    == KeyOf(line.text)
           part   == ValueOf(line.text)
           nested == Len(ls) > 1 /\ ls[2].indent > indent
           with(v) == SelectSeq(pairs, LAMBDA p : p[1] # key) \o <<<<key, v>>>>
       IN  IF line.indent > indent \/ line.item \/ FirstBare(line.text, ":") < 2 \/ SameKeyTwice(pairs, key) THEN Rejected
           ELSE IF part # <<>>
                THEN LET v == parseYamlScalar(part)
                     IN  IF v = Rejected THEN Rejected ELSE parseYamlMapping(Tail(ls), indent, with(v))
           ELSE IF ~nested THEN parseYamlMapping(Tail(ls), indent, with([map |-> <<>>]))
           ELSE LET block == parseYamlBlock(Tail(ls), indent + 2)
                IN  IF block = Rejected THEN Rejected ELSE parseYamlMapping(block.rest, indent, with(block.value))

TrailingRefused(rest) == rest # <<>>

\* An empty document is an empty mapping; one that begins like JSON and is JSON
\* (json) is read as that.
parseSimpleYaml(doc) ==
  IF "json" \in DOMAIN doc THEN doc.json
  ELSE LET ls == preprocessYamlLines(doc.lines)
       IN  IF ls = Rejected THEN Rejected
           ELSE IF ls = <<>> THEN [map |-> <<>>]
           ELSE LET block == parseYamlBlock(ls, ls[1].indent)
                IN  IF block = Rejected \/ TrailingRefused(block.rest) THEN Rejected ELSE block.value

\* With the package it is the package's parse; an error of either is told at its line.
parseYamlDocument(package, doc) == IF "parse" \in DOMAIN package THEN package.parse ELSE parseSimpleYaml(doc)

\* The lines a value is written on, every scalar in double quotes.
Quoted(v) == <<"\"">> \o v.text \o <<"\"">>

RECURSIVE Written(_, _)
Written(v, indent) ==
  LET pair(p) == IF "text" \in DOMAIN p[2] THEN <<[indent |-> indent, item |-> FALSE, text |-> p[1] \o <<":">> \o Quoted(p[2])]>>
                 ELSE <<[indent |-> indent, item |-> FALSE, text |-> Append(p[1], ":")]>> \o Written(p[2], indent + 2)
      item(x) == <<[indent |-> indent, item |-> TRUE,
                    text |-> IF "text" \in DOMAIN x THEN Quoted(x) ELSE x.map[1][1] \o <<":">> \o Quoted(x.map[1][2])]>>
  IN  IF "map" \in DOMAIN v THEN FlattenSeq([i \in DOMAIN v.map |-> pair(v.map[i])])
      ELSE FlattenSeq([i \in DOMAIN v.list |-> item(v.list[i])])

\* A configuration written a key to a line is read back as it was.
ReadsBack(v) == parseYamlDocument([none |-> TRUE], [lines |-> Written(v, 0)]) = v

\* The lines a value takes.
RECURSIVE Lines(_)
Lines(v) ==
  IF "text" \in DOMAIN v THEN 0
  ELSE IF "list" \in DOMAIN v THEN Len(v.list)
  ELSE Len(v.map) + FoldLeft(+, 0, [i \in DOMAIN v.map |-> Lines(v.map[i][2])])

\* What is read has a key or an item for every line that is not blank or a
\* comment: none is dropped, overwritten or read twice.
NothingDropped(ls) ==
  LET v == parseSimpleYaml([lines |-> ls])
      content == SelectSeq(ls, LAMBDA l : l.item \/ stripInlineComment(l.text) # <<>>)
  IN  v # Rejected => Lines(v) = Len(content)
=============================================================================
