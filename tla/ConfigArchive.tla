--------------------------- MODULE ConfigArchive ---------------------------
(***************************************************************************)
(* bunsan::config: values of C++ types written into property trees and     *)
(* read from them, and what the package manager keeps so: indices,         *)
(* snapshots and configurations.  Between the two an operator may edit the *)
(* tree, which is a text file.                                             *)
(*                                                                         *)
(* A text is a pair of its form and what it says: a word, a number in      *)
(* decimal, octal or hexadecimal, a quoted word, or a package name.        *)
(* Saving and loading yield the set of their results, which is empty when  *)
(* they throw.                                                             *)
(***************************************************************************)
EXTENDS PmEntry, FiniteSets, Functions
LOCAL INSTANCE SequencesExt

CONSTANTS
  Configs,   \* a sequence of values with their types
  Roots,     \* packages an index is of
  NoConfig

VARIABLES
  config,    \* one of Configs
  ptree,     \* where it is saved
  loaded,    \* what has been loaded from there
  stage, edited  \* edited: the field an operator has edited

configVars == <<config, ptree, loaded, stage, edited>>

----------------------------------------------------------------------------
(* Property trees *)

Word(w) == <<"word", w>>
Node(data, children) == [data |-> data, children |-> children]
Leaf(data) == Node(data, <<>>)
EmptyTree == Leaf(Word(""))

At(tree, key) == {n \in DOMAIN tree.children : tree.children[n][1] = Word(key)}
First(ns) == CHOOSE n \in ns : \A m \in ns : n <= m

RECURSIVE put_child(_, _, _), get_child(_, _)
put_child(tree, path, node) ==
  IF path = <<>> THEN node ELSE
  LET ns == At(tree, Head(path))
      old == IF ns = {} THEN EmptyTree ELSE tree.children[First(ns)][2]
      new == <<Word(Head(path)), put_child(old, Tail(path), node)>>
  IN  [tree EXCEPT !.children =
         IF ns = {} THEN Append(@, new) ELSE [@ EXCEPT ![First(ns)] = new]]

get_child(tree, path) ==
  IF path = <<>> THEN {tree} ELSE
  LET ns == At(tree, Head(path)) IN
  IF ns = {} THEN {} ELSE get_child(tree.children[First(ns)][2], Tail(path))

----------------------------------------------------------------------------
(* Results *)

The(results) == CHOOSE x \in results : TRUE
All(f) == IF \E n \in DOMAIN f : f[n] = {} THEN {}
          ELSE {[n \in DOMAIN f |-> The(f[n])]}

(* The keys of maps go through lexical_cast, which quotes paths. *)
SaveKey(kind, key) ==
  CASE kind = "path"  -> {<<"quoted", key[2]>>}
    [] kind = "entry" -> {<<"name", text>> : text \in name(key)}
    [] OTHER          -> {key}
TextOf(data) == IF data[1] = "name" THEN data[2] ELSE <<data[2]>>
LoadKey(kind, data) ==
  CASE kind = "path" /\ data[1] = "quoted" -> {Word(data[2])}
    [] kind = "entry" -> build(TextOf(data))
    [] OTHER          -> {data}

AlternativeOf(t, key) == {n \in DOMAIN t.of : Word(t.of[n].key) = key}

----------------------------------------------------------------------------
(* output_archive *)

SaveList(nodes) ==
  Node(Word(""), [n \in DOMAIN nodes |-> <<Word(""), nodes[n]>>])
SaveMap(keys, nodes) ==
  Node(Word(""), [n \in DOMAIN nodes |-> <<keys[n], nodes[n]>>])

RECURSIVE Save(_, _), SaveFields(_, _, _)

(* Each field is put at its path; an optional one without a value is not.    *)
SaveFields(fields, value, tree) ==
  IF fields = <<>> THEN {tree} ELSE
  LET f == Head(fields) v == Head(value) IN
  IF f.type.kind = "optional" /\ v = <<>>
    THEN SaveFields(Tail(fields), Tail(value), tree)
    ELSE UNION {SaveFields(Tail(fields), Tail(value),
                           put_child(tree, f.path, node)) :
                node \in IF f.type.kind = "optional"
                           THEN Save(f.type.of, v[1]) ELSE Save(f.type, v)}

(* A bool is written as a word. *)
Save(t, v) ==
  CASE t.kind \in {"int", "duration"} -> {Leaf(<<"dec", v>>)}
    [] t.kind = "bool" -> {Leaf(Word(IF v THEN "true" ELSE "false"))}
    [] t.kind \in {"string", "path"} -> {Leaf(v)}
    [] t.kind = "entry" -> {Leaf(<<"name", text>>) : text \in name(v)}
    [] t.kind = "tree" -> {v}
    [] t.kind = "vector" ->
         {SaveList(ns) : ns \in All([n \in DOMAIN v |-> Save(t.of, v[n])])}
    [] t.kind = "set" ->
         LET xs == SetToSeq(v) IN
         {SaveList(ns) : ns \in All([n \in DOMAIN xs |-> Save(t.of, xs[n])])}
    [] t.kind = "map" ->
         LET ks == SetToSeq(DOMAIN v) IN
         {SaveMap(keys, ns) :
            keys \in All([n \in DOMAIN ks |-> SaveKey(t.key, ks[n])]),
            ns \in All([n \in DOMAIN ks |-> Save(t.of, v[ks[n]])])}
    [] t.kind = "variant" ->
         LET a == t.of[The(AlternativeOf(t, Word(v[1])))] IN
         {put_child(EmptyTree, <<a.key>>, node) : node \in Save(a.type, v[2])}
    [] t.kind = "record" -> SaveFields(t.fields, v, EmptyTree)

----------------------------------------------------------------------------
(* input_archive *)

(* What T() is *)
RECURSIVE Default(_)
Default(t) ==
  CASE t.kind \in {"int", "duration"} -> 0
    [] t.kind = "bool" -> FALSE
    [] t.kind \in {"string", "path"} -> Word("")
    [] t.kind \in {"entry", "optional", "vector", "map"} -> <<>>
    [] t.kind = "tree" -> EmptyTree
    [] t.kind = "set" -> {}
    [] t.kind = "variant" -> <<t.of[1].key, Default(t.of[1].type)>>
    [] t.kind = "record" -> [n \in DOMAIN t.fields |-> Default(t.fields[n].type)]

(* integral_wrapper accepts the prefixes of octal and hexadecimal numbers,   *)
(* but for a bool no words.                                                  *)
Integral(data) == IF data[1] \in {"dec", "oct", "hex"} THEN {data[2]} ELSE {}

RECURSIVE Load(_, _)
LoadField(f, tree) ==
  LET found == get_child(tree, f.path) IN
  IF found = {} THEN {Default(f.type)} ELSE Load(f.type, The(found))

(* Mutant of LoadRecord: fields are found by where they are. *)
LoadRecordInOrder(t, tree) ==
  IF Len(tree.children) < Len(t.fields) THEN {} ELSE
  All([n \in DOMAIN t.fields |-> Load(t.fields[n].type, tree.children[n][2])])

LoadRecord(t, tree) ==
  All([n \in DOMAIN t.fields |-> LoadField(t.fields[n], tree)])

(* Exactly one key, and a known one *)
LoadVariant(t, tree) ==
  IF Len(tree.children) # 1 THEN {} ELSE
  UNION {{<<t.of[n].key, x>> : x \in Load(t.of[n].type, tree.children[1][2])} :
         n \in AlternativeOf(t, tree.children[1][1])}

LoadEach(t, tree) ==
  All([n \in DOMAIN tree.children |-> Load(t, tree.children[n][2])])

(* The first of equal keys stays. *)
LoadMap(t, tree) ==
  {[k \in Range(keys) |-> values[First({n \in DOMAIN keys : keys[n] = k})]] :
     keys \in All([n \in DOMAIN tree.children |->
                     LoadKey(t.key, tree.children[n][1])]),
     values \in LoadEach(t.of, tree)}

Load(t, tree) ==
  CASE t.kind = "int" -> Integral(tree.data)
    [] t.kind = "bool" -> {x = 1 : x \in Integral(tree.data) \cap {0, 1}}
    [] t.kind = "duration" -> IF tree.data[1] = "dec" THEN {tree.data[2]} ELSE {}
    [] t.kind \in {"string", "path"} -> {tree.data}
    [] t.kind = "entry" -> build(TextOf(tree.data))
    [] t.kind = "tree" -> {tree}
    [] t.kind = "optional" -> {<<x>> : x \in Load(t.of, tree)}
    [] t.kind = "vector" -> LoadEach(t.of, tree)
    [] t.kind = "set" -> {Range(xs) : xs \in LoadEach(t.of, tree)}
    [] t.kind = "map" -> LoadMap(t, tree)
    [] t.kind = "variant" -> LoadVariant(t, tree)
    [] t.kind = "record" -> LoadRecord(t, tree)

----------------------------------------------------------------------------
(* pm::index: the source and the package stage, each with its own sources    *)
(* and two lists of imports.  Fields of fields have paths of two names.      *)

Type(kind) == [kind |-> kind]
Of(kind, t) == [kind |-> kind, of |-> t]
Field(path, t) == [path |-> path, type |-> t]
Record(fields) == [kind |-> "record", fields |-> fields]

ListOf(what) ==
  Of("vector", Record(<<Field(<<"path">>, Type("path")),
                        Field(<<what>>, Type(IF what = "source"
                                               THEN "string" ELSE "entry"))>>))
package_stage ==
  Record(<<Field(<<"self">>, ListOf("source")),
           Field(<<"import", "source">>, ListOf("package")),
           Field(<<"import", "package">>, ListOf("package"))>>)
index == Record(<<Field(<<"source">>, package_stage),
                  Field(<<"package">>, package_stage)>>)

index_absolute(value, root) ==
  [s \in 1..2 |-> <<value[s][1]>> \o
     [f \in 1..2 |-> [n \in DOMAIN value[s][f + 1] |->
        <<value[s][f + 1][n][1], make_absolute(value[s][f + 1][n][2], root)>>]]]

all(value) ==
  UNION {{value[s][f][n][2] : n \in DOMAIN value[s][f]} :
         s \in 1..2, f \in 2..3}

(* pm::snapshot: the checksums of the sources of each package. *)
snapshot ==
  [kind |-> "map", key |-> "entry",
   of |-> [kind |-> "map", key |-> "string", of |-> Type("string")]]

----------------------------------------------------------------------------
(* A configuration that is saved, edited and loaded *)

ConfigInit ==
  /\ config = NoConfig /\ ptree = EmptyTree /\ loaded = {}
  /\ stage = "none" /\ edited = NoConfig

Pick(n) ==
  /\ stage = "none" /\ stage' = "made" /\ config' = Configs[n]
  /\ UNCHANGED <<ptree, loaded, edited>>

MakeAbsolute(root) ==
  /\ stage = "made" /\ config.what = "index"
  /\ stage' = "absolute"
  /\ config' = [config EXCEPT !.value = index_absolute(@, root)]
  /\ UNCHANGED <<ptree, loaded, edited>>

SaveConfig ==
  /\ stage \in {"made", "absolute"}
  /\ LET trees == Save(config.type, config.value) IN
       IF trees = {} THEN stage' = "thrown" /\ UNCHANGED ptree
                     ELSE stage' = "saved" /\ ptree' \in trees
  /\ UNCHANGED <<config, loaded, edited>>

(* An operator takes a field out, gives it another content, writes a number  *)
(* in another way, or adds something to it.                                  *)
Edited(node) ==
  {Leaf(Word("x")), Node(node.data, Append(node.children, <<Word("x"), EmptyTree>>))}
    \cup (IF node.data[1] = "dec" THEN {Leaf(<<"hex", node.data[2]>>)} ELSE {})
Edit(n) ==
  /\ stage = "saved" /\ edited = NoConfig /\ n \in DOMAIN ptree.children
  /\ edited' = ptree.children[n][1]
  /\ \/ ptree' = [ptree EXCEPT !.children = RemoveAt(@, n)]
     \/ \E node \in Edited(ptree.children[n][2]) :
          ptree' = [ptree EXCEPT !.children[n][2] = node]
  /\ UNCHANGED <<config, loaded, stage>>

LoadConfig ==
  /\ stage = "saved" /\ stage' = "loaded"
  /\ loaded' = Load(config.type, ptree)
  /\ UNCHANGED <<config, ptree, edited>>

ConfigNext ==
  \/ \E n \in DOMAIN Configs : Pick(n)
  \/ \E root \in Roots : MakeAbsolute(root)
  \/ SaveConfig
  \/ \E n \in 1..Len(ptree.children) : Edit(n)
  \/ LoadConfig

ConfigSpec == ConfigInit /\ [][ConfigNext]_configVars

----------------------------------------------------------------------------
(* Properties *)

ConfigTypeOK ==
  /\ stage \in {"none", "made", "absolute", "saved", "loaded", "thrown"}
  /\ (config = NoConfig) = (stage = "none")
  /\ stage # "loaded" => loaded = {}
  /\ edited # NoConfig => stage \in {"saved", "loaded"}

(* What has been saved is loaded as it was; an operator's edit of one field  *)
(* of a record changes that field or makes loading throw, and no other field *)
(* is lost with it. (input_archive.hpp:45, output_archive.hpp:48)            *)
ConfigKept ==
  stage = "loaded" =>
    IF edited = NoConfig THEN loaded = {config.value}
    ELSE config.type.kind = "record" =>
           \A value \in loaded : \A n \in DOMAIN config.type.fields :
             \/ Word(config.type.fields[n].path[1]) = edited
             \/ value[n] = config.value[n]

(* The packages an index imports are what their names mean in the package it *)
(* is of, and only a name that leads to no package at all cannot be saved.   *)
(* (entry.cpp:80, cache.cpp:152)                                             *)
NamesResolve ==
  stage \in {"made", "absolute", "thrown"} /\ config.what = "index" =>
    \A e \in all(config.value) :
      /\ \A root \in Roots : NameLaws(e, root)
      /\ stage = "absolute" => Canonical(e)
    /\ stage = "thrown" => <<>> \in all(config.value)

=============================================================================
