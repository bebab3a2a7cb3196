------------------------------ MODULE PmEntry ------------------------------
(***************************************************************************)
(* bunsan::pm::entry: the name of a package, a sequence of components.  A  *)
(* text is given by what lies between its slashes.                         *)
(***************************************************************************)
EXTENDS Naturals, Sequences
LOCAL INSTANCE SequencesExt

CONSTANT Components   \* what is_allowed_symbol allows, "." and ".." included

is_allowed_subpath(x) == x \in Components

(* Slashes next to each other count as one. *)
split(text) ==
  LET kept == {n \in DOMAIN text : n \in {1, Len(text)} \/ text[n] # ""}
  IN  [n \in 1..Len(SetToSortSeq(kept, <)) |-> text[SetToSortSeq(kept, <)[n]]]

(* The entries a text stands for: none if it is malformed. *)
build(text) ==
  IF \A n \in DOMAIN split(text) : is_allowed_subpath(split(text)[n])
    THEN {split(text)} ELSE {}

empty(e) == e = <<>>
name(e) == IF empty(e) THEN {} ELSE {e}

Relative(e) == ~empty(e) /\ e[1] \in {".", ".."}

(* One component of make_absolute's loop. *)
ComponentStep(location, x) ==
  CASE x = "."  -> location
    [] x = ".." -> IF location = <<>> THEN <<>> ELSE Front(location)
    [] OTHER    -> Append(location, x)

make_absolute(e, root) ==
  FoldLeft(ComponentStep, <<>>, IF Relative(e) THEN root \o e ELSE e)

----------------------------------------------------------------------------
(* Properties of one name *)

Canonical(e) == \A n \in DOMAIN e : e[n] \notin {".", ".."}

(* What a name means does not depend on when it is made absolute: not again  *)
(* after the first time, wherever; and a component more goes one step on.    *)
(* A name that is printed is read as the same name.                          *)
NameLaws(e, root) ==
  LET a == make_absolute(e, root) IN
  /\ Canonical(a)
  /\ \A other \in {root, <<>>} : make_absolute(a, other) = a
  /\ ~Relative(e) => a = make_absolute(e, <<>>)
  /\ Canonical(root) /\ Relative(e) /\ e[1] = "." =>
       a = make_absolute(root \o Tail(e), <<>>)
  /\ \A text \in name(a) : build(text) = {a}

=============================================================================
