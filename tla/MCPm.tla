-------------------------------- MODULE MCPm --------------------------------
(***************************************************************************)
(* Packages for TLC: a has nothing to build and is made of the sources of  *)
(* c; b is built from its own sources, those of c and the installation of  *)
(* a, and its installation holds that of c; the second release of c        *)
(* imports b (a circle), the third is the first one again.  Then requests  *)
(* for a's statement.                                                      *)
(***************************************************************************)
EXTENDS Pm, TLC
CONSTANTS a, b, c, s1, s2

Plain == [source_self |-> TRUE, source_package |-> {}, source_source |-> {},
          package_package |-> {}, package_source |-> {}]

MCReleases ==
  a :> <<[index |-> [Plain EXCEPT !.source_self = FALSE,
                                  !.package_source = {c}], source |-> s1]>>
  @@ b :> <<[index |-> [Plain EXCEPT !.source_package = {a},
                                     !.source_source = {c},
                                     !.package_package = {c}], source |-> s1]>>
  @@ c :> <<[index |-> Plain, source |-> s1],
            [index |-> [Plain EXCEPT !.package_package = {b}], source |-> s2],
            [index |-> Plain, source |-> s1]>>

(* A file of either release, or of none, its index, and requests that fail   *)
(* the test of the signature or of what was signed.                          *)
MCRequest(revision, getter, verdict) ==
  [package |-> a, revision |-> revision, getter |-> getter, verdict |-> verdict]
MCRequests ==
  {MCRequest(revision, "get", "signed") : revision \in {1, 2, Nothing}}
    \cup {MCRequest(1, "get_index", "signed")}
    \cup {MCRequest(Nothing, "get_index", verdict) :
             verdict \in {"forbidden", "bad_message"}}

=============================================================================
