----------------------------- MODULE MCServices -----------------------------
(***************************************************************************)
(* Model checking of the services around the archive and the broker: the   *)
(* front ends of the archive, the conversion of problems, and the broker's *)
(* client.  They meet in the repository and the queues that modules        *)
(* Archive and Broker model, so each behaviour exercises the one that      *)
(* "service" names.                                                        *)
(***************************************************************************)
EXTENDS ArchiveFrontEnd, ProblemImporter, BrokerClient, TLC

CONSTANTS p1, p2, bad, c1, raw, g1, g2, w1, st, res, err, torn
VARIABLE service

MCBatches == {p1 :> c1 @@ p2 :> c1, p1 :> raw @@ bad :> c1}
MCIdSets == {{p1, p2}, {p1, bad}}
MCFlagArguments == {{"LOCKED"}}

Version_(language, format, builder, name) ==
  [language |-> language, format |-> format, builder |-> builder, name |-> name]
Utility_(builder, call) == [builder |-> builder, call |-> call]
MCGroupOrder == <<"a", "b", "c">>

(* A problem with a group and two versions; one with three groups, one of    *)
(* them of a score alone, and two versions of one language and format; two   *)
(* testsets of polygon; a problem with no more than it must have; and two    *)
(* that cannot be read.                                                      *)
TwoVersions ==
  [format |-> <<"bacs/problem/single", "simple0">>, misnamed |-> FALSE,
   tests |-> {"1", "2", "x"} \X {"in", "out"}, types |-> <<>>,
   groups |-> [a |-> {"1"}], scored |-> {"a"}, testsets |-> <<>>,
   versions |-> <<Version_("ru", "pdf", "copy", 1), Version_("en", "html", "copy", 2)>>,
   checker |-> Utility_("single", TRUE), interactor |-> Absent]
MCProblemDirs ==
  {TwoVersions,
   [TwoVersions EXCEPT
      !.groups = [a |-> {"1"}, c |-> {"x", "1"}], !.scored = {"b"},
      !.interactor = Utility_("alias", FALSE),
      !.versions = <<Version_("ru", "pdf", "pdflatex", 1),
                     Version_("ru", "pdf", "copy", 2)>>],
   [TwoVersions EXCEPT
      !.format = <<"bacs/problem/single", "polygon.codeforces.com">>,
      !.checker = Absent, !.versions = <<Version_("ru", "pdf", "polygon", 1)>>,
      !.testsets = <<[name |-> "pretests", ids |-> {"1"}, pattern |-> 1],
                     [name |-> "tests", ids |-> {"1", "2"}, pattern |-> 1]>>],
   [TwoVersions EXCEPT
      !.checker = Absent, !.versions = <<>>, !.tests = {<<"1", "in">>}],
   [TwoVersions EXCEPT !.tests = @ \ {<<"1", "out">>}],
   [TwoVersions EXCEPT !.checker = Utility_("none", FALSE)],
   [TwoVersions EXCEPT !.format = <<"a">>]}

(* Where an answer of each kind comes from. *)
MCQueueOf == st :> 1 @@ res :> 2 @@ torn :> 2 @@ err :> 3

allVars == <<service, frontVars, converterVars, clientVars>>

Services == {"archive", "problems", "sender", "listener"}

ServicesInit ==
  /\ service \in Services
  /\ FrontInit /\ ConverterInit /\ ClientInit
  /\ service # "archive" =>
       store = [i \in Problems |-> NoProblem] /\ marks = [i \in Problems |-> {}]
  /\ marks[p2] = {}
  /\ service = "archive" => store[p2] = c1
  /\ service # "problems" => dir = TwoVersions

Archive_ ==
  /\ service = "archive" /\ FrontNext
  /\ UNCHANGED <<service, converterVars, clientVars>>
Problems_ ==
  /\ service = "problems" /\ ConverterNext
  /\ UNCHANGED <<service, frontVars, clientVars>>

Client_ ==
  /\ \/ service = "sender" /\ SenderNext
     \/ service = "listener" /\ ListenerNext
  /\ UNCHANGED <<service, frontVars, converterVars>>

ServicesNext == Archive_ \/ Problems_ \/ Client_

ServicesSpec ==
  /\ ServicesInit /\ [][ServicesNext]_allVars
  /\ FrontFairness /\ ClientFairness

----------------------------------------------------------------------------
(* Properties *)

(* Every variable of the services keeps its type. *)
ServicesTypeOK ==
  service \in Services /\ FrontTypeOK /\ ConverterTypeOK /\ ClientTypeOK

(* Calls of the archive and of the broker's client are all answered.         *)
(* (archive_service.cpp:39, ClientSender.cs:33, ClientListener.cs:77)        *)
RequestsAnswered == CallersAreTold /\ ClientsAnswer

=============================================================================
