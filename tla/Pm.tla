---------------------------------- MODULE Pm ----------------------------------
(***************************************************************************)
(* The package repository, and the cache of installed packages with the    *)
(* statement provider that reads it.  The two keep apart directories: each *)
(* behaviour exercises the one that "part" names.                          *)
(***************************************************************************)
EXTENDS PmRepository, StatementProvider
VARIABLE part

statementVars == <<cacheVars, providerVars>>
allVars == <<part, repositoryVars, statementVars>>

PmInit == part \in {"repository", "cache"} /\ Init /\ ProviderInit

Repository_ == part = "repository" /\ Next /\ UNCHANGED <<part, statementVars>>

Cache_ == part = "cache" /\ ProviderNext /\ UNCHANGED <<part, repositoryVars>>

PmNext == Repository_ \/ Cache_

PmSpec == PmInit /\ [][PmNext]_allVars /\ Fairness /\ ProviderFairness

----------------------------------------------------------------------------
(* Properties *)

(* Every variable of both keeps its type. *)
PmTypeOK == TypeOK /\ ProviderTypeOK

(* An update of the repository returns, and a request for a statement is     *)
(* answered, whoever else updates and cleans. (repository.cpp:62,            *)
(* cache.cpp:32)                                                             *)
PmAnswers == UpdateEnds /\ RequestsEnd

=============================================================================
