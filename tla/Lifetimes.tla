------------------------------ MODULE Lifetimes ------------------------------
(***************************************************************************)
(* What is shared or pointed at in a program of bunsan: the handles of     *)
(* libcurl, and the global states and names.  The two share no state.      *)
(***************************************************************************)
EXTENDS CurlEasy, Application

(* What is shared or pointed at lives as long as who relies on it, and what  *)
(* was registered stays: the objects of libcurl's options, and the global    *)
(* states and names of a program. (easy.cpp:22, global_registry.cpp:18)      *)
LifetimesKept == OptionsOutlive /\ StatesOutlive /\ RegistrationsKept

=============================================================================
