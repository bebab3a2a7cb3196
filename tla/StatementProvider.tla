------------------------- MODULE StatementProvider --------------------------
(***************************************************************************)
(* The statement provider: a web server whose threads answer signed        *)
(* requests for a problem's statement with files out of a pm::cache entry. *)
(* Each request names a package and the revision of the problem it expects *)
(* there; get_index redirects to the statement's index file, get sends a   *)
(* file while its thread keeps the entry.                                  *)
(***************************************************************************)
EXTENDS PmCache, Sequences

CONSTANTS
  RequestsMade,       \* the requests that clients make
  MaxServed, Pieces   \* bounds: requests; reads that send a file

ASSUME ServerBoundsAssumption == MaxServed \in Nat /\ Pieces \in Nat \ {0}

VARIABLES
  asked,    \* per user: the request it handles
  pieces,     \* per user: what it has sent, by the release each piece is of
  response,   \* per user: the status of its last response
  received    \* requests so far

providerVars == <<asked, pieces, response, received>>

(* What verify_and_parse makes of a request: its format, its referrer and    *)
(* signature, and its message are tested in this order.                      *)
Verdicts == {"signed", "malformed", "forbidden", "bad_message", "bad_name"}

(* A request that is not signed is not looked at any further. *)
StatementRequests ==
  {r \in [package : Installable, revision : ReleasesOf \cup {Nothing},
          getter : {"get_index", "get"}, verdict : Verdicts] :
     r.verdict # "signed" => r.getter = "get_index" /\ r.revision = Nothing}
ASSUME RequestsAssumption == RequestsMade \subseteq StatementRequests

ProviderInit ==
  /\ CacheInit
  /\ asked = [u \in Users |-> Nothing]
  /\ pieces = [u \in Users |-> <<>>]
  /\ response = [u \in Users |-> Nothing]
  /\ received = 0

verify_and_parse(r) ==
  CASE r.verdict = "forbidden" -> "forbidden"
    [] r.verdict \in {"malformed", "bad_message", "bad_name"} -> "bad_request"
    [] OTHER -> "signed"

Receive(u, r) ==
  /\ pc[u] = "idle"
  /\ received < MaxServed /\ received' = received + 1
  /\ LET signed == verify_and_parse(r) = "signed" IN
     /\ IF signed THEN Get(u, r.package) ELSE UNCHANGED cacheVars
     /\ asked' = [asked EXCEPT ![u] = IF signed THEN r ELSE Nothing]
     /\ response' = [response EXCEPT
          ![u] = IF signed THEN Nothing ELSE verify_and_parse(r)]
  /\ UNCHANGED pieces

(* Mutant of Respond: the entry outlives the request. *)
RespondLocked(u, status) ==
  /\ pc' = [pc EXCEPT ![u] = "idle"]
  /\ response' = [response EXCEPT ![u] = status]
  /\ asked' = [asked EXCEPT ![u] = Nothing]
  /\ package' = [package EXCEPT ![u] = Nothing]
  /\ pieces' = [pieces EXCEPT ![u] = <<>>]
  /\ overtaken' = overtaken \ {u}
  /\ UNCHANGED mlockVars

(* The request ends, and with it the entry. *)
Respond(u, status) ==
  /\ pc' = [pc EXCEPT ![u] = "idle"]
  /\ response' = [response EXCEPT ![u] = status]
  /\ UnlockShared(u)
  /\ asked' = [asked EXCEPT ![u] = Nothing]
  /\ package' = [package EXCEPT ![u] = Nothing]
  /\ pieces' = [pieces EXCEPT ![u] = <<>>]
  /\ overtaken' = overtaken \ {u}

KeepsDisk == UNCHANGED <<releaseVars, now, diskVars, found, failures>>

(* get() of the cache threw, which cppcms answers with an internal error.    *)
GetThrew(u) ==
  /\ pc[u] = "threw"
  /\ Respond(u, "error")
  /\ KeepsDisk /\ UNCHANGED received

(* Where the files are not all there, the one that is sent may end early, or *)
(* not be opened.                                                            *)
Incomplete(u) == package[u] \notin whole

(* get_index is done; get sends the file if there is one. *)
GoOn(u, r) ==
  \/ r.getter = "get_index" /\ Respond(u, "redirect")
  \/ r.getter = "get" /\ Respond(u, "not_found")
  \/ /\ r.getter = "get"
     /\ pc' = [pc EXCEPT ![u] = "send"]
     /\ UNCHANGED <<mlockVars, overtaken, response, asked, package, pieces>>

(* get_index_and_root: the statement's manifest is read from the entry and   *)
(* its revision compared with the requested one; no manifest is an error.    *)
(* That the other files are there is not looked at.                          *)
CheckRevision(u) ==
  LET r == asked[u]
      there == data[package[u]] IN
  /\ pc[u] = "entry"
  /\ \/ there \notin ReleasesOf /\ Respond(u, "error")
     \/ there \in ReleasesOf /\ r.revision = Nothing /\ Respond(u, "bad_request")
     \/ /\ there \in ReleasesOf /\ r.revision \notin {there, Nothing}
        /\ Respond(u, "gone")
     \/ there \in ReleasesOf /\ r.revision = there /\ GoOn(u, r)
  /\ KeepsDisk /\ UNCHANGED received

(* The size is announced, and the file read and sent, piece by piece. *)
Send(u) ==
  /\ pc[u] = "send" /\ Len(pieces[u]) < Pieces
  /\ pieces' = [pieces EXCEPT ![u] = Append(@, data[package[u]])]
  /\ UNCHANGED <<cacheVars, asked, response, received>>

SendEnds(u) ==
  /\ pc[u] = "send" /\ (Len(pieces[u]) = Pieces \/ Incomplete(u))
  /\ \E status \in {"ok"} \cup (IF Incomplete(u) THEN {"error"} ELSE {}) :
       Respond(u, status)
  /\ KeepsDisk /\ UNCHANGED received

ServerStep(u) == GetThrew(u) \/ CheckRevision(u) \/ Send(u) \/ SendEnds(u)
UserStep(u) == ServerStep(u) \/ (CacheStep(u) /\ UNCHANGED providerVars)

ProviderNext ==
  \/ \E u \in Users, r \in RequestsMade : Receive(u, r)
  \/ \E u \in Users : UserStep(u)
  \/ Environment /\ UNCHANGED providerVars

ProviderSpec == ProviderInit /\ [][ProviderNext]_<<cacheVars, providerVars>>

(* Threads run, and a package update ends. *)
ProviderFairness ==
  \A u \in Users : WF_<<cacheVars, providerVars>>(UserStep(u))

----------------------------------------------------------------------------
(* Properties *)

ProviderTypeOK ==
  /\ CacheTypeOK
  /\ pc \in [Users -> {"idle", "meta", "time", "exclusive", "update", "reset",
       "extract", "install", "unlock", "shared", "entry", "threw", "clean",
       "cleaning", "send"}]
  /\ asked \in [Users -> StatementRequests \cup {Nothing}]
  /\ \A u \in Users : pieces[u] \in Seq(ReleasesOf \cup {Nothing})
  /\ response \in [Users -> {Nothing, "ok", "error", "forbidden", "bad_request",
       "gone", "redirect", "not_found"}]
  /\ received \in 0..MaxServed

(* Whatever is published, updated and cleaned meanwhile, nothing is sent but *)
(* of the revision that the request named, which is the revision the         *)
(* manifest had; and from the first piece to the last all of it is there,    *)
(* unless the installation is excused. (server.cpp:63-85, :104-122)          *)
ServedAsked ==
  \A u \in Users :
    /\ \A n \in 1..Len(pieces[u]) : pieces[u][n] = asked[u].revision
    /\ pc[u] = "send" => /\ data[package[u]] = asked[u].revision
                         /\ Complete(u) \/ Excused(u)

(* What a reader of the package cache finds is complete, unless it is        *)
(* excused, and what the provider sends of it is never of another revision:  *)
(* a file that ends too early is one of an installation that is excused.     *)
(* (cache.cpp:32, extractor.cpp:35, server.cpp:104)                          *)
StatementsWhole == InstalledWhenHeld /\ ServedAsked

(* Every request is answered and every clean() returns: no order of updates, *)
(* entries and waiting writers locks the server up. (cache.cpp:32, :73)      *)
RequestsEnd == \A u \in Users : []<>(pc[u] = "idle")

=============================================================================
