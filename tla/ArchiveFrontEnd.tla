--------------------------- MODULE ArchiveFrontEnd ---------------------------
(***************************************************************************)
(* The gRPC and web front ends of the archive and the calls they make for  *)
(* several problems at once.                                               *)
(*                                                                         *)
(* A call on one problem is atomic under the repository's lock (module     *)
(* Archive has the inside of it).  A call on many is a loop of such calls, *)
(* between which those of other threads fall; an exception leaves the loop *)
(* in the middle.  Over gRPC a file travels as a stream of chunks that may *)
(* break off anywhere; over HTTP cppcms has the whole request before a     *)
(* handler runs.                                                           *)
(***************************************************************************)
EXTENDS Naturals, FiniteSets

CONSTANTS
  Problems,
  BadIds,        \* names that are no problem ids
  Contents,      \* uploaded problems
  NoFormat,      \* those of them without a "format" file
  Callers,
  WebCallers,    \* callers of the web front end
  Denied,        \* gRPC callers that authorize() refuses
  Batches,       \* uploaded files: functions from ids to contents
  IdSets,        \* arguments of calls
  FlagArguments, \* arguments of set_flags and unset_flags
  Parts,         \* chunks of a file
  MaxRequests,   \* bound on the calls made
  NoProblem, Torn, NoCall

Ids == Problems \cup BadIds
ASSUME FrontEndAssumption ==
  /\ Problems \cap BadIds = {}
  /\ IsFiniteSet(Ids)
  /\ NoFormat \subseteq Contents
  /\ {NoProblem, Torn} \cap Contents = {}
  /\ "status" \notin Contents \cup {NoProblem}   \* the answer of a change
  /\ WebCallers \cup Denied \subseteq Callers /\ WebCallers \cap Denied = {}
  /\ \A batch \in Batches :
       DOMAIN batch \subseteq Ids /\ \A id \in DOMAIN batch : batch[id] \in Contents
  /\ IdSets \subseteq SUBSET Ids
  /\ Parts \in Nat \ {0} /\ MaxRequests \in Nat

VARIABLES
  store,         \* the repository: contents of each problem
  marks,         \* its flags
  request,       \* per caller: what it has asked for
  at,            \* per caller: where its call is
  sent, got,     \* per caller: chunks written into and read out of the stream
  gone,          \* per caller: the connection is lost, or the call cancelled
  todo,          \* per caller: problems its loop has not come to
  answer,        \* per caller: what the loop has collected for each problem
  done,          \* history: problems the call has changed
  told,          \* what the caller has been told in the end
  requests

loopVars == <<todo, answer, done>>
streamVars == <<sent, got, gone>>
frontVars == <<store, marks, request, at, streamVars, loopVars, told, requests>>

ReadOnly == "READ_ONLY"
Locks == {"LOCKED", ReadOnly}
NoAnswer == [id \in {} |-> "none"]

(* The problems, and the locks on them, are what earlier runs have left. *)
FrontInit ==
  /\ store \in [Problems -> (Contents \ NoFormat) \cup {NoProblem}]
  /\ marks \in [Problems -> {{}, {ReadOnly}}]
  /\ \A p \in Problems : store[p] = NoProblem => marks[p] = {}
  /\ request = [c \in Callers |-> NoCall]
  /\ at = [c \in Callers |-> "none"]
  /\ sent = [c \in Callers |-> 0] /\ got = [c \in Callers |-> 0]
  /\ gone = [c \in Callers |-> FALSE]
  /\ todo = [c \in Callers |-> {}]
  /\ answer = [c \in Callers |-> NoAnswer]
  /\ done = [c \in Callers |-> {}]
  /\ told = [c \in Callers |-> "nothing"]
  /\ requests = 0

Move(c, from, to) == at[c] = from /\ at' = [at EXCEPT ![c] = to]
Op(c) == request[c].op
Web(c) == c \in WebCallers

----------------------------------------------------------------------------
(* Requests *)

(* "all" is the box of optional_id_set, which stands for every problem. *)
FlagCalls == {"set_flags", "unset_flags", "clear_flags"}
Requests(c) ==
  [op : {"upload"}, batch : Batches]
    \cup [op : {"download", "status"}, ids : IdSets, all : {FALSE}]
    \cup [op : {"set_flags", "unset_flags"}, ids : IdSets, all : {FALSE},
          flags : FlagArguments]
    \cup [op : {"clear_flags"}, ids : IdSets, all : {FALSE}]
    \cup (IF Web(c) THEN [op : {"with_flag", "existing"}, ids : IdSets, all : BOOLEAN]
          ELSE [op : {"existing"}, ids : IdSets, all : {FALSE}])

Begin(c, r) ==
  /\ requests < MaxRequests /\ requests' = requests + 1
  /\ Move(c, "none", "start")
  /\ request' = [request EXCEPT ![c] = r]
  /\ told' = [told EXCEPT ![c] = "nothing"]
  /\ done' = [done EXCEPT ![c] = {}]
  /\ answer' = [answer EXCEPT ![c] = NoAnswer]
  /\ sent' = [sent EXCEPT ![c] = 0] /\ got' = [got EXCEPT ![c] = 0]
  /\ gone' = [gone EXCEPT ![c] = FALSE]
  /\ UNCHANGED <<store, marks, todo>>

(* A client dies, or fails to read the file it sends. *)
Lose(c) ==
  /\ ~Web(c) /\ at[c] # "none" /\ ~gone[c]
  /\ gone' = [gone EXCEPT ![c] = TRUE]
  /\ UNCHANGED <<store, marks, request, at, sent, got, loopVars, told, requests>>

(* The handler returns: a caller that is gone is told by its library. *)
Finish(c, from, status) ==
  /\ Move(c, from, "none")
  /\ told' = [told EXCEPT ![c] = IF gone[c] THEN "unavailable" ELSE status]
  /\ todo' = [todo EXCEPT ![c] = {}]

(* The flag calls of gRPC are not there yet, whoever asks for them. *)
NotOffered(c) ==
  /\ ~Web(c) /\ Op(c) \in FlagCalls
  /\ Finish(c, "start", "cancelled")
  /\ UNCHANGED <<store, marks, request, streamVars, answer, done, requests>>

(* wrap(...).authorize(...), which only gRPC has. *)
Authorize(c) ==
  /\ ~Web(c) /\ Op(c) \notin FlagCalls
  /\ IF c \in Denied
       THEN Finish(c, "start", "denied")
       ELSE /\ Move(c, "start", IF Op(c) = "upload" THEN "receive" ELSE "each")
            /\ todo' = [todo EXCEPT ![c] = IF Op(c) = "upload" THEN {}
                                           ELSE request[c].ids]
            /\ UNCHANGED told
  /\ UNCHANGED <<store, marks, request, streamVars, answer, done, requests>>

(* Forms: id_set wants at least one id and none that is not allowed;         *)
(* optional_id_set looks at them only if its box is not checked.             *)
IdSetValid(ids) == ids # {} /\ ids \subseteq Problems
Existing == {p \in Problems : store[p] # NoProblem}

Validate(c) ==
  LET r == request[c] IN
  /\ Web(c)
  /\ IF r.op = "upload" THEN /\ Move(c, "start", "unpack")
                             /\ UNCHANGED <<told, todo>>
     ELSE IF r.all \/ IdSetValid(r.ids)
       THEN /\ Move(c, "start", "each")
            /\ todo' = [todo EXCEPT ![c] = IF r.all THEN Existing ELSE r.ids]
            /\ UNCHANGED told
       ELSE Finish(c, "start", "invalid")
  /\ UNCHANGED <<store, marks, request, streamVars, answer, done, requests>>

----------------------------------------------------------------------------
(* Chunks: send_file at one end, recv_file at the other.  The one after the  *)
(* last part is WritesDone, or the status.                                   *)

Sends(c) == at[c] = IF Op(c) = "download" THEN "send" ELSE "receive"

WriteChunk(c) ==
  /\ Sends(c) /\ ~gone[c]
  /\ sent[c] <= Parts
  /\ sent' = [sent EXCEPT ![c] = @ + 1]
  /\ UNCHANGED <<store, marks, request, at, got, gone, loopVars, told, requests>>

ReadChunk(c) ==
  /\ Sends(c)
  /\ got[c] < sent[c] /\ got[c] < Parts
  /\ got' = [got EXCEPT ![c] = @ + 1]
  /\ UNCHANGED <<store, marks, request, at, sent, gone, loopVars, told, requests>>

(* Mutant of Received: the end of the stream is taken for that of the file. *)
ReceivedBlindly(c) ==
  /\ gone[c] \/ (got[c] = Parts /\ sent[c] > Parts)
  /\ Move(c, "receive", "unpack") /\ UNCHANGED <<told, todo>>
  /\ UNCHANGED <<store, marks, request, streamVars, answer, done, requests>>

(* Read() returns false; then IsCancelled() tells a break from an end. *)
Received(c) ==
  /\ gone[c] \/ (got[c] = Parts /\ sent[c] > Parts)
  /\ IF gone[c]
       THEN Finish(c, "receive", "cancelled")
       ELSE Move(c, "receive", "unpack") /\ UNCHANGED <<told, todo>>
  /\ UNCHANGED <<store, marks, request, streamVars, answer, done, requests>>

Sent(c) ==
  /\ gone[c] \/ (got[c] = Parts /\ sent[c] > Parts)
  /\ Finish(c, "send", IF gone[c] THEN "cancelled" ELSE "ok")
  /\ UNCHANGED <<store, marks, request, streamVars, answer, done, requests>>

----------------------------------------------------------------------------
(* Loops *)

(* The archiver unpacks the file into a directory, or throws.  Of a file cut *)
(* off some archivers make what there is.                                    *)
Unpack(c) ==
  /\ \/ /\ Move(c, "unpack", "each")
        /\ todo' = [todo EXCEPT ![c] = DOMAIN request[c].batch]
        /\ UNCHANGED told
     \/ Finish(c, "unpack", "failed")
  /\ UNCHANGED <<store, marks, request, streamVars, answer, done, requests>>

Uploaded(c, id) ==
  IF ~Web(c) /\ got[c] < Parts THEN Torn ELSE request[c].batch[id]

Next1(c, op, id) == at[c] = "each" /\ Op(c) = op /\ id \in todo[c]
Take(c, id, result) ==
  /\ todo' = [todo EXCEPT ![c] = @ \ {id}]
  /\ answer' = [answer EXCEPT ![c] =
       [i \in DOMAIN @ \cup {id} |-> IF i = id THEN result ELSE @[i]]]
  /\ UNCHANGED <<at, told>>
Touch(c, id) == done' = [done EXCEPT ![c] = @ \cup {id}]

(* upload(): refused, or stored and marked pending, or interrupted by an     *)
(* exception that has taken the problem's old data.                          *)
UploadNext(c, id) ==
  /\ Next1(c, "upload", id) /\ id \in Problems
  /\ \/ /\ Uploaded(c, id) \in NoFormat /\ Take(c, id, "invalid_format")
        /\ UNCHANGED <<store, done>>
     \/ /\ Uploaded(c, id) \notin NoFormat /\ marks[id] \cap Locks # {}
        /\ Take(c, id, "locked") /\ UNCHANGED <<store, done>>
     \/ /\ Uploaded(c, id) \notin NoFormat /\ marks[id] \cap Locks = {}
        /\ store' = [store EXCEPT ![id] = Uploaded(c, id)]
        /\ Take(c, id, "status") /\ Touch(c, id)
     \/ /\ Uploaded(c, id) \notin NoFormat /\ marks[id] \cap Locks = {}
        /\ store' = [store EXCEPT ![id] = Torn]
        /\ Finish(c, "each", "failed") /\ Touch(c, id) /\ UNCHANGED answer
  /\ UNCHANGED <<marks, request, streamVars, requests>>

(* download() under the shared lock: what is not there is left out, and what *)
(* cannot be unpacked throws.                                                *)
DownloadNext(c, id) ==
  /\ Next1(c, "download", id) /\ id \in Problems
  /\ \/ store[id] # Torn /\ Take(c, id, store[id])
     \/ store[id] = Torn /\ Finish(c, "each", "failed") /\ UNCHANGED answer
  /\ UNCHANGED <<store, marks, request, streamVars, done, requests>>

(* exists() and has_flag() take no lock. *)
QueryNext(c, id) ==
  /\ Op(c) \in {"with_flag", "existing"}
  /\ Next1(c, Op(c), id) /\ id \in Problems
  /\ LET yes == IF Op(c) = "existing" THEN store[id] # NoProblem
                ELSE ReadOnly \in marks[id]
     IN  Take(c, id, IF yes THEN "yes" ELSE "no")
  /\ UNCHANGED <<store, marks, request, streamVars, done, requests>>

(* status_all() has all of its problems under one shared lock: the statuses  *)
(* are of one moment.  A problem without a revision has none to read.        *)
StatusAll(c) ==
  LET ids == todo[c] IN
  /\ at[c] = "each" /\ Op(c) = "status" /\ ids # {}
  /\ IF ids \subseteq Problems /\ \A id \in ids : store[id] # Torn
       THEN /\ todo' = [todo EXCEPT ![c] = {}]
            /\ answer' = [answer EXCEPT ![c] = [id \in ids |-> store[id]]]
            /\ UNCHANGED <<at, told>>
       ELSE Finish(c, "each", "failed") /\ UNCHANGED answer
  /\ UNCHANGED <<store, marks, request, streamVars, done, requests>>

Edited(c, id) ==
  CASE Op(c) = "set_flags" -> marks[id] \cup request[c].flags
    [] Op(c) = "unset_flags" -> marks[id] \ request[c].flags
    [] Op(c) = "clear_flags" -> {}

(* set_flags, unset_flags, clear_flags of one problem.  The status that is   *)
(* the answer cannot be read of a problem without a revision.                *)
FlagsNext(c, id) ==
  /\ at[c] = "each" /\ id \in todo[c] \cap Problems
  /\ Op(c) \in FlagCalls
  /\ \/ /\ store[id] = NoProblem /\ Take(c, id, "not_found")
        /\ UNCHANGED <<marks, done>>
     \/ /\ store[id] # NoProblem /\ ReadOnly \in marks[id]
        /\ Take(c, id, "read_only") /\ UNCHANGED <<marks, done>>
     \/ /\ store[id] # NoProblem /\ ReadOnly \notin marks[id]
        /\ marks' = [marks EXCEPT ![id] = Edited(c, id)]
        /\ Touch(c, id)
        /\ IF store[id] = Torn
             THEN Finish(c, "each", "failed") /\ UNCHANGED answer
             ELSE Take(c, id, "status")
  /\ UNCHANGED <<store, request, streamVars, requests>>

(* Mutant of BadId: the loop takes the name for one of an absent problem. *)
BadIdSkipped(c, id) ==
  /\ at[c] = "each" /\ Op(c) # "status" /\ id \in todo[c] \cap BadIds
  /\ Take(c, id, "not_found")
  /\ UNCHANGED <<store, marks, request, streamVars, done, requests>>

(* validate_id throws, in the middle of the loop. *)
BadId(c, id) ==
  /\ at[c] = "each" /\ Op(c) # "status" /\ id \in todo[c] \cap BadIds
  /\ Finish(c, "each", "failed")
  /\ UNCHANGED <<store, marks, request, streamVars, answer, done, requests>>

LoopDone(c) ==
  /\ todo[c] = {}
  /\ IF Op(c) = "download" /\ ~Web(c)
       THEN Move(c, "each", "send") /\ UNCHANGED <<told, todo>>
       ELSE Finish(c, "each", "ok")
  /\ UNCHANGED <<store, marks, request, streamVars, answer, done, requests>>

FrontStep(c) ==
  /\ at[c] # "none"
  /\ \/ NotOffered(c) \/ Authorize(c) \/ Validate(c)
     \/ WriteChunk(c) \/ ReadChunk(c) \/ Received(c) \/ Sent(c)
     \/ Unpack(c) \/ StatusAll(c) \/ LoopDone(c)
     \/ \E id \in Ids : \/ UploadNext(c, id) \/ DownloadNext(c, id)
                        \/ QueryNext(c, id) \/ FlagsNext(c, id)
                        \/ BadId(c, id)

FrontNext ==
  \E c \in Callers : \/ \E r \in Requests(c) : Begin(c, r)
                     \/ Lose(c) \/ FrontStep(c)

FrontSpec == FrontInit /\ [][FrontNext]_frontVars

(* Clients that are there go on, and the server's threads run. *)
FrontFairness == \A c \in Callers : WF_frontVars(FrontStep(c))

----------------------------------------------------------------------------
(* Properties *)

Marks == (UNION FlagArguments) \cup Locks
FrontTypeOK ==
  /\ store \in [Problems -> Contents \cup {NoProblem, Torn}]
  /\ marks \in [Problems -> SUBSET Marks]
  /\ at \in [Callers -> {"none", "start", "receive", "unpack", "each", "send"}]
  /\ sent \in [Callers -> 0..Parts + 1] /\ got \in [Callers -> 0..Parts]
  /\ gone \in [Callers -> BOOLEAN]
  /\ todo \in [Callers -> SUBSET Ids]
  /\ \A c \in Callers : DOMAIN answer[c] \subseteq Problems
  /\ done \in [Callers -> SUBSET Problems]
  /\ told \in [Callers -> {"nothing", "ok", "denied", "invalid", "cancelled",
                           "failed", "unavailable"}]
  /\ requests \in 0..MaxRequests

(* What a caller is told in the end is what has happened: with "ok" the      *)
(* answer covers every problem asked for and says of each whether it was     *)
(* changed, and a file that was sent has arrived whole; a caller that was    *)
(* refused has changed nothing; and no call works on a file of which it has  *)
(* a part. (archive_service.cpp:31, repository.cpp:107, rpc.cpp:7)           *)
AnswersAreTrue ==
  \A c \in Callers :
    /\ at[c] \in {"unpack", "each"} /\ Op(c) = "upload" /\ ~Web(c) => got[c] = Parts
    /\ told[c] \in {"denied", "invalid", "cancelled"} => done[c] = {}
    /\ told[c] = "ok" =>
         LET r == request[c] IN
         /\ IF r.op = "upload" THEN DOMAIN answer[c] = DOMAIN r.batch
            ELSE r.all \/ DOMAIN answer[c] = r.ids
         /\ done[c] = {id \in DOMAIN answer[c] : answer[c][id] = "status"}
         /\ r.op \in {"upload", "download"} /\ ~Web(c) => got[c] = Parts

(* Every call comes back, whoever hangs up. (archive_service.cpp:39, :56)    *)
CallersAreTold == \A c \in Callers : at[c] = "start" ~> at[c] = "none"

=============================================================================
