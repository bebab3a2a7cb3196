---------------------------- MODULE ServicesProofs ----------------------------
(***************************************************************************)
(* Proofs about ArchiveFrontEnd, ProblemImporter and BrokerClient, and of  *)
(* all three beside each other.                                            *)
(*                                                                         *)
(* The front end tells its callers what it has done, for any callers,      *)
(* problems, batches and interruptions.                                    *)
(*                                                                         *)
(* The .NET client keeps its answers, for any number of answers, calls and *)
(* lost connections: three invariants, of connections, of what has become  *)
(* of each answer, and of how often each was delivered.                    *)
(*                                                                         *)
(* A conversion packs a problem completely, whatever the directory holds,  *)
(* and gives every test a group that is asked for.                         *)
(***************************************************************************)
EXTENDS MCServices, RankedProofs, SequenceTheorems

----------------------------------------------------------------------------
(* The archive's front end *)

(* What a call asks for, and whether it changes what it is asked about. *)
Asked(c) == IF Op(c) = "upload" THEN DOMAIN request[c].batch ELSE request[c].ids
Changing == {"upload"} \cup FlagCalls

Untouched(c) == done[c] = {} /\ answer[c] = NoAnswer
Whole(c) == Op(c) = "upload" /\ ~Web(c) => got[c] = Parts

(* What the loop has collected and what it has not come to are apart, and    *)
(* together what was asked for; it has changed what it says it has.          *)
Collected(c) ==
  /\ Op(c) = "upload" \/ ~request[c].all => DOMAIN answer[c] \cup todo[c] = Asked(c)
  /\ DOMAIN answer[c] \cap todo[c] = {}
  /\ done[c] = {id \in DOMAIN answer[c] : answer[c][id] = "status"}
  /\ Op(c) \notin Changing => done[c] = {}
  /\ Op(c) = "status" => todo[c] = {} \/ DOMAIN answer[c] = {}

ToldTruly(c) ==
  /\ told[c] \in {"denied", "invalid", "cancelled"} => done[c] = {}
  /\ told[c] = "ok" =>
       /\ Op(c) = "upload" \/ ~request[c].all => DOMAIN answer[c] = Asked(c)
       /\ done[c] = {id \in DOMAIN answer[c] : answer[c][id] = "status"}
       /\ Op(c) \in {"upload", "download"} /\ ~Web(c) => got[c] = Parts

CallInv(c) ==
  /\ at[c] # "none" => told[c] = "nothing" /\ request[c] \in Requests(c)
  /\ at[c] \in {"start", "receive", "unpack"} => Untouched(c)
  /\ at[c] \in {"receive", "unpack"} => Op(c) = "upload"
  /\ at[c] \in {"unpack", "each"} => Whole(c)
  /\ at[c] \in {"each", "send"} => Collected(c)
  /\ at[c] = "send" => Op(c) = "download" /\ ~Web(c) /\ todo[c] = {}
  /\ ToldTruly(c)

FrontTyped ==
  /\ FrontTypeOK
  /\ DOMAIN request = Callers /\ DOMAIN answer = Callers

FrontInv == FrontTyped /\ \A c \in Callers : CallInv(c)

(* What a request is made of. *)
LEMMA RequestParts ==
  ASSUME NEW c, NEW r \in Requests(c)
  PROVE  /\ r.op = "upload" => r.batch \in Batches
         /\ r.op # "upload" => r.ids \in IdSets
         /\ r.op \in {"set_flags", "unset_flags"} => r.flags \in FlagArguments
         /\ r.op \notin {"upload", "with_flag", "existing"} => ~r.all
         /\ ~Web(c) /\ r.op # "upload" => ~r.all
         /\ r.op \in {"upload", "download", "status", "set_flags", "unset_flags",
                      "clear_flags", "with_flag", "existing"}
  BY DEF Requests

(* The invariant holds at first. *)
LEMMA FrontInvInit == FrontInit => FrontInv
<1> SUFFICES ASSUME FrontInit PROVE FrontInv OBVIOUS
<1> USE FrontEndAssumption DEF FrontInit
<1>1. marks \in [Problems -> SUBSET Marks]
  BY DEF Marks, Locks, ReadOnly
<1>2. 0 \in 0..Parts + 1 /\ 0 \in 0..Parts /\ 0 \in 0..MaxRequests OBVIOUS
<1>3. FrontTyped
  BY <1>1, <1>2 DEF FrontTyped, FrontTypeOK, NoAnswer
<1>4. ASSUME NEW c \in Callers PROVE CallInv(c)
  BY DEF CallInv, ToldTruly
<1> QED BY <1>3, <1>4 DEF FrontInv

(* A step of one caller leaves the calls of the others as they are.          *)
Apart(c) ==
  \A d \in Callers \ {c} :
    /\ request'[d] = request[d] /\ at'[d] = at[d] /\ got'[d] = got[d]
    /\ todo'[d] = todo[d] /\ answer'[d] = answer[d] /\ done'[d] = done[d]
    /\ told'[d] = told[d]

(* A step of one caller is enough to look at. *)
LEMMA OthersKept ==
  ASSUME FrontInv, NEW c \in Callers, Apart(c), CallInv(c)', FrontTyped'
  PROVE  FrontInv'
<1> SUFFICES ASSUME NEW d \in Callers \ {c} PROVE CallInv(d)'
  BY DEF FrontInv
<1>1. CallInv(d) BY DEF FrontInv
<1> QED BY <1>1 DEF Apart, CallInv, ToldTruly, Untouched, Whole, Collected, Asked, Op

(* A call begins with nothing done yet. *)
LEMMA BeginKeeps ==
  ASSUME FrontInv, NEW c \in Callers, NEW r \in Requests(c), Begin(c, r)
  PROVE  FrontInv'
<1> USE DEF Begin, Move
<1>0. 0 \in 0..Parts + 1 /\ 0 \in 0..Parts /\ requests' \in 0..MaxRequests
  BY FrontEndAssumption DEF FrontInv, FrontTyped, FrontTypeOK
<1>1. FrontTyped'
  BY <1>0 DEF FrontInv, FrontTyped, FrontTypeOK, NoAnswer
<1>2. CallInv(c)'
  BY <1>1 DEF FrontInv, FrontTyped, FrontTypeOK, CallInv, ToldTruly, Untouched
<1>3. Apart(c) BY DEF Apart, FrontInv, FrontTyped, FrontTypeOK
<1> QED BY <1>1, <1>2, <1>3, OthersKept

(* Losing a connection and moving a chunk. *)
LEMMA StreamKeeps ==
  ASSUME FrontInv, NEW c \in Callers, Lose(c) \/ WriteChunk(c) \/ ReadChunk(c)
  PROVE  FrontInv'
<1> USE DEF Lose, WriteChunk, ReadChunk, loopVars
<1>0. /\ \A n \in 0..Parts + 1 : n <= Parts => n + 1 \in 0..Parts + 1
      /\ \A n \in 0..Parts + 1, m \in 0..Parts : m < n /\ m < Parts => m + 1 \in 0..Parts
  BY FrontEndAssumption
<1>1. FrontTyped'
  <2>1. sent' \in [Callers -> 0..Parts + 1]
    BY <1>0 DEF FrontInv, FrontTyped, FrontTypeOK
  <2>2. got' \in [Callers -> 0..Parts]
    BY <1>0 DEF FrontInv, FrontTyped, FrontTypeOK
  <2>3. UNCHANGED <<store, marks, request, at, todo, answer, done, told, requests>>
    OBVIOUS
  <2>4. gone' \in [Callers -> BOOLEAN]
    BY DEF FrontInv, FrontTyped, FrontTypeOK
  <2> QED BY <2>1, <2>2, <2>3, <2>4 DEF FrontInv, FrontTyped, FrontTypeOK
<1>2. /\ UNCHANGED <<request, at, todo, answer, done, told>>
      /\ UNCHANGED got \/ at[c] \in {"receive", "send"}
  BY DEF Sends
<1>3. CallInv(c)'
  BY <1>2 DEF FrontInv, CallInv, ToldTruly, Untouched, Whole, Collected, Asked, Op
<1>4. Apart(c) BY DEF Apart, FrontInv, FrontTyped, FrontTypeOK
<1> QED BY <1>1, <1>3, <1>4, OthersKept

(* A handler that returns with no more changes than it has made. *)
LEMMA FinishKeeps ==
  ASSUME FrontInv, NEW c \in Callers, NEW from \in {"start", "receive", "unpack", "each", "send"},
         NEW status \in {"ok", "denied", "invalid", "cancelled", "failed"},
         Finish(c, from, status),
         UNCHANGED <<store, marks, request, streamVars, answer, done, requests>>,
         status \in {"denied", "invalid", "cancelled"} => done[c] = {},
         status = "ok" => todo[c] = {} /\ \/ from = "each" /\ (Op(c) = "download" => Web(c))
                                          \/ from = "send" /\ (got[c] = Parts)
  PROVE  FrontInv'
<1> USE DEF Finish, Move, streamVars
<1>1. FrontTyped'
  BY DEF FrontInv, FrontTyped, FrontTypeOK
<1>2. CallInv(c)'
  <2>1. at'[c] = "none" /\ told'[c] \in {"unavailable", status}
    BY DEF FrontInv, FrontTyped, FrontTypeOK
  <2>2. told'[c] = status /\ status = "ok" =>
          /\ Op(c) = "upload" \/ ~request[c].all => DOMAIN answer[c] = Asked(c)
          /\ done[c] = {id \in DOMAIN answer[c] : answer[c][id] = "status"}
          /\ Op(c) \in {"upload", "download"} /\ ~Web(c) => got[c] = Parts
    BY DEF FrontInv, CallInv, Collected, Whole
  <2> QED BY <2>1, <2>2 DEF CallInv, ToldTruly, Asked, Op
<1>3. Apart(c) BY DEF Apart, FrontInv, FrontTyped, FrontTypeOK
<1> QED BY <1>1, <1>2, <1>3, OthersKept

(* A handler that goes on to its loop, or to the file before it. *)
LEMMA MoveKeeps ==
  ASSUME FrontInv, NEW c \in Callers,
         NEW from, NEW to \in {"receive", "unpack", "each", "send"}, Move(c, from, to),
         UNCHANGED <<store, marks, request, streamVars, answer, done, told, requests>>,
         todo' \in [Callers -> SUBSET Ids], \A d \in Callers \ {c} : todo'[d] = todo[d],
         from \in {"start", "receive", "unpack", "each"},
         from = "start" => to \in {"receive", "unpack", "each"},
         from = "start" /\ to \in {"receive", "unpack"} => Op(c) = "upload",
         from = "start" /\ to = "unpack" => Web(c),
         from = "start" /\ to = "each" =>
           Op(c) # "upload" /\ (~request[c].all => todo'[c] = request[c].ids),
         from = "receive" => to = "unpack" /\ (Web(c) \/ got[c] = Parts),
         from = "unpack" => to = "each" /\ todo'[c] = DOMAIN request[c].batch,
         from = "each" => to = "send" /\ Op(c) = "download" /\ ~Web(c) /\ todo'[c] = {}
                          /\ todo[c] = {}
  PROVE  FrontInv'
<1> USE DEF Move, streamVars
<1>1. FrontTyped'
  BY DEF FrontInv, FrontTyped, FrontTypeOK
<1>2. at[c] = from /\ at'[c] = to
  BY DEF FrontInv, FrontTyped, FrontTypeOK
<1>3. told'[c] = "nothing" /\ request'[c] \in Requests(c) /\ request' = request
  BY <1>2 DEF FrontInv, CallInv
<1>4. to \in {"receive", "unpack"} => Untouched(c)' /\ Op(c)' = "upload"
  BY <1>2, <1>3 DEF FrontInv, CallInv, Untouched, Op
<1>5. to \in {"unpack", "each"} => Whole(c)'
  BY <1>2, <1>3 DEF FrontInv, CallInv, Whole, Op
<1>6. to \in {"each", "send"} => Collected(c)'
  <2>1. CASE from = "each"
    BY <1>2, <1>3, <2>1 DEF FrontInv, CallInv, Collected, Asked, Op
  <2>2. CASE from # "each" /\ to = "each"
    <3>1. Untouched(c)
      BY <1>2, <2>2 DEF FrontInv, CallInv
    <3>2. from = "start" => request[c] \in Requests(c)
      BY <1>2 DEF FrontInv, CallInv
    <3>3. DOMAIN answer'[c] = {} /\ done'[c] = {}
      BY <3>1 DEF Untouched, NoAnswer
    <3>4. Op(c) = "upload" \/ ~request[c].all => todo'[c] = Asked(c)
      BY <1>2, <2>2 DEF FrontInv, CallInv, Asked
    <3> QED BY <1>3, <3>3, <3>4 DEF Collected, Asked, Op
  <2> QED BY <2>1, <2>2
<1>7. to = "send" => Op(c)' = "download" /\ ~Web(c) /\ todo'[c] = {}
  BY <1>3 DEF Op
<1>8. CallInv(c)'
  BY <1>2, <1>3, <1>4, <1>5, <1>6, <1>7 DEF CallInv, ToldTruly, Web
<1>9. Apart(c) BY DEF Apart, FrontInv, FrontTyped, FrontTypeOK
<1> QED BY <1>1, <1>8, <1>9, OthersKept

(* The steps before the loop, those after it, and those that leave it. *)
LEMMA OutsideKeeps ==
  ASSUME FrontInv, NEW c \in Callers,
         \/ NotOffered(c) \/ Authorize(c) \/ Validate(c) \/ Received(c) \/ Sent(c)
         \/ Unpack(c) \/ LoopDone(c) \/ \E id \in Ids : BadId(c, id)
  PROVE  FrontInv'
<1> USE DEF Move, Finish
<1>0. at[c] # "none" => request[c] \in Requests(c)
  BY DEF FrontInv, CallInv
<1>1. todo \in [Callers -> SUBSET Ids]
  BY DEF FrontInv, FrontTyped, FrontTypeOK
<1>2. CASE NotOffered(c)
  BY <1>2, FinishKeeps DEF NotOffered, FrontInv, CallInv, Untouched
<1>3. CASE Authorize(c)
  <2> USE <1>3 DEF Authorize
  <2>1. done[c] = {} BY DEF FrontInv, CallInv, Untouched
  <2>2. CASE c \in Denied BY <2>1, <2>2, FinishKeeps
  <2>3. CASE c \notin Denied
    <3>1. Op(c) # "upload" => request[c].ids \subseteq Ids
      BY <1>0, <2>3, RequestParts, FrontEndAssumption DEF Op
    <3>2. todo' \in [Callers -> SUBSET Ids] /\ \A d \in Callers \ {c} : todo'[d] = todo[d]
      BY <1>1, <2>3, <3>1
    <3>3. Op(c) # "upload" => todo'[c] = request[c].ids
      BY <1>1, <2>3
    <3> QED BY <2>3, <3>2, <3>3, MoveKeeps
  <2> QED BY <2>2, <2>3
<1>4. CASE Validate(c)
  <2> USE <1>4 DEF Validate
  <2>1. done[c] = {} BY DEF FrontInv, CallInv, Untouched
  <2>2. CASE Op(c) = "upload"
    BY <1>1, <2>2, MoveKeeps DEF Op
  <2>3. CASE Op(c) # "upload" /\ ~(request[c].all \/ IdSetValid(request[c].ids))
    BY <2>1, <2>3, FinishKeeps DEF Op
  <2>4. CASE Op(c) # "upload" /\ (request[c].all \/ IdSetValid(request[c].ids))
    <3>1. request[c].ids \subseteq Ids /\ Existing \subseteq Ids
      BY <1>0, <2>4, RequestParts, FrontEndAssumption DEF Op, Existing, Ids
    <3>2. todo' \in [Callers -> SUBSET Ids] /\ \A d \in Callers \ {c} : todo'[d] = todo[d]
      BY <1>1, <2>4, <3>1 DEF Op
    <3>3. ~request[c].all => todo'[c] = request[c].ids
      BY <1>1, <2>4 DEF Op
    <3> QED BY <2>4, <3>2, <3>3, MoveKeeps DEF Op
  <2> QED BY <2>2, <2>3, <2>4
<1>5. CASE Received(c)
  <2> USE <1>5 DEF Received
  <2>1. CASE gone[c]
    BY <2>1, FinishKeeps DEF FrontInv, CallInv, Untouched
  <2>2. CASE ~gone[c] BY <1>1, <2>2, MoveKeeps
  <2> QED BY <2>1, <2>2
<1>6. CASE Sent(c)
  <2>1. done[c] = {} /\ todo[c] = {}
    BY <1>6 DEF Sent, FrontInv, CallInv, Collected, Changing, FlagCalls
  <2> QED BY <1>6, <2>1, FinishKeeps DEF Sent
<1>7. CASE Unpack(c)
  <2> USE <1>7 DEF Unpack
  <2>1. CASE Move(c, "unpack", "each")
    <3>1. DOMAIN request[c].batch \subseteq Ids
      BY <1>0, <2>1, RequestParts, FrontEndAssumption DEF FrontInv, CallInv, Op
    <3>2. todo' = [todo EXCEPT ![c] = DOMAIN request[c].batch] /\ UNCHANGED told
      BY <2>1 DEF FrontInv, FrontTyped, FrontTypeOK
    <3> QED BY <1>1, <2>1, <3>1, <3>2, MoveKeeps
  <2>2. CASE Finish(c, "unpack", "failed") BY <2>2, FinishKeeps
  <2> QED BY <2>1, <2>2
<1>8. CASE LoopDone(c)
  <2> USE <1>8 DEF LoopDone
  <2>1. CASE Op(c) = "download" /\ ~Web(c)
    BY <1>1, <2>1, MoveKeeps
  <2>2. CASE ~(Op(c) = "download" /\ ~Web(c))
    BY <2>2, FinishKeeps
  <2> QED BY <2>1, <2>2
<1>9. ASSUME NEW id \in Ids, BadId(c, id) PROVE FrontInv'
  BY <1>9, FinishKeeps DEF BadId
<1> QED BY <1>2, <1>3, <1>4, <1>5, <1>6, <1>7, <1>8, <1>9

(* An answer about one problem of the loop. *)
LEMMA TakeKeeps ==
  ASSUME FrontInv, NEW c \in Callers, at[c] = "each",
         NEW id \in Problems, id \in todo[c], NEW result, Take(c, id, result),
         UNCHANGED <<request, streamVars, requests>>,
         store' \in [Problems -> Contents \cup {NoProblem, Torn}],
         marks' \in [Problems -> SUBSET Marks],
         Op(c) # "status",
         \/ result # "status" /\ UNCHANGED done
         \/ result = "status" /\ Touch(c, id) /\ Op(c) \in Changing
  PROVE  FrontInv'
<1> USE DEF Take, Touch, streamVars
<1>1. FrontTyped'
  BY DEF FrontInv, FrontTyped, FrontTypeOK
<1>2. /\ todo'[c] = todo[c] \ {id}
      /\ answer'[c] = [i \in DOMAIN answer[c] \cup {id} |->
                          IF i = id THEN result ELSE answer[c][i]]
      /\ done'[c] = IF result = "status" THEN done[c] \cup {id} ELSE done[c]
  BY DEF FrontInv, FrontTyped, FrontTypeOK
<1>3. DOMAIN answer'[c] = DOMAIN answer[c] \cup {id} /\ id \notin DOMAIN answer[c]
  BY <1>2 DEF FrontInv, CallInv, Collected
<1>4. done'[c] = {i \in DOMAIN answer'[c] : answer'[c][i] = "status"}
  BY <1>2, <1>3 DEF FrontInv, CallInv, Collected
<1>5. Collected(c)'
  BY <1>2, <1>3, <1>4 DEF FrontInv, CallInv, Collected, Asked, Op
<1>6. CallInv(c)'
  BY <1>5 DEF FrontInv, CallInv, ToldTruly, Whole, Op
<1>7. Apart(c) BY DEF Apart, FrontInv, FrontTyped, FrontTypeOK
<1> QED BY <1>1, <1>6, <1>7, OthersKept

(* The loop is left in the middle by an exception. *)
LEMMA ThrowKeeps ==
  ASSUME FrontInv, NEW c \in Callers, Finish(c, "each", "failed"),
         UNCHANGED <<request, streamVars, answer, requests>>,
         store' \in [Problems -> Contents \cup {NoProblem, Torn}],
         marks' \in [Problems -> SUBSET Marks],
         UNCHANGED done \/ \E id \in Problems : Touch(c, id)
  PROVE  FrontInv'
<1> USE DEF Finish, Move, Touch, streamVars
<1>1. FrontTyped'
  BY DEF FrontInv, FrontTyped, FrontTypeOK
<1>2. at'[c] = "none" /\ told'[c] \in {"unavailable", "failed"}
  BY DEF FrontInv, FrontTyped, FrontTypeOK
<1>3. CallInv(c)' BY <1>2 DEF CallInv, ToldTruly
<1>4. Apart(c) BY DEF Apart, FrontInv, FrontTyped, FrontTypeOK
<1> QED BY <1>1, <1>3, <1>4, OthersKept

(* What is uploaded of a file that has arrived is what was sent. *)
LEMMA UploadedWhole ==
  ASSUME FrontInv, NEW c \in Callers, NEW id \in todo[c], at[c] = "each",
         Op(c) = "upload"
  PROVE  Uploaded(c, id) \in Contents
<1>1. request[c].batch \in Batches
  BY RequestParts DEF FrontInv, CallInv, Op
<1>2. id \in DOMAIN request[c].batch
  BY DEF FrontInv, CallInv, Collected, Asked
<1>3. Web(c) \/ ~(got[c] < Parts)
  BY FrontEndAssumption DEF FrontInv, CallInv, Whole, FrontTyped, FrontTypeOK
<1> QED BY <1>1, <1>2, <1>3, FrontEndAssumption DEF Uploaded

(* A turn of a loop over problems does one of them. *)
LEMMA LoopKeeps ==
  ASSUME FrontInv, NEW c \in Callers,
         \E id \in Ids : UploadNext(c, id) \/ DownloadNext(c, id) \/ QueryNext(c, id)
                         \/ FlagsNext(c, id)
  PROVE  FrontInv'
<1> PICK id \in Ids : UploadNext(c, id) \/ DownloadNext(c, id) \/ QueryNext(c, id)
                         \/ FlagsNext(c, id)
  OBVIOUS
<1> USE DEF Next1
<1>1. /\ store \in [Problems -> Contents \cup {NoProblem, Torn}]
      /\ marks \in [Problems -> SUBSET Marks]
  BY DEF FrontInv, FrontTyped, FrontTypeOK
<1>2. CASE UploadNext(c, id)
  <2> USE <1>2 DEF UploadNext
  <2>1. Uploaded(c, id) \in Contents BY UploadedWhole
  <2>2. Op(c) \in Changing /\ Op(c) # "status" BY DEF Changing
  <2>3. store' \in [Problems -> Contents \cup {NoProblem, Torn}] /\ marks' = marks
    BY <1>1, <2>1
  <2> QED BY <1>1, <2>2, <2>3, TakeKeeps, ThrowKeeps
<1>3. CASE DownloadNext(c, id)
  <2> USE <1>3 DEF DownloadNext
  <2>1. CASE store[id] # Torn
    <3>1. store[id] # "status" BY <1>1, <2>1, FrontEndAssumption
    <3> QED BY <1>1, <2>1, <3>1, TakeKeeps
  <2>2. CASE store[id] = Torn BY <1>1, <2>2, ThrowKeeps
  <2> QED BY <2>1, <2>2
<1>4. CASE QueryNext(c, id)
  <2>1. PICK result \in {"yes", "no"} : Take(c, id, result)
    BY <1>4 DEF QueryNext
  <2> QED BY <1>1, <1>4, <2>1, TakeKeeps DEF QueryNext
<1>5. CASE FlagsNext(c, id)
  <2> USE <1>5 DEF FlagsNext
  <2>1. Op(c) \in Changing /\ Op(c) # "status" BY DEF Changing, FlagCalls
  <2>2. marks' \in [Problems -> SUBSET Marks] /\ store' = store
    <3>1. request[c] \in Requests(c) BY DEF FrontInv, CallInv
    <3>2. Op(c) = "set_flags" => request[c].flags \subseteq Marks
      BY <3>1, RequestParts DEF Op, Marks
    <3>3. Edited(c, id) \subseteq Marks
      <4>1. Op(c) = "set_flags" => Edited(c, id) = marks[id] \cup request[c].flags
        BY DEF Edited
      <4>2. Op(c) = "unset_flags" => Edited(c, id) = marks[id] \ request[c].flags
        BY Zenon DEF Edited
      <4>3. Op(c) = "clear_flags" => Edited(c, id) = {}
        BY Zenon DEF Edited
      <4> QED BY <1>1, <3>2, <4>1, <4>2, <4>3 DEF FlagCalls
    <3> QED BY <1>1, <3>3
  <2> QED BY <1>1, <2>1, <2>2, TakeKeeps, ThrowKeeps
<1> QED BY <1>2, <1>3, <1>4, <1>5

(* All statuses at once. *)
LEMMA StatusAllKeeps ==
  ASSUME FrontInv, NEW c \in Callers, StatusAll(c)
  PROVE  FrontInv'
<1> USE DEF StatusAll
<1>1. /\ store \in [Problems -> Contents \cup {NoProblem, Torn}]
      /\ marks \in [Problems -> SUBSET Marks]
  BY DEF FrontInv, FrontTyped, FrontTypeOK
<1>2. CASE todo[c] \subseteq Problems /\ \A id \in todo[c] : store[id] # Torn
  <2>1. FrontTyped'
    BY <1>2 DEF FrontInv, FrontTyped, FrontTypeOK, streamVars
  <2>2. todo'[c] = {} /\ answer'[c] = [id \in todo[c] |-> store[id]]
    BY <1>2 DEF FrontInv, FrontTyped, FrontTypeOK
  <2>3. DOMAIN answer[c] = {} /\ todo[c] = Asked(c) /\ done[c] = {}
    <3>1. ~request[c].all
      BY RequestParts DEF FrontInv, CallInv, Op
    <3> QED BY <3>1 DEF FrontInv, CallInv, Collected, Changing, FlagCalls
  <2>4. \A id \in todo[c] : store[id] # "status"
    BY <1>1, <1>2, FrontEndAssumption
  <2>5. Collected(c)'
    BY <2>2, <2>3, <2>4 DEF Collected, Asked, Op
  <2>6. CallInv(c)'
    BY <1>2, <2>2, <2>5 DEF FrontInv, CallInv, ToldTruly, Whole, Op, streamVars
  <2>7. Apart(c) BY <1>2 DEF Apart, FrontInv, FrontTyped, FrontTypeOK, streamVars
  <2> QED BY <2>1, <2>6, <2>7, OthersKept
<1>3. CASE ~(todo[c] \subseteq Problems /\ \A id \in todo[c] : store[id] # Torn)
  BY <1>1, <1>3, ThrowKeeps
<1> QED BY <1>2, <1>3

(* The invariant is kept by every step. *)
LEMMA FrontInvNext == FrontInv /\ [FrontNext]_frontVars => FrontInv'
<1> SUFFICES ASSUME FrontInv, [FrontNext]_frontVars PROVE FrontInv' OBVIOUS
<1>1. CASE UNCHANGED frontVars
  BY <1>1 DEF FrontInv, FrontTyped, FrontTypeOK, frontVars, streamVars, loopVars, CallInv,
     ToldTruly, Untouched, Whole, Collected, Asked, Op
<1>2. ASSUME NEW c \in Callers, NEW r \in Requests(c), Begin(c, r) PROVE FrontInv'
  BY <1>2, BeginKeeps
<1>3. ASSUME NEW c \in Callers, Lose(c) PROVE FrontInv'
  BY <1>3, StreamKeeps
<1>4. ASSUME NEW c \in Callers, FrontStep(c) PROVE FrontInv'
  BY <1>4, StreamKeeps, OutsideKeeps, StatusAllKeeps, LoopKeeps DEF FrontStep
<1> QED BY <1>1, <1>2, <1>3, <1>4 DEF FrontNext

(* The inductive invariant of the calls, for any callers, problems and       *)
(* interruptions: what a loop has collected, what it has changed and what it *)
(* still has to do agree with what was asked for.                            *)
(* (archive_service.cpp:31, repository.cpp:107, rpc.cpp:7)                   *)
THEOREM FrontInvariant == FrontSpec => []FrontInv
BY FrontInvInit, FrontInvNext, PTL DEF FrontSpec

(* No caller is told of anything that has not happened *)
LEMMA FrontInvTrue == FrontInv => AnswersAreTrue
<1> SUFFICES ASSUME FrontInv, NEW c \in Callers
    PROVE /\ at[c] \in {"unpack", "each"} /\ Op(c) = "upload" /\ ~Web(c) => got[c] = Parts
          /\ told[c] \in {"denied", "invalid", "cancelled"} => done[c] = {}
          /\ told[c] = "ok" =>
               /\ IF Op(c) = "upload" THEN DOMAIN answer[c] = DOMAIN request[c].batch
                  ELSE request[c].all \/ DOMAIN answer[c] = request[c].ids
               /\ done[c] = {id \in DOMAIN answer[c] : answer[c][id] = "status"}
               /\ Op(c) \in {"upload", "download"} /\ ~Web(c) => got[c] = Parts
  BY DEF AnswersAreTrue, Op
<1> QED BY DEF FrontInv, CallInv, Whole, ToldTruly, Asked

(* A caller that was told "ok" got an answer for each problem it asked for   *)
(* and "status" for exactly those that were changed; one that was refused,   *)
(* or cancelled its upload, changed nothing.                                 *)
(* (archive_service.cpp:31, repository.cpp:107, rpc.cpp:7)                   *)
THEOREM AnswersTold == FrontSpec => []AnswersAreTrue
BY FrontInvariant, FrontInvTrue, PTL

----------------------------------------------------------------------------
(* The broker's client *)

Places == {"call", "ack", "nack", "error"}
ItemRecords == [answer : Answers, channel : Nat, at : Places]

Typed ==
  /\ running \in [Clients -> BOOLEAN]
  /\ connection \in [Clients -> {"none", "open", "shut", "deaf", "lost", "closed"}]
  /\ channel \in [Clients -> Nat]
  /\ at_ = [t \in ClientThreads |-> at_[t]]
  /\ answers \in [Answers -> {NotSent, Queued, Gone, Lost} \cup Nat]
  /\ items \subseteq ItemRecords /\ IsFiniteSet(items)
  /\ handled \in [Answers -> Nat] /\ reported \in [Answers -> BOOLEAN]
  /\ losses \in Nat

\* Who was closed is not open, and does not open again; and each connection
\* of the listener but the first has followed a loss.
ConnectionsInv ==
  /\ \A c \in Clients : ~running[c] => ~IsOpen(c)
  /\ \A c \in Clients : connection[c] = "closed" => ~running[c]
  /\ at_["close_sender"] = "done" => ~running["sender"]
  /\ at_["close_listener"] = "done" => ~running["listener"]
  /\ channel["listener"] <= 1 + losses
  /\ connection["listener"] = "none" => channel["listener"] = 0
  /\ connection["listener"] \in {"shut", "deaf", "lost"} => channel["listener"] <= losses

Positive(a) == handled[a] > 0

\* An answer is gone because it was handled, or could not be read, and only
\* statuses are lost.
Accounted(a) ==
  /\ ~IsStatus(a) => answers[a] # Lost
  /\ answers[a] = Gone /\ ~IsStatus(a) =>
       IF a \in Invalid
         THEN reported[a] \/ \E i \in items : i.answer = a /\ i.at = "error"
         ELSE Positive(a)
AtCall(i) == i.at = "call"
AtNack(i) == i.at = "nack"
AtError(i) == i.at = "error"
Settles(i) == i.at \in {"ack", "nack"}
ItemInv(i) ==
  /\ i.at = "ack" => i.answer \notin Invalid
  /\ i.at # "call" /\ i.answer \notin Invalid => Positive(i.answer)
AnswersInv ==
  /\ \A a \in Answers : Accounted(a)
  /\ \A i \in items : ItemInv(i)

\* An answer is delivered once on each channel, and a status only once.
Calls(a) == {i \in items : i.answer = a /\ i.at = "call"}
Deliverable(a) ==
  IF \/ IsStatus(a) /\ answers[a] \notin {Gone, Lost}
     \/ ~IsStatus(a) /\ ChannelOpen("listener") /\ answers[a] \in {NotSent, Queued}
  THEN 1 ELSE 0
Room(a) == IF IsStatus(a) THEN 1 ELSE channel["listener"]
Counted(a) ==
  handled[a] + Cardinality(Calls(a)) + Deliverable(a) <= Room(a)
DeliveriesInv == \A a \in Answers : Counted(a)

ClientInv == Typed /\ ConnectionsInv /\ AnswersInv /\ DeliveriesInv

(* The two clients and their threads. *)
LEMMA ClientsAre ==
  /\ "sender" \in Clients /\ "listener" \in Clients
  /\ \A c \in Clients : c = "sender" \/ c = "listener"
  /\ {"send", "close_sender", "listen", "pool", "close_listener"} = ClientThreads
BY DEF Clients, ClientThreads, ThreadOf

\* The calls of an answer are few.
LEMMA CallsAre ==
  ASSUME Typed, NEW a \in Answers
  PROVE  IsFiniteSet(Calls(a)) /\ Cardinality(Calls(a)) \in Nat
<1>1. IsFiniteSet(Calls(a))
  BY FS_Subset DEF Typed, Calls
<1> QED BY <1>1, FS_CardinalityType

-----------------------------------------------------------------------------
(* Steps of threads, which leave answers, items and connections alone *)

\* No such step finishes a close().
LEMMA ThreadsKeep ==
  ASSUME ClientInv, UNCHANGED <<running, connection, channel, answers, itemVars, losses>>,
         at_' = [t \in ClientThreads |-> at_'[t]],
         \A t \in {"close_sender", "close_listener"} : at_'[t] = "done" => at_[t] = "done"
  PROVE  ClientInv'
<1>1. Typed' /\ ConnectionsInv'
  BY DEF ClientInv, Typed, ConnectionsInv, IsOpen, ChannelOpen, itemVars
<1>2. AnswersInv' /\ DeliveriesInv'
  BY DEF ClientInv, AnswersInv, Accounted, ItemInv, DeliveriesInv, Counted, Room, Calls,
     Deliverable, IsOpen, ChannelOpen, Positive, itemVars
<1> QED BY <1>1, <1>2 DEF ClientInv

(* The steps of the clients' threads that settle nothing. *)
LEMMA ThreadSteps ==
  ASSUME ClientInv, NEW c \in Clients, NEW t \in ThreadOf(c),
         \/ Enter(c, t) \/ Leave(c, t)
         \/ Rebind \/ RebindThrows("listen") \/ RebindThrows("pool")
         \/ Listen \/ ListenRebinds \/ SendTask \/ SendStep
  PROVE  ClientInv'
<1>0. at_ = [u \in ClientThreads |-> at_[u]]
  BY DEF ClientInv, Typed
<1>1. UNCHANGED <<running, connection, channel, answers, itemVars, losses>>
  BY DEF Enter, Leave, Rebind, RebindThrows, Listen, ListenRebinds, SendTask, SendStep
<1>2. \/ UNCHANGED at_
      \/ \E u \in ClientThreads : \E place :
           /\ at_' = [at_ EXCEPT ![u] = place]
           /\ u \in {"close_sender", "close_listener"} => place # "done"
  <2>1. CASE Enter(c, t) \/ Rebind
    BY <2>1 DEF Enter, Rebind
  <2>2. CASE Leave(c, t)
    <3>1. at_' = [at_ EXCEPT ![t] = AfterLeaving(t)] /\ t \in ClientThreads
      BY <2>2, ClientsAre DEF Leave, ClientThreads
    <3>2. AfterLeaving(t) # "done"
      BY DEF AfterLeaving
    <3> DEFINE after == AfterLeaving(t)
    <3>3. at_' = [at_ EXCEPT ![t] = after] /\ after # "done"
      BY <3>1, <3>2
    <3> HIDE DEF after
    <3> QED BY <3>1, <3>3
  <2>3. CASE RebindThrows("listen") \/ RebindThrows("pool")
    BY <2>3, ClientsAre DEF RebindThrows
  <2>4. CASE Listen \/ SendTask
    BY <2>4, ClientsAre DEF Listen, SendTask, Go
  <2>5. CASE ListenRebinds
    BY <2>5, ClientsAre DEF ListenRebinds
  <2>6. CASE SendStep
    BY <2>6, ClientsAre DEF SendStep, Go
  <2> QED BY <2>1, <2>2, <2>3, <2>4, <2>5, <2>6
<1>3. at_' = [u \in ClientThreads |-> at_'[u]]
  BY <1>0, <1>2
<1>4. \A u \in {"close_sender", "close_listener"} : at_'[u] = "done" => at_[u] = "done"
  BY <1>0, <1>2, ClientsAre
<1> QED BY <1>1, <1>3, <1>4, ThreadsKeep

-----------------------------------------------------------------------------
(* Connections *)

\* A new connection, and channel, of a client that runs.
LEMMA Connects ==
  ASSUME ClientInv, NEW c \in Clients, Connect(c)
  PROVE  ClientInv'
<1> USE ClientsAre
<1>1. /\ running[c] /\ connection[c] \notin {"open", "shut"} /\ running' = running
      /\ connection' = [connection EXCEPT ![c] = "open"]
      /\ channel' = [channel EXCEPT ![c] = channel[c] + 1]
      /\ UNCHANGED <<at_, answers, items, handled, reported, losses>>
  BY DEF Connect, MustConnect, IsOpen, ChannelOpen, itemVars
<1>2. Typed'
  BY <1>1 DEF ClientInv, Typed
<1>3. ConnectionsInv'
  BY <1>1 DEF ClientInv, Typed, ConnectionsInv, IsOpen, ChannelOpen
<1>4. AnswersInv'
  BY <1>1 DEF ClientInv, AnswersInv, Accounted, ItemInv, Positive
<1>5. ASSUME NEW a \in Answers PROVE Counted(a)'
  <2>1. Counted(a) /\ Calls(a)' = Calls(a)
    BY <1>1 DEF ClientInv, DeliveriesInv, Calls
  <2>5. CASE IsStatus(a)
    BY <1>1, <2>1, <2>5 DEF Counted, Deliverable, Room
  <2>2. Cardinality(Calls(a)) \in Nat /\ handled[a] \in Nat
        /\ channel["listener"] \in Nat
    BY CallsAre DEF ClientInv, Typed
  <2>3. CASE c = "listener" /\ ~IsStatus(a)
    <3>1. Deliverable(a) = 0 /\ Deliverable(a)' \in {0, 1}
      BY <1>1, <2>3 DEF Deliverable, IsOpen, ChannelOpen
    <3>2. channel'["listener"] = channel["listener"] + 1 /\ handled'[a] = handled[a]
      BY <1>1, <2>3 DEF ClientInv, Typed
    <3>3. Room(a) = channel["listener"] /\ Room(a)' = channel["listener"] + 1
      BY <2>3, <3>2 DEF Room
    <3> QED BY <2>1, <2>2, <3>1, <3>2, <3>3 DEF Counted
  <2>4. CASE c # "listener" /\ ~IsStatus(a)
    <3>1. Deliverable(a)' = Deliverable(a)
      BY <1>1, <2>4 DEF Deliverable, IsOpen, ChannelOpen, ClientInv, Typed
    <3>2. channel'["listener"] = channel["listener"] /\ handled'[a] = handled[a]
      BY <1>1, <2>4 DEF ClientInv, Typed
    <3> QED BY <2>1, <3>1, <3>2 DEF Counted, Room
  <2> QED BY <2>3, <2>4, <2>5
<1> QED BY <1>2, <1>3, <1>4, <1>5 DEF ClientInv, DeliveriesInv

\* A connection that ends gives its answers back: they are neither gone, nor
\* deliverable.
LEMMA EndsKeep ==
  ASSUME ClientInv, NEW c \in Clients, IsOpen(c), NEW how \in {"lost", "shut", "deaf", "closed"},
         Ends(c, how), UNCHANGED <<channel, itemVars>>, Typed', ConnectionsInv'
  PROVE  ClientInv'
<1> USE ClientsAre
<1>1. /\ connection' = [connection EXCEPT ![c] = how]
      /\ \A a \in Answers :
           \/ answers'[a] = answers[a]
           \/ c = "listener" /\ ~IsStatus(a) /\ answers'[a] = Queued
           \/ c = "listener" /\ IsStatus(a) /\ answers'[a] = Lost
  BY DEF Ends, Returned
<1>2. AnswersInv'
  <2>1. ASSUME NEW a \in Answers PROVE Accounted(a)'
    <3>1. Accounted(a) /\ (answers'[a] = Gone => answers[a] = Gone)
          /\ (answers'[a] = Lost => answers[a] = Lost \/ IsStatus(a))
      BY <1>1, AnswersAssumption DEF ClientInv, AnswersInv
    <3> QED BY <3>1 DEF Accounted, Positive, itemVars
  <2>2. \A i \in items' : ItemInv(i)'
    BY DEF ClientInv, AnswersInv, ItemInv, Positive, itemVars
  <2> QED BY <2>1, <2>2 DEF AnswersInv
<1>3. ASSUME NEW a \in Answers PROVE Counted(a)'
  <2>1. Counted(a) /\ Calls(a)' = Calls(a) /\ handled'[a] = handled[a]
        /\ channel'["listener"] = channel["listener"]
    BY DEF ClientInv, DeliveriesInv, Calls, itemVars
  <2>2. Cardinality(Calls(a)) \in Nat /\ handled[a] \in Nat
        /\ channel["listener"] \in Nat
    BY CallsAre DEF ClientInv, Typed
  <2>3. Deliverable(a)' = 0 \/ Deliverable(a)' = Deliverable(a)
    BY <1>1 DEF Deliverable, IsOpen, ChannelOpen, ClientInv, Typed
  <2>4. Deliverable(a) \in {0, 1}
    BY DEF Deliverable
  <2> QED BY <2>1, <2>2, <2>3, <2>4 DEF Counted, Room
<1> QED BY <1>2, <1>3 DEF ClientInv, DeliveriesInv

(* A connection that ends leaves the types as they are. *)
LEMMA EndsTyped ==
  ASSUME ClientInv, NEW c \in Clients, NEW how \in {"lost", "shut", "deaf", "closed"}, Ends(c, how),
         UNCHANGED <<channel, itemVars>>, running' \in [Clients -> BOOLEAN],
         at_' = [t \in ClientThreads |-> at_'[t]], losses' \in Nat
  PROVE  Typed'
<1>1. \A a \in Answers : Returned(a) \in {NotSent, Queued, Gone, Lost} \cup Nat
  BY DEF Returned, ClientInv, Typed
<1> QED BY <1>1 DEF ClientInv, Typed, Ends, itemVars

(* A connection is lost, with what it had not settled. *)
LEMMA Loses ==
  ASSUME ClientInv, NEW c \in Clients, LoseConnection(c)
  PROVE  ClientInv'
<1> USE ClientsAre
<1>1. PICK how \in {"lost", "shut", "deaf"} :
        /\ IsOpen(c) /\ Ends(c, how) /\ losses' = losses + 1
        /\ UNCHANGED <<running, at_, channel, itemVars>>
        /\ how = "shut" => ChannelOpen(c)
  BY DEF LoseConnection, IsOpen, ChannelOpen
<1>2. connection' = [connection EXCEPT ![c] = how]
  BY <1>1 DEF Ends
<1>3. Typed'
  BY <1>1, EndsTyped DEF ClientInv, Typed
<1>4. ConnectionsInv'
  BY <1>1, <1>2 DEF ClientInv, Typed, ConnectionsInv, IsOpen, ChannelOpen
<1> QED BY <1>1, <1>3, <1>4, EndsKeep

(* A client is closed for good. *)
LEMMA Closes ==
  ASSUME ClientInv, NEW c \in Clients, Close(c)
  PROVE  ClientInv'
<1> USE ClientsAre
<1>1. /\ running' = [running EXCEPT ![c] = FALSE]
      /\ UNCHANGED <<channel, itemVars, losses>>
      /\ \/ at_' = [at_ EXCEPT !["close_sender"] = "done"] /\ c = "sender"
         \/ at_' = [at_ EXCEPT !["close_listener"] = "done"] /\ c = "listener"
  BY DEF Close, Go
<1>2. at_' = [t \in ClientThreads |-> at_'[t]] /\ running' \in [Clients -> BOOLEAN]
      /\ losses' \in Nat
  BY <1>1 DEF ClientInv, Typed
<1>3. CASE IsOpen(c)
  <2>1. Ends(c, "closed") /\ connection' = [connection EXCEPT ![c] = "closed"]
    BY <1>3 DEF Close, Ends
  <2>2. Typed'
    BY <1>1, <1>2, <2>1, EndsTyped
  <2>3. ConnectionsInv'
    BY <1>1, <2>1 DEF ClientInv, Typed, ConnectionsInv, IsOpen, ChannelOpen
  <2> QED BY <1>1, <1>3, <2>1, <2>2, <2>3, EndsKeep
<1>4. CASE ~IsOpen(c)
  <2>1. UNCHANGED <<connection, answers>>
    BY <1>4 DEF Close
  <2>2. Typed' /\ ConnectionsInv'
    BY <1>1, <1>2, <1>4, <2>1 DEF ClientInv, Typed, ConnectionsInv, IsOpen, ChannelOpen, itemVars
  <2>3. AnswersInv' /\ DeliveriesInv'
    BY <1>1, <2>1 DEF ClientInv, AnswersInv, Accounted, ItemInv, Positive, DeliveriesInv,
       Counted, Room, Calls, Deliverable, IsOpen, ChannelOpen, itemVars
  <2> QED BY <2>2, <2>3 DEF ClientInv
<1> QED BY <1>3, <1>4

-----------------------------------------------------------------------------
(* Answers *)

\* An answer is delivered by a channel that has not delivered it before.
LEMMA Delivers ==
  ASSUME ClientInv, NEW a \in Answers,
         (Deliver(a) /\ ~IsStatus(a)) \/ StatusArrives(a)
  PROVE  ClientInv'
<1> USE ClientsAre
<1>0. PICK i : i = [answer |-> a, channel |-> channel["listener"], at |-> "call"]
  OBVIOUS
<1>1. /\ IF IsStatus(a) THEN answers[a] = channel["listener"]
         ELSE answers[a] = Queued /\ ChannelOpen("listener")
      /\ answers' = [answers EXCEPT ![a] =
                       IF IsStatus(a) THEN Gone ELSE channel["listener"]]
      /\ items' = items \cup {i}
      /\ UNCHANGED <<connectionVars, handled, reported>>
  BY <1>0 DEF Deliver, StatusArrives, NewItem
<1>2. i \in ItemRecords /\ i.at = "call" /\ i.answer = a
  BY <1>0 DEF ClientInv, Typed, ItemRecords, Places
<1>3. Typed'
  <2>1. IsFiniteSet(items')
    BY <1>1, FS_AddElement DEF ClientInv, Typed
  <2> QED BY <1>1, <1>2, <2>1 DEF ClientInv, Typed, connectionVars
<1>4. ConnectionsInv'
  BY <1>1 DEF ClientInv, ConnectionsInv, connectionVars, IsOpen, ChannelOpen
<1>5. AnswersInv'
  <2>1. ASSUME NEW b \in Answers PROVE Accounted(b)'
    <3>1. CASE b = a
      BY <1>1, <3>1, AnswersAssumption DEF ClientInv, Typed, Accounted, Positive
    <3>2. CASE b # a
      <4>1. Accounted(b) /\ answers'[b] = answers[b] /\ items \subseteq items'
        BY <1>1, <3>2 DEF ClientInv, Typed, AnswersInv
      <4> QED BY <1>1, <4>1 DEF Accounted, Positive
    <3> QED BY <3>1, <3>2
  <2>2. \A j \in items' : ItemInv(j)'
    BY <1>1, <1>2 DEF ClientInv, AnswersInv, ItemInv, Positive
  <2> QED BY <2>1, <2>2 DEF AnswersInv
<1>6. ASSUME NEW b \in Answers PROVE Counted(b)'
  <2>1. Counted(b) /\ handled'[b] = handled[b] /\ handled[b] \in Nat
        /\ channel'["listener"] = channel["listener"] /\ channel["listener"] \in Nat
    BY <1>1 DEF ClientInv, DeliveriesInv, Typed, connectionVars
  <2>2. IsFiniteSet(Calls(b)) /\ Cardinality(Calls(b)) \in Nat
    BY CallsAre DEF ClientInv
  <2>3. CASE b = a
    <3>1. Calls(b)' = Calls(b) \cup {i}
      BY <1>1, <1>2, <2>3 DEF Calls
    <3>2. Cardinality(Calls(b) \cup {i})
            \in {Cardinality(Calls(b)), Cardinality(Calls(b)) + 1}
      BY <2>2, FS_AddElement
    <3>3. Deliverable(b) = 1
      BY <1>1, <2>1, <2>3, AnswersAssumption DEF Deliverable
    <3>4. Deliverable(b)' = 0
      BY <1>1, <2>3, AnswersAssumption DEF Deliverable, ClientInv, Typed
    <3>5. Cardinality(Calls(b)') \in {Cardinality(Calls(b)), Cardinality(Calls(b)) + 1}
      BY <3>1, <3>2
    <3> QED BY <2>1, <2>2, <3>3, <3>4, <3>5 DEF Counted, Room
  <2>4. CASE b # a
    <3>1. Calls(b)' = Calls(b)
      BY <1>1, <1>2, <2>4 DEF Calls
    <3>2. Deliverable(b)' = Deliverable(b)
      BY <1>1, <2>4 DEF Deliverable, ClientInv, Typed, IsOpen, ChannelOpen, connectionVars
    <3> QED BY <2>1, <3>1, <3>2 DEF Counted, Room
  <2> QED BY <2>3, <2>4
<1> QED BY <1>3, <1>4, <1>5, <1>6 DEF ClientInv, DeliveriesInv

\* An answer that is sent, and a status on its way, are not more than before.
LEMMA Moves ==
  ASSUME ClientInv, NEW a \in Answers, Answer(a) \/ (Deliver(a) /\ IsStatus(a))
  PROVE  ClientInv'
<1> USE ClientsAre
<1>1. /\ UNCHANGED <<connectionVars, itemVars>>
      /\ \E place \in {Queued, Lost, channel["listener"]} :
           /\ answers' = [answers EXCEPT ![a] = place]
           /\ place # Queued => IsStatus(a)
      /\ answers[a] \in {NotSent, Queued}
  BY DEF Answer, Deliver, itemVars
<1>2. Typed' /\ ConnectionsInv'
  BY <1>1 DEF ClientInv, Typed, ConnectionsInv, IsOpen, ChannelOpen, connectionVars,
     itemVars
<1>3. /\ answers \in [Answers -> {NotSent, Queued, Gone, Lost} \cup Nat]
      /\ channel["listener"] \in Nat
  BY DEF ClientInv, Typed
<1>4. ASSUME NEW b \in Answers PROVE Accounted(b)'
  <2>1. Accounted(b) BY DEF ClientInv, AnswersInv
  <2>2. CASE b # a
    BY <1>1, <1>3, <2>1, <2>2 DEF Accounted, Positive, itemVars
  <2>3. CASE b = a
    BY <1>1, <1>3, <2>3, AnswersAssumption DEF Accounted
  <2> QED BY <2>2, <2>3
<1>5. \A i \in items' : ItemInv(i)'
  BY <1>1 DEF ClientInv, AnswersInv, ItemInv, Positive, itemVars
<1>6. ASSUME NEW b \in Answers PROVE Counted(b)'
  <2>1. /\ Counted(b) /\ Calls(b)' = Calls(b) /\ handled'[b] = handled[b]
        /\ Room(b)' = Room(b) /\ Room(b) \in Nat /\ handled[b] \in Nat
    BY <1>1 DEF ClientInv, Typed, DeliveriesInv, Calls, Room, itemVars, connectionVars
  <2>2. Cardinality(Calls(b)) \in Nat
    BY CallsAre DEF ClientInv
  <2>3. Deliverable(b) \in {0, 1} /\ Deliverable(b)' \in {0, 1}
    BY DEF Deliverable
  <2>4. Deliverable(b)' = 0 \/ Deliverable(b) = 1
    <3>1. CASE b # a
      BY <1>1, <1>3, <3>1 DEF Deliverable, ChannelOpen, connectionVars
    <3>2. CASE b = a
      BY <1>1, <1>3, <3>2, AnswersAssumption DEF Deliverable, ChannelOpen, connectionVars
    <3> QED BY <3>1, <3>2
  <2> QED BY <2>1, <2>2, <2>3, <2>4 DEF Counted
<1> QED BY <1>2, <1>4, <1>5, <1>6 DEF ClientInv, AnswersInv, DeliveriesInv

\* What an item goes on to is no callback.
LEMMA NextItem ==
  ASSUME Typed, NEW i \in items, NEW place \in {"", "ack", "nack", "error"}, Next_(i, place)
  PROVE  /\ items' \subseteq ItemRecords /\ IsFiniteSet(items')
         /\ \A j \in items' :
              j \in items \/ (place # "" /\ j.answer = i.answer /\ j.at = place)
         /\ \A j \in items : j = i \/ j \in items'
         /\ place # "" => \E j \in items' : j.answer = i.answer /\ j.at = place
         /\ \A a \in Answers : Calls(a)' = Calls(a) \ {i}
<1>0. i \in ItemRecords
  BY DEF Typed
<1> DEFINE next == [i EXCEPT !.at = place]
<1>1. place # "" => next \in ItemRecords /\ next.answer = i.answer /\ next.at = place
  BY <1>0 DEF ItemRecords, Places
<1>2. items' = (items \ {i}) \cup (IF place = "" THEN {} ELSE {next})
  BY DEF Next_
<1> HIDE DEF next
<1>3. items' \subseteq ItemRecords
  BY <1>1, <1>2 DEF Typed
<1>4. IsFiniteSet(items \ {i})
  BY FS_Subset DEF Typed
<1>5. IsFiniteSet(items')
  BY <1>2, <1>4, FS_AddElement
<1>6. \A a \in Answers : Calls(a)' = Calls(a) \ {i}
  BY <1>1, <1>2 DEF Calls
<1> QED BY <1>1, <1>2, <1>3, <1>5, <1>6

(* One more handled, and one item less, is no more in all. *)
LEMMA NoMore ==
  ASSUME NEW h \in Nat, NEW n \in Nat, NEW d \in Nat, NEW d1 \in Nat, NEW m \in Nat,
         h + n + d <= m, d1 <= d
  PROVE  /\ h + n + d1 <= m
         /\ \A h1 \in {h, h + 1} : h1 + (n - 1) + d1 <= m
OBVIOUS

(* Numbers that are zero or one compare. *)
LEMMA ZeroOrOne ==
  ASSUME NEW d \in {0, 1}, NEW d1 \in {0, 1}, d1 = 0 \/ d = 1
  PROVE  d \in Nat /\ d1 \in Nat /\ d1 <= d
OBVIOUS

\* Items that go on keep the counts, if they count what they call.
LEMMA CountsKept ==
  ASSUME ClientInv, NEW i \in items, NEW place \in {"", "ack", "nack", "error"}, Next_(i, place),
         UNCHANGED connectionVars, Typed',
         \A a \in Answers : answers'[a] = answers[a] \/ answers'[a] = Gone,
         \A a \in Answers : handled'[a] \in {handled[a], handled[a] + 1},
         \A a \in Answers : i \notin Calls(a) => handled'[a] = handled[a]
  PROVE  DeliveriesInv'
<1>0. i \in ItemRecords
  BY DEF ClientInv, Typed
<1>1. ASSUME NEW a \in Answers PROVE Counted(a)'
  <2>1. Counted(a) /\ handled[a] \in Nat /\ handled'[a] \in Nat
        /\ Room(a)' = Room(a) /\ Room(a) \in Nat
    BY ClientsAre DEF ClientInv, DeliveriesInv, Typed, Room, connectionVars
  <2>2. IsFiniteSet(Calls(a)) /\ Cardinality(Calls(a)) \in Nat
    BY CallsAre DEF ClientInv
  <2>3. Calls(a)' = Calls(a) \ {i}
    BY NextItem DEF ClientInv
  <2>4. Deliverable(a) \in Nat /\ Deliverable(a)' \in Nat /\ Deliverable(a)' <= Deliverable(a)
    <3>1. (answers'[a] = answers[a] \/ answers'[a] = Gone) /\ connection' = connection
          /\ Gone \notin {NotSent, Queued}
      BY AnswersAssumption DEF connectionVars
    <3>2. Deliverable(a) \in {0, 1} /\ Deliverable(a)' \in {0, 1}
      BY DEF Deliverable
    <3>3. Deliverable(a)' = 0 \/ Deliverable(a) = 1
      BY <3>1 DEF Deliverable, IsOpen, ChannelOpen
    <3> QED BY <3>2, <3>3, ZeroOrOne
  <2>5. CASE i \in Calls(a)
    <3>1. Cardinality(Calls(a) \ {i}) = Cardinality(Calls(a)) - 1
      BY <2>2, <2>5, FS_RemoveElement
    <3>2. Cardinality(Calls(a)') = Cardinality(Calls(a)) - 1
      BY <2>3, <3>1
    <3>3. handled'[a] \in {handled[a], handled[a] + 1}
      OBVIOUS
    <3>4. handled'[a] + (Cardinality(Calls(a)) - 1) + Deliverable(a)' <= Room(a)
      <4>1. handled[a] + Cardinality(Calls(a)) + Deliverable(a) <= Room(a)
        BY <2>1 DEF Counted, Room
      <4> QED BY <2>1, <2>2, <2>4, <3>3, <4>1, NoMore
    <3> QED BY <2>1, <3>2, <3>4 DEF Counted, Room
  <2>6. CASE i \notin Calls(a)
    <3>1. Calls(a)' = Calls(a)
      BY <2>3, <2>6
    <3>2. handled'[a] = handled[a]
      BY <2>6
    <3>3. handled[a] + Cardinality(Calls(a)) + Deliverable(a)' <= Room(a)
      <4>1. handled[a] + Cardinality(Calls(a)) + Deliverable(a) <= Room(a)
        BY <2>1 DEF Counted, Room
      <4> QED BY <2>1, <2>2, <2>4, <4>1, NoMore
    <3> QED BY <2>1, <3>1, <3>2, <3>3 DEF Counted, Room
  <2> QED BY <2>5, <2>6
<1> QED BY <1>1 DEF DeliveriesInv

\* What an item does: to its answer, and to itself.
Handles(a) == handled' = [handled EXCEPT ![a] = @ + 1]
(* What an item of the thread pool does next. *)
LEMMA ItemsDo ==
  ASSUME Typed, NEW i \in items, NEW a \in Answers, a = i.answer,
         CallMessage(i) \/ Settle(i) \/ CallError(i)
  PROVE  \E place \in {"", "ack", "nack", "error"} :
           /\ Next_(i, place)
           /\ place = "ack" => AtCall(i)
           /\ AtNack(i) => place = "error"
           /\ \/ handled' = handled /\ (AtCall(i) => a \in Invalid /\ place # "ack")
              \/ Handles(a) /\ AtCall(i) /\ a \notin Invalid
           /\ \/ answers' = answers
              \/ Settles(i) /\ answers' = [answers EXCEPT ![a] = Gone]
           /\ \/ reported' = reported /\ ~AtError(i)
              \/ reported' = [reported EXCEPT ![a] = TRUE]
<1> USE DEF AtCall, AtNack, AtError, Settles
<1>1. CASE CallMessage(i)
  <2>1. i.at = "call" /\ UNCHANGED <<answers, reported>>
    BY <1>1 DEF CallMessage
  <2>2. CASE a \in Invalid
    <3>1. Next_(i, Failed(a)) /\ UNCHANGED handled
      BY <1>1, <2>2 DEF CallMessage
    <3>2. Failed(a) \in {"nack", "error"}
      BY DEF Failed
    <3> QED BY <2>1, <2>2, <3>1, <3>2
  <2>3. CASE a \notin Invalid
    <3>1. Handles(a)
      BY <1>1, <2>3 DEF CallMessage, Handles
    <3>2. \E place \in {"", "ack", "nack", "error"} : Next_(i, place)
      <4>1. \/ Next_(i, IF IsStatus(a) THEN "" ELSE "ack")
            \/ Next_(i, Failed(a))
        BY <1>1, <2>3 DEF CallMessage
      <4> QED BY <4>1 DEF Failed
    <3> QED BY <2>1, <2>3, <3>1, <3>2
  <2> QED BY <2>2, <2>3
<1>2. CASE Settle(i)
  <2>1. /\ i.at \in {"ack", "nack"} /\ UNCHANGED <<handled, reported>>
        /\ answers' = answers \/ answers' = [answers EXCEPT ![a] = Gone]
        /\ \/ Next_(i, "error")
           \/ i.at = "ack" /\ Next_(i, "")
    BY <1>2 DEF Settle, itemVars
  <2> QED BY <2>1
<1>3. CASE CallError(i)
  BY <1>3 DEF CallError
<1> QED BY <1>1, <1>2, <1>3

\* What a call does to the counts.
LEMMA HandlesOne ==
  ASSUME Typed, NEW a \in Answers, handled' = handled \/ Handles(a)
  PROVE  /\ handled' \in [Answers -> Nat]
         /\ \A b \in Answers : handled'[b] \in {handled[b], handled[b] + 1}
         /\ \A b \in Answers : handled[b] > 0 => handled'[b] > 0
         /\ \A b \in Answers : b # a => handled'[b] = handled[b]
         /\ Handles(a) => handled'[a] > 0
BY DEF Typed, Handles

(* An item handles its answer, settles it, or reports its error. *)
LEMMA ItemSteps ==
  ASSUME ClientInv, NEW i \in items, CallMessage(i) \/ Settle(i) \/ CallError(i)
  PROVE  ClientInv'
<1>0. PICK a \in Answers : a = i.answer
  BY DEF ClientInv, Typed, ItemRecords
<1>t. Typed /\ i \in ItemRecords
  BY DEF ClientInv, Typed
<1>1. UNCHANGED connectionVars
  BY DEF CallMessage, Settle, CallError
<1>2. PICK place \in {"", "ack", "nack", "error"} :
        /\ Next_(i, place)
        /\ place = "ack" => AtCall(i)
        /\ AtNack(i) => place = "error"
        /\ \/ handled' = handled /\ (AtCall(i) => a \in Invalid /\ place # "ack")
           \/ Handles(a) /\ AtCall(i) /\ a \notin Invalid
        /\ \/ answers' = answers
           \/ Settles(i) /\ answers' = [answers EXCEPT ![a] = Gone]
        /\ \/ reported' = reported /\ ~AtError(i)
           \/ reported' = [reported EXCEPT ![a] = TRUE]
  BY <1>0, <1>t, ItemsDo
<1>n. /\ items' \subseteq ItemRecords /\ IsFiniteSet(items')
      /\ \A j \in items' : j \in items \/ (place # "" /\ j.answer = a /\ j.at = place)
      /\ \A j \in items : j = i \/ j \in items'
      /\ place # "" => \E j \in items' : j.answer = a /\ j.at = place
  <2>1. Next_(i, place)
    BY <1>2
  <2>2. /\ items' \subseteq ItemRecords /\ IsFiniteSet(items')
        /\ \A j \in items' :
             j \in items \/ (place # "" /\ j.answer = i.answer /\ j.at = place)
        /\ \A j \in items : j = i \/ j \in items'
        /\ place # "" => \E j \in items' : j.answer = i.answer /\ j.at = place
    BY <1>t, <2>1, NextItem
  <2> QED BY <1>0, <2>2
<1>h. /\ handled' \in [Answers -> Nat]
      /\ \A b \in Answers : handled'[b] \in {handled[b], handled[b] + 1}
      /\ \A b \in Answers : handled[b] > 0 => handled'[b] > 0
      /\ \A b \in Answers : b # a => handled'[b] = handled[b]
      /\ Handles(a) => handled'[a] > 0
  BY <1>t, <1>2, HandlesOne
<1>s. /\ answers' \in [Answers -> {NotSent, Queued, Gone, Lost} \cup Nat]
      /\ \A b \in Answers : \/ answers'[b] = answers[b]
                            \/ answers'[b] = Gone /\ b = a /\ Settles(i)
  BY <1>t, <1>2 DEF Typed
<1>r. /\ reported' \in [Answers -> BOOLEAN]
      /\ \A b \in Answers : reported[b] => reported'[b]
      /\ AtError(i) => reported'[a]
  BY <1>t, <1>2 DEF Typed
<1>4. Typed'
  BY <1>t, <1>1, <1>n, <1>h, <1>s, <1>r DEF Typed, connectionVars
<1>5. ConnectionsInv'
  BY <1>1 DEF ClientInv, ConnectionsInv, connectionVars, IsOpen, ChannelOpen
<1>i. ItemInv(i)
  BY DEF ClientInv, AnswersInv
<1>c. AtCall(i) \/ a \in Invalid \/ Positive(a)
  BY <1>0, <1>i DEF ItemInv, AtCall, Positive
<1>p. \A b \in Answers : Positive(b) => Positive(b)'
  BY <1>h DEF Positive
<1>g. a \notin Invalid => Positive(a)'
  <2>1. Handles(a) => Positive(a)'
    BY <1>h DEF Positive
  <2> QED BY <1>2, <1>c, <1>p, <2>1
<1>6. ASSUME NEW j \in items' PROVE ItemInv(j)'
  <2>1. CASE j \in items
    <3>1. j.answer \in Answers /\ ItemInv(j)
      BY <1>t, <2>1 DEF ClientInv, AnswersInv, Typed, ItemRecords
    <3>2. Positive(j.answer) => Positive(j.answer)'
      BY <1>p, <3>1
    <3> QED BY <3>1, <3>2 DEF ItemInv
  <2>2. CASE place # "" /\ j.answer = a /\ j.at = place
    <3>1. place = "ack" => a \notin Invalid
      BY <1>2
    <3> QED BY <1>g, <2>2, <3>1 DEF ItemInv
  <2> QED BY <1>n, <2>1, <2>2
<1>7. ASSUME NEW b \in Answers PROVE Accounted(b)'
  <2>1. Accounted(b)
    BY DEF ClientInv, AnswersInv
  <2>0. ~IsStatus(b) => answers'[b] # Lost
    BY <1>s, <2>1, AnswersAssumption DEF Accounted
  <2>2. CASE answers[b] = Gone
    <3>1. ASSUME NEW j \in items, j.answer = b, j.at = "error"
          PROVE  reported'[b] \/ \E k \in items' : k.answer = b /\ k.at = "error"
      <4>1. CASE j = i
        BY <1>0, <1>r, <3>1, <4>1 DEF AtError
      <4>2. CASE j # i
        BY <1>n, <3>1, <4>2
      <4> QED BY <4>1, <4>2
    <3>2. Positive(b) => Positive(b)'
      BY <1>p
    <3> QED BY <1>r, <2>0, <2>1, <2>2, <3>1, <3>2 DEF Accounted
  <2>3. CASE answers[b] # Gone /\ answers'[b] = Gone
    <3>1. b = a /\ Settles(i)
      BY <1>s, <2>3
    <3>2. CASE b \in Invalid
      <4>1. place = "error"
        BY <1>0, <1>2, <1>i, <3>1, <3>2 DEF ItemInv, Settles, AtNack
      <4>2. \E k \in items' : k.answer = b /\ k.at = "error"
        BY <1>n, <3>1, <4>1
      <4> QED BY <2>0, <3>2, <4>2 DEF Accounted
    <3>3. CASE b \notin Invalid
      BY <1>g, <2>0, <3>1, <3>3 DEF Accounted
    <3> QED BY <3>2, <3>3
  <2>4. CASE answers'[b] # Gone
    BY <2>0, <2>4 DEF Accounted
  <2> QED BY <2>2, <2>3, <2>4
<1>8. DeliveriesInv'
  <2>1. \A b \in Answers : answers'[b] = answers[b] \/ answers'[b] = Gone
    BY <1>s
  <2>2. i \notin Calls(a) => ~AtCall(i)
    BY <1>0 DEF Calls, AtCall
  <2>3. \A b \in Answers : i \notin Calls(b) => handled'[b] = handled[b]
    <3>1. i \notin Calls(a) => handled' = handled
      BY <1>2, <2>2
    <3> QED BY <1>h, <3>1
  <2>4. \A b \in Answers : handled'[b] \in {handled[b], handled[b] + 1}
    BY <1>h
  <2>5. Next_(i, place)
    BY <1>2
  <2> QED BY <1>1, <1>4, <2>1, <2>3, <2>4, <2>5, CountsKept
<1> QED BY <1>4, <1>5, <1>6, <1>7, <1>8 DEF ClientInv, AnswersInv

-----------------------------------------------------------------------------
(* The theorem *)

LEMMA ClientStarts == ClientInit => ClientInv
<1> SUFFICES ASSUME ClientInit PROVE ClientInv
  OBVIOUS
<1>1. Typed
  BY FS_EmptySet DEF ClientInit, Typed
<1>2. ConnectionsInv
  BY ClientsAre DEF ClientInit, ConnectionsInv, IsOpen, ChannelOpen
<1>3. AnswersInv
  BY AnswersAssumption DEF ClientInit, AnswersInv, Accounted, ItemInv
<1>4. ASSUME NEW a \in Answers PROVE Counted(a)
  <2>1. Calls(a) = {} /\ Deliverable(a) <= Room(a) /\ Deliverable(a) \in Nat
        /\ Room(a) \in Nat /\ handled[a] = 0
    BY ClientsAre DEF ClientInit, Calls, Deliverable, Room, IsOpen, ChannelOpen
  <2> QED BY <2>1, FS_EmptySet DEF Counted, Room
<1> QED BY <1>1, <1>2, <1>3, <1>4 DEF ClientInv, DeliveriesInv

(* The invariant is kept by every step. *)
LEMMA ClientContinues ==
  ASSUME ClientInv, [ClientNext]_clientVars
  PROVE  ClientInv'
<1>1. ASSUME NEW c \in Clients, Connection_(c) PROVE ClientInv'
  BY <1>1, ThreadSteps, Connects, Loses, Closes DEF Connection_, ThreadStep
<1>2. CASE \/ Rebind \/ RebindThrows("listen") \/ RebindThrows("pool")
           \/ Listen \/ ListenRebinds \/ SendTask \/ SendStep
  <2>1. "listen" \in ThreadOf("listener")
    BY DEF ThreadOf
  <2> QED BY <1>2, <2>1, ClientsAre, ThreadSteps
<1>3. ASSUME NEW a \in Answers, Answer(a) \/ Handling(a) PROVE ClientInv'
  BY <1>3, Delivers, Moves, ItemSteps DEF Handling, Item
<1>4. CASE UNCHANGED clientVars
  BY <1>4, ThreadsKeep DEF clientVars, connectionVars, ClientInv, Typed
<1> QED BY <1>1, <1>2, <1>3, <1>4, ClientsAre DEF ClientNext, SenderNext, ListenerNext

\* However many connections are lost and whoever closes them when, no result
\* and no error leaves RabbitMQ unhandled, each is handled once more for each
\* loss at most, and a status once, and a client that was closed stays closed.
\* (ClientListener.cs:117, Connection.cs:77)
THEOREM ClientKeepsAnswers == ClientSpec => []AnswersKept
<1>1. ClientInv => AnswersKept
  <2> SUFFICES ASSUME ClientInv PROVE AnswersKept
    OBVIOUS
  <2>1. ASSUME NEW a \in Answers
        PROVE  handled[a] <= IF IsStatus(a) THEN 1 ELSE 1 + losses
    <3>1. Cardinality(Calls(a)) \in Nat /\ Deliverable(a) \in {0, 1} /\ Counted(a)
      BY CallsAre DEF ClientInv, Deliverable, DeliveriesInv
    <3> QED BY <3>1, ClientsAre DEF ClientInv, Typed, ConnectionsInv, Counted, Room
  <2>2. \A a \in Answers : Accounted(a)
    BY DEF ClientInv, AnswersInv
  <2>3. /\ at_["close_sender"] = "done" => ~IsOpen("sender")
        /\ at_["close_listener"] = "done" => ~IsOpen("listener")
    BY ClientsAre DEF ClientInv, ConnectionsInv
  <2> QED BY <2>1, <2>2, <2>3 DEF AnswersKept, Accounted, Positive
<1> QED BY <1>1, ClientStarts, ClientContinues, PTL DEF ClientSpec

-----------------------------------------------------------------------------
(* The types *)

\* The connections that are made are counted by the ones that are lost, of
\* each client.
CountInv(c) ==
  /\ channel[c] <= 1 + losses
  /\ connection[c] = "none" => channel[c] = 0
  /\ connection[c] \in {"shut", "deaf", "lost"} => channel[c] <= losses
  /\ connection[c] = "open" => channel[c] >= 1

\* Who binds has a new channel, of which Listen() has not heard.
BoundInv ==
  /\ ~ChannelOpen("listener") => bound = 0
  /\ binding => bound < 3
  /\ at_["listen"] \in {"idle", "channel"} => bound <= 3
  /\ at_["listen"] = "rebind" => bound < 6
  /\ listen_channel <= channel["listener"]
  /\ binding /\ at_["listen"] = "rebind" => listen_channel < channel["listener"]
  /\ Lock["listener"] = "listen" => at_["listen"] = "channel"

ClientTyped ==
  /\ DOMAIN Lock = Clients /\ \A c \in Clients : Lock[c] \in ThreadOf(c) \cup {Nobody_}
  /\ binding \in BOOLEAN /\ crashed \in BOOLEAN
  /\ listen_channel \in Nat /\ bound \in 0..6 /\ reconnects \in 0..MaxReconnects
  /\ \A a \in Answers : answers[a] \in Nat => answers[a] \in 1..channel["listener"]
  /\ losses \in 0..MaxLosses /\ sends \in 0..MaxSends
  /\ \A c \in Clients : CountInv(c)
  /\ BoundInv

(* There are three queues. *)
LEMMA ThreeQueues == Cardinality(Queues) = 3
<1>1. IsFiniteSet({}) /\ Cardinality({}) = 0 BY FS_EmptySet
<1>2. IsFiniteSet({} \cup {1}) /\ Cardinality({} \cup {1}) = 0 + 1
  BY <1>1, FS_AddElement
<1>3. IsFiniteSet({1} \cup {2}) /\ Cardinality({1} \cup {2}) = 0 + 1 + 1
  <2>1. {} \cup {1} = {1} /\ 2 \notin {1} OBVIOUS
  <2> QED BY <1>2, <2>1, FS_AddElement
<1>4. IsFiniteSet({1, 2} \cup {3}) /\ Cardinality({1, 2} \cup {3}) = 0 + 1 + 1 + 1
  <2>1. {1} \cup {2} = {1, 2} /\ 3 \notin {1, 2} OBVIOUS
  <2> QED BY <1>3, <2>1, FS_AddElement
<1>5. {1, 2} \cup {3} = Queues /\ 0 + 1 + 1 + 1 = 3 BY DEF Queues
<1> QED BY <1>4, <1>5

(* The typed invariant is the one that is checked. *)
LEMMA ClientTypes == ClientInv /\ ClientTyped => ClientTypeOK
<1> SUFFICES ASSUME ClientInv, ClientTyped PROVE ClientTypeOK OBVIOUS
<1>1. channel \in [Clients -> 0..(MaxLosses + 1)]
  <2>1. ASSUME NEW c \in Clients PROVE channel[c] \in 0..(MaxLosses + 1)
    <3>1. channel[c] \in Nat /\ channel[c] <= 1 + losses
      BY DEF ClientInv, Typed, ClientTyped, CountInv
    <3>2. losses \in Nat /\ losses <= MaxLosses /\ MaxLosses \in Nat
      BY ClientBounds DEF ClientTyped
    <3> QED BY <3>1, <3>2
  <2> QED BY <2>1 DEF ClientInv, Typed
<1>2. bound \in 0..(2 * Cardinality(Queues)) BY ThreeQueues DEF ClientTyped
<1>3. \A a \in Answers :
        answers[a] \in {NotSent, Queued, Gone, Lost} \cup (1..channel["listener"])
  BY DEF ClientInv, Typed, ClientTyped
<1>4. \A i \in items : i.answer \in Answers /\ i.at \in {"call", "ack", "nack", "error"}
  BY DEF ClientInv, Typed, ItemRecords, Places
<1> QED BY <1>1, <1>2, <1>3, <1>4 DEF ClientTypeOK, ClientInv, Typed, ClientTyped

(* It holds at first. *)
LEMMA ClientTypedInit == ClientInit => ClientTyped
<1> SUFFICES ASSUME ClientInit PROVE ClientTyped OBVIOUS
<1>1. \A c \in Clients : CountInv(c) BY DEF ClientInit, CountInv
<1>2. BoundInv
  <2>1. "listener" \in Clients /\ "listen" \in ClientThreads /\ Nobody_ # "listen"
    BY ClientsAre, NobodyAssumption
  <2> QED BY <2>1 DEF ClientInit, BoundInv
<1>3. \A a \in Answers : answers[a] \notin Nat BY AnswersAssumption DEF ClientInit
<1>4. DOMAIN Lock = Clients /\ \A c \in Clients : Lock[c] = Nobody_ BY DEF ClientInit
<1>5. /\ binding \in BOOLEAN /\ crashed \in BOOLEAN /\ listen_channel \in Nat
      /\ bound \in 0..6 /\ reconnects \in 0..MaxReconnects
      /\ losses \in 0..MaxLosses /\ sends \in 0..MaxSends
  <2>1. /\ binding = FALSE /\ crashed = FALSE /\ listen_channel = 0
        /\ bound = 0 /\ reconnects = 0 /\ losses = 0 /\ sends = 0
    BY DEF ClientInit
  <2>2. 0 \in 0..6 /\ 0 \in 0..MaxReconnects /\ 0 \in 0..MaxLosses /\ 0 \in 0..MaxSends
    BY ClientBounds
  <2> QED BY <2>1, <2>2
<1>6. \A a \in Answers : answers[a] \in Nat => answers[a] \in 1..channel["listener"]
  BY <1>3
<1> QED BY <1>1, <1>2, <1>4, <1>5, <1>6 DEF ClientTyped

\* Steps of a thread with the Lock that make no connection.
LEMMA EnterTyped ==
  ASSUME ClientInv, ClientTyped, NEW c \in Clients, NEW t \in ThreadOf(c), Enter(c, t)
  PROVE  ClientTyped'
<1>1. /\ UNCHANGED <<running, connection, channel, binding, at_, listen_channel,
                     bound, crashed, losses, sends, answers, itemVars>>
      /\ Lock' = [Lock EXCEPT ![c] = t]
      /\ reconnects' = (IF t = "pool" THEN reconnects - 1 ELSE reconnects)
      /\ t = "pool" => reconnects > 0
      /\ t = "listen" => at_["listen"] = "channel"
  BY DEF Enter, Comes
<1>2. reconnects' \in 0..MaxReconnects BY <1>1, ClientBounds DEF ClientTyped
<1>3. DOMAIN Lock' = Clients /\ \A d \in Clients : Lock'[d] \in ThreadOf(d) \cup {Nobody_}
  BY <1>1 DEF ClientTyped
<1>4. Lock'["listener"] = "listen" => at_["listen"] = "channel"
  BY <1>1, ClientsAre DEF ClientTyped, BoundInv
<1>5. BoundInv' /\ \A d \in Clients : CountInv(d)'
  BY <1>1, <1>4 DEF ClientTyped, BoundInv, CountInv, IsOpen, ChannelOpen
<1> QED BY <1>1, <1>2, <1>3, <1>5 DEF ClientTyped

(* A thread gives the lock back. *)
LEMMA LeaveTyped ==
  ASSUME ClientInv, ClientTyped, NEW c \in Clients, NEW t \in ThreadOf(c), Leave(c, t)
  PROVE  ClientTyped'
<1> DEFINE after == AfterLeaving(t)
<1>1. /\ UNCHANGED <<running, connection, channel, binding, bound, reconnects,
                     crashed, losses, sends, answers, itemVars>>
      /\ Lock[c] = t /\ Lock' = [Lock EXCEPT ![c] = Nobody_]
      /\ at_' = [at_ EXCEPT ![t] = after]
      /\ listen_channel' = (IF t = "listen" THEN channel[c] ELSE listen_channel)
      /\ c = "listener" => ~binding
  BY DEF Leave
<1>2. DOMAIN Lock' = Clients /\ \A d \in Clients : Lock'[d] \in ThreadOf(d) \cup {Nobody_}
  BY <1>1 DEF ClientTyped
<1>3. \A d \in Clients : CountInv(d)'
  BY <1>1 DEF ClientTyped, CountInv
<1>4. t = "listen" => c = "listener" BY ClientsAre DEF ThreadOf
<1>5. DOMAIN at_ = ClientThreads /\ t \in ClientThreads
  BY ClientsAre DEF ClientInv, Typed, ClientThreads
<1>0. Nobody_ # "listen" BY ClientsAre, NobodyAssumption
<1> HIDE DEF after
<1>6. CASE t = "listen"
  <2>1. after \in {"threw", "rebind"} BY <1>6 DEF after, AfterLeaving
  <2>2. at_'["listen"] = after /\ listen_channel' = channel["listener"]
        /\ Lock'["listener"] = Nobody_ /\ ~binding
    BY <1>1, <1>4, <1>5, <1>6 DEF ClientTyped
  <2>3. bound <= 3 BY <1>1, <1>4, <1>6 DEF ClientTyped, BoundInv
  <2>4. bound \in Nat /\ channel["listener"] \in Nat
    BY ClientsAre DEF ClientTyped, ClientInv, Typed
  <2>5. BoundInv'
    BY <1>0, <1>1, <2>1, <2>2, <2>3, <2>4 DEF ClientTyped, BoundInv, IsOpen, ChannelOpen
  <2>6. listen_channel' \in Nat BY <2>2, <2>4
  <2> QED BY <1>1, <1>2, <1>3, <2>5, <2>6 DEF ClientTyped
<1>7. CASE t # "listen"
  <2>1. at_'["listen"] = at_["listen"] /\ listen_channel' = listen_channel
    BY <1>1, <1>5, <1>7
  <2>2. Lock'["listener"] = "listen" => Lock["listener"] = "listen"
    BY <1>0, <1>1, ClientsAre DEF ClientTyped
  <2>3. BoundInv' BY <1>1, <2>1, <2>2 DEF ClientTyped, BoundInv, IsOpen, ChannelOpen
  <2> QED BY <1>1, <1>2, <1>3, <2>1, <2>3 DEF ClientTyped
<1> QED BY <1>6, <1>7


\* A connection that is made is the one after the last that was lost.
LEMMA ConnectTyped ==
  ASSUME ClientInv, ClientTyped, NEW c \in Clients, Connect(c)
  PROVE  ClientTyped'
<1>1. /\ UNCHANGED <<running, Lock, at_, listen_channel, bound, reconnects, crashed,
                     losses, sends, answers, itemVars>>
      /\ running[c] /\ ~IsOpen(c) /\ ~binding
      /\ connection' = [connection EXCEPT ![c] = "open"]
      /\ channel' = [channel EXCEPT ![c] = @ + 1]
      /\ binding' = (c = "listener")
  BY DEF Connect, MustConnect
<1>2. /\ DOMAIN channel = Clients /\ \A d \in Clients : channel[d] \in Nat
      /\ connection \in [Clients -> {"none", "open", "shut", "deaf", "lost", "closed"}] /\ losses \in Nat
  BY DEF ClientInv, Typed
<1>3. connection[c] \in {"none", "deaf", "lost"}
  BY <1>1, <1>2 DEF ClientInv, ConnectionsInv, IsOpen, ChannelOpen
<1>4. channel[c] <= losses
  BY <1>2, <1>3 DEF ClientTyped, CountInv
<1>5. /\ channel'[c] = channel[c] + 1 /\ connection'[c] = "open"
      /\ \A d \in Clients : d # c =>
           channel'[d] = channel[d] /\ connection'[d] = connection[d]
  BY <1>1, <1>2
<1>6. channel[c] + 1 <= 1 + losses /\ channel[c] + 1 >= 1 BY <1>2, <1>4
<1>7. ASSUME NEW d \in Clients PROVE CountInv(d)'
  <2>1. CASE d = c BY <1>1, <1>5, <1>6, <2>1 DEF CountInv
  <2>2. CASE d # c BY <1>1, <1>5, <2>2 DEF ClientTyped, CountInv
  <2> QED BY <2>1, <2>2
<1>8. channel["listener"] <= channel'["listener"] /\ channel'["listener"] \in Nat
  <2>1. CASE c = "listener" BY <1>2, <1>5, <2>1, ClientsAre
  <2>2. CASE c # "listener" BY <1>2, <1>5, <2>2, ClientsAre
  <2> QED BY <2>1, <2>2
<1>9. \A a \in Answers : answers'[a] \in Nat => answers'[a] \in 1..channel'["listener"]
  BY <1>1, <1>2, <1>8, ClientsAre DEF ClientTyped
<1>10. BoundInv'
  <2>1. CASE c = "listener"
    <3>1. bound = 0 /\ listen_channel <= channel["listener"] /\ listen_channel \in Nat
          /\ (Lock["listener"] = "listen" => at_["listen"] = "channel")
      BY <1>1, <2>1 DEF ClientTyped, BoundInv, IsOpen, ChannelOpen
    <3>2. channel["listener"] \in Nat /\ channel'["listener"] = channel["listener"] + 1
      BY <1>2, <1>5, <2>1
    <3>3. listen_channel < channel["listener"] + 1 /\ listen_channel <= channel["listener"] + 1
      BY <3>1, <3>2
    <3>4. UNCHANGED <<Lock, at_, listen_channel, bound>> BY <1>1
    <3> HIDE DEF BoundInv
    <3> QED BY <3>1, <3>2, <3>3, <3>4 DEF BoundInv, IsOpen, ChannelOpen
  <2>2. CASE c # "listener"
    <3>1. channel'["listener"] = channel["listener"]
          /\ connection'["listener"] = connection["listener"]
      BY <1>5, <2>2, ClientsAre
    <3> QED BY <1>1, <2>2, <3>1 DEF ClientTyped, BoundInv, IsOpen, ChannelOpen
  <2> QED BY <2>1, <2>2
<1>11. binding' \in BOOLEAN BY <1>1
<1> QED BY <1>1, <1>7, <1>9, <1>10, <1>11 DEF ClientTyped

\* A connection that ends, by itself or by Close().
LEMMA EndsBounded ==
  ASSUME ClientInv, ClientTyped, NEW c \in Clients, NEW how \in {"lost", "shut", "deaf", "closed"},
         IsOpen(c), Ends(c, how), UNCHANGED <<channel, Lock, binding, listen_channel>>,
         at_'["listen"] = at_["listen"]
  PROVE  /\ BoundInv' /\ bound' \in 0..6 /\ reconnects' \in 0..MaxReconnects
         /\ \A a \in Answers : answers'[a] \in Nat => answers'[a] \in 1..channel["listener"]
<1>1. DOMAIN connection = Clients /\ channel["listener"] \in Nat
  BY ClientsAre DEF ClientInv, Typed
<1>2. CASE c = "listener"
  <2>1. /\ connection' = [connection EXCEPT ![c] = how] /\ bound' = 0
        /\ reconnects' = (IF reconnects + bound > MaxReconnects THEN MaxReconnects
                          ELSE reconnects + bound)
        /\ answers' = [a \in Answers |-> Returned(a)]
    BY <1>2 DEF Ends
  <2>2. reconnects' \in 0..MaxReconnects BY <2>1, ClientBounds DEF ClientTyped
  <2>3. \A a \in Answers : answers'[a] \in Nat => answers'[a] \in 1..channel["listener"]
    BY <2>1, AnswersAssumption DEF ClientTyped, Returned
  <2>4. BoundInv' BY <2>1 DEF ClientTyped, BoundInv
  <2> QED BY <2>1, <2>2, <2>3, <2>4
<1>3. CASE c # "listener"
  <2>1. /\ connection' = [connection EXCEPT ![c] = how]
        /\ UNCHANGED <<reconnects, bound, answers>>
    BY <1>3 DEF Ends
  <2>2. connection'["listener"] = connection["listener"] BY <1>1, <1>3, <2>1, ClientsAre
  <2>3. BoundInv' BY <2>1, <2>2 DEF ClientTyped, BoundInv, IsOpen, ChannelOpen
  <2> QED BY <2>1, <2>3 DEF ClientTyped
<1> QED BY <1>2, <1>3

(* A lost connection posts its reconnections, within the bound. *)
LEMMA LoseTyped ==
  ASSUME ClientInv, ClientTyped, NEW c \in Clients, LoseConnection(c)
  PROVE  ClientTyped'
<1>1. PICK how \in {"lost", "shut", "deaf"} :
        /\ IsOpen(c) /\ losses < MaxLosses /\ losses' = losses + 1 /\ Ends(c, how)
        /\ connection' = [connection EXCEPT ![c] = how]
        /\ UNCHANGED <<running, channel, Lock, binding, at_, listen_channel, crashed,
                       sends, itemVars>>
  BY DEF LoseConnection, Ends, IsOpen, ChannelOpen
<1>2. losses' \in 0..MaxLosses BY <1>1, ClientBounds DEF ClientTyped
<1>3. ASSUME NEW d \in Clients PROVE CountInv(d)'
  <2>1. channel[d] \in Nat /\ losses \in Nat BY DEF ClientInv, Typed
  <2>2. channel[d] <= 1 + losses BY DEF ClientTyped, CountInv
  <2>3. channel[d] <= losses + 1 /\ channel[d] <= 1 + (losses + 1) BY <2>1, <2>2
  <2>4. connection'[d] = "none" => connection[d] = "none"
    BY <1>1 DEF ClientInv, Typed
  <2>5. connection'[d] = "open" => connection[d] = "open"
    BY <1>1 DEF ClientInv, Typed
  <2>6. /\ connection[d] = "none" => channel[d] = 0
        /\ connection[d] = "open" => channel[d] >= 1
    BY DEF ClientTyped, CountInv
  <2> QED BY <1>1, <2>3, <2>4, <2>5, <2>6 DEF CountInv
<1>4. /\ BoundInv' /\ bound' \in 0..6 /\ reconnects' \in 0..MaxReconnects
      /\ \A a \in Answers : answers'[a] \in Nat => answers'[a] \in 1..channel["listener"]
  BY <1>1, EndsBounded
<1> QED BY <1>1, <1>2, <1>3, <1>4 DEF ClientTyped

(* A client that is closed keeps its types. *)
LEMMA CloseTyped ==
  ASSUME ClientInv, ClientTyped, NEW c \in Clients, Close(c)
  PROVE  ClientTyped'
<1>1. /\ UNCHANGED <<channel, Lock, binding, listen_channel, crashed, losses, sends,
                     itemVars>>
      /\ IF IsOpen(c) THEN Ends(c, "closed")
                      ELSE UNCHANGED <<connection, bound, reconnects, answers>>
  BY DEF Close
<1>2. at_'["listen"] = at_["listen"]
  BY ClientsAre DEF Close, Go, ClientInv, Typed
<1>3. CASE IsOpen(c)
  <2>1. connection' = [connection EXCEPT ![c] = "closed"] BY <1>1, <1>3 DEF Ends
  <2>2. ASSUME NEW d \in Clients PROVE CountInv(d)'
    BY <1>1, <2>1 DEF ClientTyped, CountInv, ClientInv, Typed
  <2>3. /\ BoundInv' /\ bound' \in 0..6 /\ reconnects' \in 0..MaxReconnects
        /\ \A a \in Answers : answers'[a] \in Nat => answers'[a] \in 1..channel["listener"]
    BY <1>1, <1>2, <1>3, EndsBounded
  <2> QED BY <1>1, <2>2, <2>3 DEF ClientTyped
<1>4. CASE ~IsOpen(c)
  BY <1>1, <1>2, <1>4 DEF ClientTyped, CountInv, BoundInv, IsOpen, ChannelOpen
<1> QED BY <1>3, <1>4

\* Threads that are not after a connection.
LEMMA ThreadTyped ==
  ASSUME ClientInv, ClientTyped,
         \/ Rebind \/ RebindThrows("listen") \/ RebindThrows("pool")
         \/ Listen \/ ListenRebinds \/ SendTask \/ SendStep
  PROVE  ClientTyped'
<1>1. /\ DOMAIN at_ = ClientThreads /\ channel["listener"] \in Nat
      /\ bound \in Nat /\ listen_channel \in Nat /\ Nobody_ # "listen"
  BY ClientsAre, NobodyAssumption DEF ClientInv, Typed, ClientTyped
<1>2. UNCHANGED <<connection, channel, reconnects, losses, answers>>
  BY DEF Rebind, RebindThrows, Listen, ListenRebinds, SendTask, SendStep
<1>3. \A c \in Clients : CountInv(c)' BY <1>2 DEF ClientTyped, CountInv
<1>4. CASE Rebind
  <2>1. /\ binding /\ ChannelOpen("listener") /\ bound' = bound + 1
        /\ binding' = (bound + 1 < 3)
        /\ UNCHANGED <<Lock, at_, listen_channel, crashed, sends>>
    BY <1>4, ThreeQueues DEF Rebind
  <2>0. bound < 3 BY <2>1 DEF ClientTyped, BoundInv
  <2>2. bound' \in 0..6 /\ bound' <= 3 BY <1>1, <2>0, <2>1
  <2>4. binding' \in BOOLEAN /\ (binding' => bound + 1 < 3)
    <3> DEFINE more == bound + 1 < 3
    <3>1. more \in BOOLEAN /\ binding' = more BY <2>1
    <3> HIDE DEF more
    <3>2. binding' \in BOOLEAN /\ (binding' => more) BY <3>1, Zenon
    <3> QED BY <3>2 DEF more
  <2>5. binding' => bound' < 3 BY <2>1, <2>4
  <2>3. BoundInv' BY <1>1, <1>2, <2>1, <2>2, <2>5 DEF ClientTyped, BoundInv, IsOpen, ChannelOpen
  <2> QED BY <1>2, <1>3, <2>1, <2>2, <2>3, <2>4 DEF ClientTyped
<1>5. ASSUME NEW t \in {"listen", "pool"}, RebindThrows(t) PROVE ClientTyped'
  <2>1. /\ ~ChannelOpen("listener") /\ binding' = FALSE
        /\ Lock' = [Lock EXCEPT !["listener"] = Nobody_] /\ crashed' = (t = "pool")
        /\ at_' = [at_ EXCEPT ![t] = "threw"]
        /\ UNCHANGED <<connection, listen_channel, bound, sends>>
    BY <1>5 DEF RebindThrows
  <2>2. DOMAIN Lock' = Clients /\ \A c \in Clients : Lock'[c] \in ThreadOf(c) \cup {Nobody_}
    BY <2>1 DEF ClientTyped
  <2>3. bound = 0 /\ Lock'["listener"] # "listen"
    BY <1>1, <2>1, ClientsAre DEF ClientTyped, BoundInv
  <2>4. BoundInv' BY <1>1, <1>2, <2>1, <2>3 DEF ClientTyped, BoundInv
  <2> QED BY <1>2, <1>3, <2>1, <2>2, <2>4 DEF ClientTyped
<1>6. CASE Listen
  <2>1. /\ at_["listen"] = "idle" /\ at_' = [at_ EXCEPT !["listen"] = "channel"]
        /\ UNCHANGED <<Lock, binding, listen_channel, bound, crashed, sends>>
    BY <1>6 DEF Listen, Go
  <2>2. at_'["listen"] = "channel" BY <1>1, <2>1, ClientsAre
  <2>3. BoundInv' BY <1>2, <2>1, <2>2 DEF ClientTyped, BoundInv, IsOpen, ChannelOpen
  <2> QED BY <1>2, <1>3, <2>1, <2>3 DEF ClientTyped
<1>7. CASE ListenRebinds
  <2>1. /\ at_["listen"] = "rebind"
        /\ UNCHANGED <<Lock, binding, listen_channel, crashed, sends>>
    BY <1>7 DEF ListenRebinds
  <2>2. Lock["listener"] # "listen" /\ bound < 6 BY <2>1 DEF ClientTyped, BoundInv
  <2>3. CASE ChannelOpen("listener") /\ channel["listener"] = listen_channel
    <3>1. /\ bound' = bound + 1
          /\ at_' = IF bound + 1 < 2 * 3 THEN at_ ELSE [at_ EXCEPT !["listen"] = "done"]
      BY <1>7, <2>3, ThreeQueues DEF ListenRebinds
    <3>2. ~binding BY <1>1, <2>1, <2>3 DEF ClientTyped, BoundInv
    <3>3. bound' \in 0..6 /\ bound + 1 <= 6 BY <1>1, <2>2, <3>1
    <3>4. \/ bound + 1 < 6 /\ at_'["listen"] = "rebind"
          \/ at_'["listen"] = "done"
      BY <1>1, <2>1, <3>1, ClientsAre
    <3>5. BoundInv' BY <1>2, <2>1, <2>2, <2>3, <3>1, <3>2, <3>4 DEF ClientTyped, BoundInv, IsOpen, ChannelOpen
    <3> QED BY <1>2, <1>3, <2>1, <3>3, <3>5 DEF ClientTyped
  <2>4. CASE ~(ChannelOpen("listener") /\ channel["listener"] = listen_channel)
    <3>1. at_' = [at_ EXCEPT !["listen"] = "threw"] /\ UNCHANGED bound
      BY <1>7, <2>4 DEF ListenRebinds
    <3>2. at_'["listen"] = "threw" BY <1>1, <3>1, ClientsAre
    <3>3. BoundInv' BY <1>2, <2>1, <2>2, <3>1, <3>2 DEF ClientTyped, BoundInv, IsOpen, ChannelOpen
    <3> QED BY <1>2, <1>3, <2>1, <3>1, <3>3 DEF ClientTyped
  <2> QED BY <2>3, <2>4
<1>8. CASE SendTask \/ SendStep
  <2>1. UNCHANGED <<Lock, binding, listen_channel, bound, crashed>>
        /\ at_'["listen"] = at_["listen"]
    BY <1>1, <1>8, ClientsAre DEF SendTask, SendStep, Go
  <2>2. sends' \in 0..MaxSends BY <1>8, ClientBounds DEF SendTask, SendStep, ClientTyped
  <2>3. BoundInv' BY <1>2, <2>1 DEF ClientTyped, BoundInv, IsOpen, ChannelOpen
  <2> QED BY <1>2, <1>3, <2>1, <2>2, <2>3 DEF ClientTyped
<1> QED BY <1>4, <1>5, <1>6, <1>7, <1>8

(* Deliveries and items keep the types. *)
LEMMA AnswersTyped ==
  ASSUME ClientInv, ClientTyped, NEW a \in Answers, Answer(a) \/ Handling(a)
  PROVE  ClientTyped'
<1>1. UNCHANGED <<running, connection, channel, Lock, binding, at_, listen_channel, bound,
                  reconnects, crashed, losses, sends>>
  BY DEF Answer, Handling, Deliver, StatusArrives, Item, CallMessage, Settle,
     CallError, connectionVars
<1>2. BoundInv' /\ \A c \in Clients : CountInv(c)'
  BY <1>1 DEF ClientTyped, BoundInv, CountInv, IsOpen, ChannelOpen
<1>3. \A b \in Answers : answers'[b] \in Nat => answers'[b] \in 1..channel["listener"]
  <2>1. CASE Deliver(a)
    <3>1. /\ answers' = [answers EXCEPT ![a] = channel["listener"]]
          /\ connection["listener"] = "open"
      BY <2>1 DEF Deliver, ChannelOpen
    <3>2. channel["listener"] \in 1..channel["listener"]
      <4>1. channel["listener"] \in Nat BY ClientsAre DEF ClientInv, Typed
      <4>2. channel["listener"] >= 1 BY <3>1, ClientsAre DEF ClientTyped, CountInv
      <4> QED BY <4>1, <4>2
    <3> QED BY <3>1, <3>2, AnswersAssumption DEF ClientTyped, ClientInv, Typed
  <2>2. CASE Item(a)
    <3>1. \/ UNCHANGED answers
          \/ \E b \in Answers : answers' = [answers EXCEPT ![b] = Gone]
      BY <2>2 DEF Item, CallMessage, Settle, CallError
    <3> QED BY <3>1, AnswersAssumption DEF ClientTyped, ClientInv, Typed
  <2>3. CASE Answer(a) \/ StatusArrives(a)
    <3>1. \E place \in {Queued, Gone, Lost} : answers' = [answers EXCEPT ![a] = place]
      BY <2>3 DEF Answer, StatusArrives
    <3> QED BY <3>1, AnswersAssumption DEF ClientTyped, ClientInv, Typed
  <2> QED BY <2>1, <2>2, <2>3 DEF Handling
<1> QED BY <1>1, <1>2, <1>3 DEF ClientTyped

(* The typed invariant is kept by every step. *)
LEMMA ClientTypedNext ==
  ASSUME ClientInv, ClientTyped, [ClientNext]_clientVars
  PROVE  ClientTyped'
<1>1. ASSUME NEW c \in Clients, Connection_(c) PROVE ClientTyped'
  BY <1>1, EnterTyped, LeaveTyped, ConnectTyped, LoseTyped, CloseTyped
  DEF Connection_, ThreadStep
<1>2. CASE \/ Rebind \/ RebindThrows("listen") \/ RebindThrows("pool")
           \/ Listen \/ ListenRebinds \/ SendTask \/ SendStep
  BY <1>2, ThreadTyped
<1>3. ASSUME NEW a \in Answers, Answer(a) \/ Handling(a) PROVE ClientTyped'
  BY <1>3, AnswersTyped
<1>4. CASE UNCHANGED clientVars
  BY <1>4 DEF clientVars, connectionVars, ClientTyped, BoundInv, CountInv, IsOpen, ChannelOpen
<1> QED BY <1>1, <1>2, <1>3, <1>4, ClientsAre DEF ClientNext, SenderNext, ListenerNext

----------------------------------------------------------------------------
(* The importer *)

Converting ==
  {"system_verifier", "tests", "checker", "interactor", "statement", "versions"}

(* The packages that are there when n statement versions have been packed.   *)
VersionPackages(n) == {subpackage(dir.versions[i]) : i \in 1..n}
OnDisk(p, n) ==
  \/ p = <<"system_verifier">> /\ stepConv # "system_verifier"
  \/ p = <<"tests">> /\ stepConv \notin {"system_verifier", "tests"}
  \/ /\ p = <<"checker">> /\ Checker(dir) # Absent
     /\ stepConv \in {"interactor", "statement", "versions", "ok"}
  \/ /\ p = <<"interactor">> /\ Interactor(dir) # Absent
     /\ stepConv \in {"statement", "versions", "ok"}
  \/ /\ p = Resources \/ p \in VersionPackages(n)
     /\ stepConv \in {"versions", "ok"}
  \/ p = Root /\ stepConv = "ok"

(* Each package is complete, and a version's holds a version of its name.    *)
PackageOK(p, n) ==
  /\ disk[p].whole /\ disk[p].imports \subseteq OwnPackages
  /\ p \in VersionPackages(n) =>
       \E w \in ToSet(dir.versions) :
         disk[p].version = <<w>> /\ subpackage(w) = p

TreeOf(n) ==
  /\ DOMAIN disk = {p \in OwnPackages : OnDisk(p, n)}
  /\ \A p \in DOMAIN disk : PackageOK(p, n)
  /\ stepConv = "ok" => n = Len(dir.versions)

ReadInv ==
  /\ overview # NoOverview => overview = Overview(dir) /\ ReadOK(dir)
  /\ stepConv \in Converting \cup {"reset", "torn", "ok"} => overview # NoOverview
  /\ stepConv = "idle" => overview = NoOverview

ConverterInv ==
  /\ dir \in ProblemDirs /\ conversions \in 0..MaxConversions
  /\ stepConv \in Converting \cup {"idle", "reset", "ok", "failed", "torn"}
  /\ DOMAIN disk \subseteq PackageNames
  /\ ReadInv
  /\ \E n \in 0..Len(dir.versions) :
       /\ versionsLeft = SubSeq(dir.versions, n + 1, Len(dir.versions))
       /\ stepConv \in Converting \cup {"ok"} => TreeOf(n)
  /\ stepConv = "failed" /\ overview # NoOverview => Root \notin DOMAIN disk

-----------------------------------------------------------------------------
(* Of the problem directory *)

LEMMA DirVersions ==
  ASSUME NEW d \in ProblemDirs
  PROVE  /\ Len(d.versions) \in Nat /\ DOMAIN d.versions = 1..Len(d.versions)
         /\ ToSet(d.versions) = {d.versions[i] : i \in 1..Len(d.versions)}
         /\ d.versions \in Seq(ToSet(d.versions))
         /\ SubSeq(d.versions, Len(d.versions) + 1, Len(d.versions)) = <<>>
<1>1. d.versions \in Seq(ToSet(d.versions)) BY ProblemDirsAssumption
<1>2. Len(d.versions) \in Nat /\ DOMAIN d.versions = 1..Len(d.versions) BY <1>1
<1>3. SubSeq(d.versions, Len(d.versions) + 1, Len(d.versions)) = <<>>
  BY <1>1, <1>2, SubSeqEmpty
<1> QED BY <1>1, <1>2, <1>3 DEF ToSet

(* Every package of a problem has a name that is known. *)
LEMMA PackagesNamed ==
  ASSUME dir \in ProblemDirs
  PROVE  OwnPackages \subseteq PackageNames
<1>1. {subpackage(v) : v \in ToSet(dir.versions)}
        \in {{subpackage(v) : v \in ToSet(d.versions)} : d \in ProblemDirs}
  OBVIOUS
<1>2. RootImports \subseteq
        {<<n>> : n \in {"system_verifier", "tests", "checker", "interactor"}}
  BY DEF RootImports
<1> QED BY <1>1, <1>2 DEF OwnPackages, PackageNames

(* No two packages of a problem have the same name. *)
LEMMA NamesDiffer ==
  /\ Root # Resources
  /\ \A v : /\ subpackage(v) # Root /\ subpackage(v) # Resources
            /\ \A s : subpackage(v) # <<s>>
  /\ \A s : <<s>> # Root /\ <<s>> # Resources
  /\ \A s, t : s # t => <<s>> # <<t>>
  BY DEF Root, Resources, subpackage

(* A problem that can be read has a test. *)
LEMMA Reading ==
  ASSUME NEW d \in ProblemDirs, ReadOK(d)
  PROVE  Overview(d).test_set # {}
<1>1. CASE IsSimple0(d)
  BY <1>1 DEF ReadOK, Simple0TestsOK, Consistent, Overview, TestIds
<1>2. CASE ~IsSimple0(d)
  BY <1>2 DEF ReadOK, PolygonTestsOK, Overview, TestIds
<1> QED BY <1>1, <1>2

-----------------------------------------------------------------------------
(* Of the generator *)

LEMMA Saved ==
  ASSUME NEW name, NEW package, Save(name, package)
  PROVE  /\ DOMAIN disk' = DOMAIN disk \cup {name} /\ disk'[name] = package
         /\ \A p \in DOMAIN disk : p # name => disk'[p] = disk[p]
  BY DEF Save

(* One more package on the disk, of the problem's and complete.              *)
LEMMA TreeGrows ==
  ASSUME NEW n, NEW m, TreeOf(n), dir' = dir,
         NEW name \in OwnPackages, NEW package, Save(name, package),
         package.whole, package.imports \subseteq OwnPackages,
         name \in VersionPackages(m) =>
           \E w \in ToSet(dir.versions) :
             package.version = <<w>> /\ subpackage(w) = name,
         \A p \in OwnPackages : OnDisk(p, m)' <=> OnDisk(p, n) \/ p = name,
         VersionPackages(m) \subseteq VersionPackages(n) \cup {name},
         stepConv' = "ok" => m = Len(dir.versions)
  PROVE  TreeOf(m)'
<1>1. OwnPackages' = OwnPackages /\ VersionPackages(m)' = VersionPackages(m)
  BY DEF OwnPackages, RootImports, VersionPackages
<1>0. /\ DOMAIN disk' = DOMAIN disk \cup {name} /\ disk'[name] = package
      /\ \A p \in DOMAIN disk : p # name => disk'[p] = disk[p]
  BY Saved
<1>2. DOMAIN disk' = {p \in OwnPackages : OnDisk(p, m)'}
  BY <1>0 DEF TreeOf
<1>3. ASSUME NEW p \in DOMAIN disk' PROVE PackageOK(p, m)'
  <2>1. CASE p = name
    BY <2>1, <1>0, <1>1 DEF PackageOK
  <2>2. CASE p # name
    <3>1. p \in DOMAIN disk /\ disk'[p] = disk[p] BY <2>2, <1>0
    <3>2. PackageOK(p, n) BY <3>1 DEF TreeOf
    <3> QED BY <1>1, <2>2, <3>1, <3>2 DEF PackageOK
  <2> QED BY <2>1, <2>2
<1> QED BY <1>1, <1>2, <1>3 DEF TreeOf

(* What a step that packs no version and does not read keeps.                *)
LEMMA ConverterKept ==
  ASSUME ConverterInv, UNCHANGED <<dir, overview, versionsLeft, conversions>>,
         overview # NoOverview, NEW n \in 0..Len(dir.versions),
         versionsLeft = SubSeq(dir.versions, n + 1, Len(dir.versions)),
         stepConv' \in Converting \cup {"ok", "failed", "torn"},
         stepConv' \in Converting \cup {"ok"} => TreeOf(n)',
         stepConv' = "failed" => Root \notin DOMAIN disk',
         DOMAIN disk' \subseteq PackageNames
  PROVE  ConverterInv'
<1>1. PackageNames' = PackageNames BY DEF PackageNames, Root, Resources
<1>2. ReadInv' BY DEF ReadInv, ConverterInv, Converting
<1>3. stepConv' \in Converting' \cup {"idle", "reset", "ok", "failed", "torn"}
  BY DEF Converting
<1> QED BY <1>1, <1>2, <1>3 DEF ConverterInv, Converting

(* A step that puts a package of its own on the disk and goes on.            *)
LEMMA OwnAreNamed ==
  ASSUME dir \in ProblemDirs, NEW name \in OwnPackages, NEW package,
         DOMAIN disk \subseteq PackageNames, Save(name, package)
  PROVE  DOMAIN disk' \subseteq PackageNames
<1>1. DOMAIN disk' = DOMAIN disk \cup {name} BY Saved
<1> QED BY <1>1, PackagesNamed

(* The packages of the verifier and of the tests. *)
LEMMA BaseKeeps ==
  ASSUME ConverterInv, MakeVerifier \/ MakeTests
  PROVE  ConverterInv'
<1> DEFINE name == IF stepConv = "tests" THEN <<"tests">> ELSE <<"system_verifier">>
           package == Package({}, TRUE, <<>>)
<1> PICK n \in 0..Len(dir.versions) :
      /\ versionsLeft = SubSeq(dir.versions, n + 1, Len(dir.versions))
      /\ stepConv \in Converting \cup {"ok"} => TreeOf(n)
  BY DEF ConverterInv
<1>1. /\ UNCHANGED <<dir, overview, versionsLeft, conversions>>
      /\ Save(name, package)
      /\ \/ stepConv = "system_verifier" /\ stepConv' = "tests"
         \/ stepConv = "tests" /\ stepConv' = "checker"
  BY DEF MakeVerifier, MakeTests, Step
<1>2. TreeOf(n) /\ overview # NoOverview /\ dir \in ProblemDirs
      /\ DOMAIN disk \subseteq PackageNames
  BY <1>1 DEF ConverterInv, ReadInv, Converting
<1>3. name \in OwnPackages BY <1>1 DEF OwnPackages, RootImports
<1>4. package.whole /\ package.imports \subseteq OwnPackages BY DEF Package
<1>5. name \notin VersionPackages(n)
  BY NamesDiffer DEF VersionPackages
<1>6. \A p \in OwnPackages : OnDisk(p, n)' <=> OnDisk(p, n) \/ p = name
  BY <1>1, NamesDiffer DEF OnDisk
<1> HIDE DEF name, package
<1>7. TreeOf(n)'
  BY <1>1, <1>2, <1>3, <1>4, <1>5, <1>6, TreeGrows
<1>8. DOMAIN disk' \subseteq PackageNames BY <1>1, <1>2, <1>3, OwnAreNamed
<1> QED BY <1>1, <1>2, <1>7, <1>8, ConverterKept DEF Converting

(* A utility is made if the problem has one; if how to call it is not told   *)
(* the conversion has failed.                                                *)
LEMMA UtilityKeeps ==
  ASSUME ConverterInv, NEW name, NEW u, NEW to, MakeUtility(name, u, to),
         \/ name = "checker" /\ u = Checker(dir) /\ to = "interactor"
         \/ name = "interactor" /\ u = Interactor(dir) /\ to = "statement"
  PROVE  ConverterInv'
<1> PICK n \in 0..Len(dir.versions) :
      /\ versionsLeft = SubSeq(dir.versions, n + 1, Len(dir.versions))
      /\ stepConv \in Converting \cup {"ok"} => TreeOf(n)
  BY DEF ConverterInv
<1>1. /\ UNCHANGED <<dir, overview, versionsLeft, conversions>>
      /\ stepConv = name /\ stepConv' \in {to, "failed"}
      /\ IF u = Absent THEN UNCHANGED disk
                       ELSE Save(<<name>>, Package({}, TRUE, <<>>))
  BY DEF MakeUtility, Step
<1>2. TreeOf(n) /\ overview # NoOverview /\ dir \in ProblemDirs
      /\ DOMAIN disk \subseteq PackageNames
  BY <1>1 DEF ConverterInv, ReadInv, Converting
<1>3. CASE u = Absent
  <2>1. UNCHANGED disk BY <1>1, <1>3
  <2>2. ASSUME stepConv' # "failed" PROVE TreeOf(n)'
    <3>1. \A p \in OwnPackages : OnDisk(p, n)' <=> OnDisk(p, n)
      BY <1>1, <1>3, <2>2, NamesDiffer DEF OnDisk, VersionPackages
    <3>2. OwnPackages' = OwnPackages /\ VersionPackages(n)' = VersionPackages(n)
      BY <1>1 DEF OwnPackages, RootImports, VersionPackages
    <3>3. \A p \in DOMAIN disk : PackageOK(p, n)' <=> PackageOK(p, n)
      BY <1>1, <2>1, <3>2 DEF PackageOK
    <3> QED BY <1>1, <1>2, <2>1, <2>2, <3>1, <3>2, <3>3 DEF TreeOf
  <2>3. Root \notin DOMAIN disk'
    BY <1>1, <1>2, <2>1, NamesDiffer DEF TreeOf, OnDisk, VersionPackages
  <2> QED BY <1>1, <1>2, <2>1, <2>2, <2>3, ConverterKept DEF Converting
<1>4. CASE u # Absent
  <2> DEFINE package == Package({}, TRUE, <<>>)
  <2>1. Save(<<name>>, package) BY <1>1, <1>4
  <2>3. <<name>> \in OwnPackages BY <1>4 DEF OwnPackages, RootImports
  <2>4. package.whole /\ package.imports \subseteq OwnPackages BY DEF Package
  <2>5. <<name>> \notin VersionPackages(n)
    BY NamesDiffer DEF VersionPackages
  <2> HIDE DEF package
  <2>6. ASSUME stepConv' # "failed" PROVE TreeOf(n)'
    <3>1. \A p \in OwnPackages : OnDisk(p, n)' <=> OnDisk(p, n) \/ p = <<name>>
      BY <1>1, <1>4, <2>6, NamesDiffer DEF OnDisk, VersionPackages
    <3>2. stepConv' # "ok" BY <1>1
    <3> QED BY <1>1, <1>2, <2>1, <2>3, <2>4, <2>5, <3>1, <3>2, TreeGrows
  <2>7. Root \notin DOMAIN disk'
    <3>1. Root \notin DOMAIN disk
      BY <1>1, <1>2, NamesDiffer DEF TreeOf, OnDisk, VersionPackages
    <3>2. DOMAIN disk' = DOMAIN disk \cup {<<name>>} BY <2>1, Saved
    <3> QED BY <3>1, <3>2, NamesDiffer
  <2>8. DOMAIN disk' \subseteq PackageNames BY <1>2, <2>1, <2>3, OwnAreNamed
  <2> QED BY <1>1, <1>2, <2>6, <2>7, <2>8, ConverterKept DEF Converting
<1> QED BY <1>3, <1>4

(* The versions that are left are the ones after the n that are packed.      *)
LEMMA OneMorePacked ==
  ASSUME NEW d \in ProblemDirs, NEW n \in 0..Len(d.versions),
         SubSeq(d.versions, n + 1, Len(d.versions)) # <<>>
  PROVE  /\ n + 1 \in 1..Len(d.versions)
         /\ Head(SubSeq(d.versions, n + 1, Len(d.versions))) = d.versions[n + 1]
         /\ Tail(SubSeq(d.versions, n + 1, Len(d.versions))) =
              SubSeq(d.versions, n + 2, Len(d.versions))
<1>1. d.versions \in Seq(ToSet(d.versions)) /\ Len(d.versions) \in Nat
  BY DirVersions
<1>2. n # Len(d.versions) BY DirVersions
<1>3. n + 1 \in 1..Len(d.versions) /\ (n + 1) + 1 = n + 2 BY <1>1, <1>2
<1>4. ASSUME NEW S, NEW s \in Seq(S), NEW m \in 1..Len(s)
      PROVE  /\ Head(SubSeq(s, m, Len(s))) = s[m]
             /\ Tail(SubSeq(s, m, Len(s))) = SubSeq(s, m + 1, Len(s))
  <2>1. Len(s) \in m..Len(s) BY <1>4
  <2> QED BY <2>1, HeadTailOfSubSeq
<1>5. /\ Head(SubSeq(d.versions, n + 1, Len(d.versions))) = d.versions[n + 1]
      /\ Tail(SubSeq(d.versions, n + 1, Len(d.versions))) =
           SubSeq(d.versions, (n + 1) + 1, Len(d.versions))
  BY <1>1, <1>3, <1>4
<1> QED BY <1>3, <1>5

(* The package of resources. *)
LEMMA ResourcesKeep ==
  ASSUME ConverterInv, MakeResources
  PROVE  ConverterInv'
<1> DEFINE package == Package({}, TRUE, <<>>)
<1>0. PICK n \in 0..Len(dir.versions) :
      /\ versionsLeft = SubSeq(dir.versions, n + 1, Len(dir.versions))
      /\ stepConv \in Converting \cup {"ok"} => TreeOf(n)
  BY DEF ConverterInv
<1>1. /\ UNCHANGED <<dir, overview, conversions>>
      /\ stepConv = "statement" /\ stepConv' = "versions"
      /\ Save(Resources, package) /\ versionsLeft' = dir.versions
  BY DEF MakeResources, Step
<1>2. TreeOf(n) /\ overview # NoOverview /\ dir \in ProblemDirs
      /\ DOMAIN disk \subseteq PackageNames
  BY <1>0, <1>1 DEF ConverterInv, ReadInv, Converting
<1>3. Resources \in OwnPackages BY DEF OwnPackages
<1>4. package.whole /\ package.imports \subseteq OwnPackages BY DEF Package
<1>5. VersionPackages(0) = {} BY DEF VersionPackages
<1>6. \A p \in OwnPackages : OnDisk(p, 0)' <=> OnDisk(p, n) \/ p = Resources
  <2>1. VersionPackages(0)' = {} BY DEF VersionPackages
  <2> QED BY <1>1, <2>1, NamesDiffer DEF OnDisk, Root, Resources
<1> HIDE DEF package
<1>7. TreeOf(0)' BY <1>1, <1>2, <1>3, <1>4, <1>5, <1>6, TreeGrows
<1>8. DOMAIN disk' \subseteq PackageNames BY <1>1, <1>2, <1>3, OwnAreNamed
<1>9. versionsLeft' = SubSeq(dir'.versions, 0 + 1, Len(dir'.versions))
      /\ 0 \in 0..Len(dir'.versions)
  <2>1. dir.versions \in Seq(ToSet(dir.versions)) /\ Len(dir.versions) \in Nat
    BY <1>2, DirVersions
  <2> QED BY <1>1, <2>1, SubSeqFull
<1>10. ReadInv' /\ PackageNames' = PackageNames
  BY <1>1 DEF ConverterInv, ReadInv, Converting, PackageNames, Root, Resources
<1> QED BY <1>1, <1>7, <1>8, <1>9, <1>10 DEF ConverterInv, Converting

(* The package of a version of the statement. *)
LEMMA VersionKeeps ==
  ASSUME ConverterInv, NEW whole \in BOOLEAN, MakeVersion(whole)
  PROVE  ConverterInv'
<1> DEFINE v == Head(versionsLeft)
           package == Package(
              IF v.builder = "pdflatex" THEN {} ELSE {Resources}, whole, <<v>>)
<1>0. PICK n \in 0..Len(dir.versions) :
      /\ versionsLeft = SubSeq(dir.versions, n + 1, Len(dir.versions))
      /\ stepConv \in Converting \cup {"ok"} => TreeOf(n)
  BY DEF ConverterInv
<1>1. /\ UNCHANGED <<dir, overview, conversions>>
      /\ stepConv = "versions" /\ versionsLeft # <<>>
      /\ stepConv' = IF whole THEN "versions" ELSE "failed"
      /\ Save(subpackage(v), package) /\ versionsLeft' = Tail(versionsLeft)
  BY DEF MakeVersion, Step
<1>2. TreeOf(n) /\ overview # NoOverview /\ dir \in ProblemDirs
      /\ DOMAIN disk \subseteq PackageNames
  BY <1>0, <1>1 DEF ConverterInv, ReadInv, Converting
<1>3. /\ n + 1 \in 1..Len(dir.versions) /\ v = dir.versions[n + 1]
      /\ versionsLeft' = SubSeq(dir.versions, (n + 1) + 1, Len(dir.versions))
  <2>1. (n + 1) + 1 = n + 2 OBVIOUS
  <2> QED BY <1>0, <1>1, <1>2, <2>1, OneMorePacked
<1>4. v \in ToSet(dir.versions) BY <1>2, <1>3, DirVersions
<1>5. subpackage(v) \in OwnPackages BY <1>4 DEF OwnPackages
<1>6. DOMAIN disk' \subseteq PackageNames BY <1>1, <1>2, <1>5, OwnAreNamed
<1>7. VersionPackages(n + 1) = VersionPackages(n) \cup {subpackage(v)}
  <2>1. 1..(n + 1) = (1..n) \cup {n + 1} OBVIOUS
  <2> QED BY <1>3, <2>1 DEF VersionPackages
<1>8. Root \notin DOMAIN disk'
  <2>1. Root \notin DOMAIN disk
    BY <1>1, <1>2, NamesDiffer DEF TreeOf, OnDisk, VersionPackages
  <2>2. DOMAIN disk' = DOMAIN disk \cup {subpackage(v)} BY <1>1, Saved
  <2> QED BY <2>1, <2>2, NamesDiffer
<1>9. ASSUME whole PROVE TreeOf(n + 1)'
  <2>1. package.whole /\ package.imports \subseteq OwnPackages
        /\ package.version = <<v>>
    BY <1>9 DEF Package, OwnPackages
  <2> HIDE DEF v, package
  <2>2. VersionPackages(n + 1)' = VersionPackages(n + 1)
    BY <1>1 DEF VersionPackages
  <2>3. \A p \in OwnPackages :
          OnDisk(p, n + 1)' <=> OnDisk(p, n) \/ p = subpackage(v)
    BY <1>1, <1>7, <1>9, <2>2 DEF OnDisk
  <2>4. stepConv' # "ok" BY <1>1
  <2>5. \E w \in ToSet(dir.versions) :
          package.version = <<w>> /\ subpackage(w) = subpackage(v)
    BY <1>4, <2>1
  <2>6. dir' = dir /\ VersionPackages(n + 1) \subseteq VersionPackages(n) \cup {subpackage(v)}
    BY <1>1, <1>7
  <2> QED BY <1>1, <1>2, <1>5, <2>1, <2>3, <2>4, <2>5, <2>6, TreeGrows
<1>10. ReadInv' /\ PackageNames' = PackageNames
  BY <1>1 DEF ConverterInv, ReadInv, Converting, PackageNames, Root, Resources
<1>11. n + 1 \in 0..Len(dir'.versions) /\ dir' = dir BY <1>1, <1>3
<1> QED BY <1>1, <1>2, <1>3, <1>6, <1>8, <1>9, <1>10, <1>11 DEF ConverterInv, Converting

(* The root, after all it imports. *)
LEMMA RootKeeps ==
  ASSUME ConverterInv, SaveRoot
  PROVE  ConverterInv'
<1> DEFINE package == Package(RootImports, TRUE, <<>>)
<1>0. PICK n \in 0..Len(dir.versions) :
      /\ versionsLeft = SubSeq(dir.versions, n + 1, Len(dir.versions))
      /\ stepConv \in Converting \cup {"ok"} => TreeOf(n)
  BY DEF ConverterInv
<1>1. /\ UNCHANGED <<dir, overview, versionsLeft, conversions>>
      /\ stepConv = "versions" /\ stepConv' = "ok"
      /\ Save(Root, package) /\ versionsLeft = <<>>
  BY DEF SaveRoot, Step
<1>2. TreeOf(n) /\ overview # NoOverview /\ dir \in ProblemDirs
      /\ DOMAIN disk \subseteq PackageNames
  BY <1>0, <1>1 DEF ConverterInv, ReadInv, Converting
<1>3. n = Len(dir.versions)
  <2>1. dir.versions \in Seq(ToSet(dir.versions)) /\ Len(dir.versions) \in Nat
    BY <1>2, DirVersions
  <2>2. CASE n < Len(dir.versions)
    <3>1. ASSUME NEW S, NEW s \in Seq(S), NEW m \in 1..Len(s)
          PROVE  SubSeq(s, m, Len(s)) # <<>>
      <4>1. m \in Int /\ Len(s) \in Int /\ m <= Len(s) BY <3>1
      <4>2. \A i \in m..Len(s) : s[i] \in S BY <3>1
      <4>3. Len(SubSeq(s, m, Len(s))) = Len(s) - m + 1
        BY <4>1, <4>2, SubSeqProperties
      <4>4. Len(SubSeq(s, m, Len(s))) # 0 BY <4>1, <4>3
      <4> QED BY <4>4
    <3>2. n + 1 \in 1..Len(dir.versions) BY <2>1, <2>2
    <3> QED BY <1>0, <1>1, <2>1, <3>1, <3>2
  <2> QED BY <2>1, <2>2
<1>4. Root \in OwnPackages /\ RootImports \subseteq OwnPackages BY DEF OwnPackages
<1>5. package.whole /\ package.imports \subseteq OwnPackages BY <1>4 DEF Package
<1>6. Root \notin VersionPackages(n) BY NamesDiffer DEF VersionPackages
<1>7. \A p \in OwnPackages : OnDisk(p, n)' <=> OnDisk(p, n) \/ p = Root
  <2>1. VersionPackages(n)' = VersionPackages(n) BY <1>1 DEF VersionPackages
  <2> QED BY <1>1, <2>1, NamesDiffer DEF OnDisk, Root, Resources
<1> HIDE DEF package
<1>8. TreeOf(n)' BY <1>1, <1>2, <1>3, <1>4, <1>5, <1>6, <1>7, TreeGrows
<1>9. DOMAIN disk' \subseteq PackageNames BY <1>1, <1>2, <1>4, OwnAreNamed
<1> QED BY <1>0, <1>1, <1>2, <1>8, <1>9, ConverterKept

(* A conversion that throws promises nothing. *)
LEMMA ThrowingKeeps ==
  ASSUME ConverterInv, Throw
  PROVE  ConverterInv'
<1>0. PICK n \in 0..Len(dir.versions) :
      /\ versionsLeft = SubSeq(dir.versions, n + 1, Len(dir.versions))
      /\ stepConv \in Converting \cup {"ok"} => TreeOf(n)
  BY DEF ConverterInv
<1>1. UNCHANGED <<dir, overview, versionsLeft, conversions>>
      /\ DOMAIN disk \subseteq PackageNames
  BY DEF ConverterInv, Throw
<1>2. CASE stepConv \in Converting /\ stepConv' = "failed" /\ UNCHANGED disk
  <2>1. Root \notin DOMAIN disk
    BY <1>0, <1>2, NamesDiffer DEF TreeOf, OnDisk, VersionPackages, Converting
  <2>2. overview # NoOverview BY <1>2 DEF ConverterInv, ReadInv
  <2> QED BY <1>0, <1>1, <1>2, <2>1, <2>2, ConverterKept DEF Converting
<1>3. CASE /\ stepConv = "reset" /\ stepConv' = "torn"
           /\ \E left \in SUBSET DOMAIN disk : disk' = [p \in left |-> disk[p]]
  <2>1. DOMAIN disk' \subseteq PackageNames BY <1>1, <1>3
  <2>2. overview # NoOverview BY <1>3 DEF ConverterInv, ReadInv
  <2> QED BY <1>0, <1>1, <1>3, <2>1, <2>2, ConverterKept DEF Converting
<1> QED BY <1>2, <1>3 DEF Throw, Step, ConverterInv

(* The directory is emptied for a conversion. *)
LEMMA ResetKeeps ==
  ASSUME ConverterInv, ResetDir
  PROVE  ConverterInv'
<1>0. PICK n \in 0..Len(dir.versions) :
        versionsLeft = SubSeq(dir.versions, n + 1, Len(dir.versions))
  BY DEF ConverterInv
<1>1. /\ UNCHANGED <<dir, overview, versionsLeft, conversions>>
      /\ stepConv = "reset" /\ stepConv' = "system_verifier" /\ disk' = <<>>
  BY DEF ResetDir, Step, EmptyDisk
<1>2. DOMAIN disk' = {} BY <1>1
<1>3. TreeOf(n)'
  <2>1. \A p : ~OnDisk(p, n)' BY <1>1 DEF OnDisk
  <2> QED BY <1>1, <1>2, <2>1 DEF TreeOf
<1>4. overview # NoOverview BY <1>1 DEF ConverterInv, ReadInv
<1> QED BY <1>0, <1>1, <1>2, <1>3, <1>4, ConverterKept DEF Converting

(* A conversion begins. *)
LEMMA ConvertKeeps ==
  ASSUME ConverterInv, NEW d \in ProblemDirs, Convert(d)
  PROVE  ConverterInv'
<1>1. /\ dir' = d /\ conversions' = conversions + 1 /\ conversions < MaxConversions
      /\ versionsLeft' = <<>> /\ disk' = disk
      /\ IF ReadOK(d) THEN stepConv' = "reset" /\ overview' = Overview(d)
                      ELSE stepConv' = "failed" /\ overview' = NoOverview
  BY DEF Convert
<1>2. conversions' \in 0..MaxConversions
  BY <1>1, ProblemDirsAssumption DEF ConverterInv
<1>3. PackageNames' = PackageNames BY DEF PackageNames, Root, Resources
<1>4. /\ Len(d.versions) \in 0..Len(d.versions)
      /\ versionsLeft' = SubSeq(d.versions, Len(d.versions) + 1, Len(d.versions))
  <2>1. /\ Len(d.versions) \in Nat
        /\ SubSeq(d.versions, Len(d.versions) + 1, Len(d.versions)) = <<>>
    BY DirVersions
  <2>2. Len(d.versions) \in 0..Len(d.versions) BY <2>1
  <2> QED BY <1>1, <2>1, <2>2
<1>5. ReadInv' /\ stepConv' \in {"reset", "failed"}
      /\ (stepConv' = "failed" => overview' = NoOverview)
  BY <1>1, OverviewAssumption DEF ReadInv, Converting
<1> QED BY <1>1, <1>2, <1>3, <1>4, <1>5 DEF ConverterInv, Converting

(* The invariant holds at first. *)
LEMMA ConverterInvInit == ConverterInit => ConverterInv
<1> SUFFICES ASSUME ConverterInit PROVE ConverterInv OBVIOUS
<1>1. DOMAIN disk = {} BY DEF ConverterInit, EmptyDisk
<1>2. /\ Len(dir.versions) \in 0..Len(dir.versions)
      /\ versionsLeft = SubSeq(dir.versions, Len(dir.versions) + 1, Len(dir.versions))
  <2>1. /\ Len(dir.versions) \in Nat
        /\ SubSeq(dir.versions, Len(dir.versions) + 1, Len(dir.versions)) = <<>>
    BY DirVersions DEF ConverterInit
  <2>2. Len(dir.versions) \in 0..Len(dir.versions) BY <2>1
  <2> QED BY <2>1, <2>2 DEF ConverterInit
<1>3. conversions \in 0..MaxConversions
  BY ProblemDirsAssumption DEF ConverterInit
<1> QED BY <1>1, <1>2, <1>3 DEF ConverterInit, ConverterInv, ReadInv, Converting

(* The invariant is kept by every step. *)
LEMMA ConverterInvNext ==
  ConverterInv /\ [ConverterNext]_converterVars => ConverterInv'
<1> SUFFICES ASSUME ConverterInv, [ConverterNext]_converterVars PROVE ConverterInv'
  OBVIOUS
<1>1. CASE UNCHANGED converterVars
  <2>1. UNCHANGED <<dir, overview, stepConv, versionsLeft, disk, conversions>>
    BY <1>1 DEF converterVars
  <2>2. OwnPackages' = OwnPackages /\ PackageNames' = PackageNames
    BY <2>1 DEF OwnPackages, RootImports, PackageNames, Root, Resources
  <2>3. ASSUME NEW n PROVE TreeOf(n)' <=> TreeOf(n)
    <3>1. VersionPackages(n)' = VersionPackages(n) BY <2>1 DEF VersionPackages
    <3>2. ASSUME NEW p PROVE /\ OnDisk(p, n)' <=> OnDisk(p, n)
                             /\ PackageOK(p, n)' <=> PackageOK(p, n)
      BY <2>1, <2>2, <3>1 DEF OnDisk, PackageOK, Resources, Root
    <3> QED BY <2>1, <2>2, <3>2 DEF TreeOf
  <2>4. ReadInv' BY <2>1 DEF ReadInv, ConverterInv, Converting
  <2> QED BY <2>1, <2>2, <2>3, <2>4 DEF ConverterInv, Converting, Root
<1>2. CASE ResetDir BY <1>2, ResetKeeps
<1>3. CASE MakeVerifier \/ MakeTests BY <1>3, BaseKeeps
<1>4. CASE MakeUtility("checker", Checker(dir), "interactor") BY <1>4, UtilityKeeps
<1>5. CASE MakeUtility("interactor", Interactor(dir), "statement")
  BY <1>5, UtilityKeeps
<1>6. CASE MakeResources BY <1>6, ResourcesKeep
<1>7. CASE MakeVersion(TRUE) \/ MakeVersion(FALSE) BY <1>7, VersionKeeps
<1>8. CASE SaveRoot BY <1>8, RootKeeps
<1>9. CASE Throw BY <1>9, ThrowingKeeps
<1>10. CASE \E d \in ProblemDirs : Convert(d) BY <1>10, ConvertKeeps
<1> QED BY <1>1, <1>2, <1>3, <1>4, <1>5, <1>6, <1>7, <1>8, <1>9, <1>10
  DEF ConverterNext, ConverterStep

(* The inductive invariant of a conversion, for any problem directories: at  *)
(* each step the packages on disk are those of the steps before, complete.   *)
(* (internal0.cpp:129)                                                       *)
THEOREM ConverterInvariant == ConverterSpec => []ConverterInv
  BY ConverterInvInit, ConverterInvNext, PTL DEF ConverterSpec

-----------------------------------------------------------------------------
(* What the generator has written *)

LEMMA WholeTree == ConverterInv => RootIsComplete
<1> SUFFICES ASSUME ConverterInv, Root \in DOMAIN disk, overview # NoOverview,
                    stepConv \notin {"reset", "torn"}
             PROVE  /\ DOMAIN disk = OwnPackages
                    /\ \A p \in OwnPackages :
                         disk[p].whole /\ disk[p].imports \subseteq OwnPackages
                    /\ \A v \in ToSet(dir.versions) :
                         \E w \in ToSet(dir.versions) :
                           /\ disk[subpackage(v)].version = <<w>>
                           /\ subpackage(w) = subpackage(v)
  BY DEF RootIsComplete
<1>1. PICK n \in 0..Len(dir.versions) :
        stepConv \in Converting \cup {"ok"} => TreeOf(n)
  BY DEF ConverterInv
<1>2. stepConv \notin Converting
  <2> SUFFICES ASSUME stepConv \in Converting PROVE FALSE OBVIOUS
  <2>1. OnDisk(Root, n) BY <1>1 DEF TreeOf
  <2> QED BY <2>1, NamesDiffer DEF OnDisk, VersionPackages, Converting
<1>3. stepConv = "ok" BY <1>2 DEF ConverterInv, ReadInv
<1>4. TreeOf(n) /\ n = Len(dir.versions) /\ dir \in ProblemDirs
  BY <1>1, <1>3 DEF TreeOf, ConverterInv
<1>5. {subpackage(v) : v \in ToSet(dir.versions)} = VersionPackages(n)
  <2>1. ToSet(dir.versions) = {dir.versions[i] : i \in 1..n} BY <1>4, DirVersions
  <2> QED BY <2>1 DEF VersionPackages
<1>6. \A p \in OwnPackages : OnDisk(p, n)
  BY <1>3, <1>5 DEF OwnPackages, RootImports, OnDisk
<1>7. DOMAIN disk = OwnPackages BY <1>4, <1>6 DEF TreeOf
<1>8. \A p \in OwnPackages : PackageOK(p, n) BY <1>4, <1>7 DEF TreeOf
<1>9. ASSUME NEW v \in ToSet(dir.versions)
      PROVE  subpackage(v) \in VersionPackages(n) /\ subpackage(v) \in OwnPackages
  BY <1>5 DEF OwnPackages
<1> QED BY <1>7, <1>8, <1>9 DEF PackageOK

(* A driver's groups ask for every test. *)

LEMMA NamesOfGroups ==
  ASSUME NEW d \in ProblemDirs
  PROVE  LET K == Cardinality(GroupPlaces(d))
         IN  /\ K \in Nat /\ Len(GroupNames(d)) = K
             /\ \A i \in 1..K : GroupNames(d)[i] \in DOMAIN d.groups \cup d.scored
             /\ \A g \in DOMAIN d.groups : \E i \in 1..K : GroupNames(d)[i] = g
<1> DEFINE P == GroupPlaces(d)  K == Cardinality(P)
<1>1. /\ GroupOrder \in Seq(ToSet(GroupOrder))
      /\ DOMAIN d.groups \cup d.scored \subseteq ToSet(GroupOrder)
  BY ProblemDirsAssumption
<1>2. DOMAIN GroupOrder = 1..Len(GroupOrder) /\ Len(GroupOrder) \in Nat BY <1>1
<1>3. P \in SUBSET Nat /\ P \in SUBSET (1..Len(GroupOrder))
  BY <1>2 DEF GroupPlaces
<1>4. IsFiniteSet(P)
  <2>1. IsFiniteSet(1..Len(GroupOrder)) BY <1>2, FS_Interval
  <2> QED BY <1>3, <2>1, FS_Subset
<1>5. K \in Nat BY <1>4, FS_CardinalityType
<1>6. \A i \in 1..K : GroupNames(d)[i] = GroupOrder[Nth(P, i)] BY DEF GroupNames
<1>7. Len(GroupNames(d)) = K BY <1>5 DEF GroupNames
<1>8. ASSUME NEW i \in 1..K
      PROVE  GroupNames(d)[i] \in DOMAIN d.groups \cup d.scored
  <2>1. Nth(P, i) \in P BY <1>3, <1>4, NthFound
  <2> QED BY <1>6, <2>1 DEF GroupPlaces
<1>9. ASSUME NEW g \in DOMAIN d.groups
      PROVE  \E i \in 1..K : GroupNames(d)[i] = g
  <2>1. PICK k \in DOMAIN GroupOrder : GroupOrder[k] = g BY <1>1 DEF ToSet
  <2>2. k \in P BY <2>1 DEF GroupPlaces
  <2>3. Rank(P, k) \in 1..K BY <1>3, <1>4, <2>2, RankBounded
  <2>4. Nth(P, Rank(P, k)) = k BY <1>3, <1>4, <2>2, NthOfRank
  <2> QED BY <1>6, <2>1, <2>3, <2>4
<1> QED BY <1>5, <1>7, <1>8, <1>9

(* Groups of the simple0 format ask for every test. *)
LEMMA Simple0AllTested ==
  ASSUME NEW d \in ProblemDirs
  PROVE  LET groups == Simple0Groups(d)
             last == Len(groups)
         IN  /\ TestIds(d.tests) \subseteq UNION {groups[i].query : i \in 1..last}
             /\ \A i \in 1..last - 1 : groups[i].query \cap groups[last].query = {}
             /\ \A i \in 1..last :
                  groups[i].dependency # NoGroup =>
                    \/ \E j \in 1..i - 1 : groups[j].id = groups[i].dependency
                    \/ groups[i].dependency \in d.scored \ DOMAIN d.groups
<1> DEFINE groups == Simple0Groups(d)
           names == GroupNames(d)
           K == Cardinality(GroupPlaces(d))
           Settings(i) == IF i <= K THEN GroupSettings(d, names[i]) ELSE default_group(d)
<1>1. /\ K \in Nat /\ Len(names) = K
      /\ \A i \in 1..K : names[i] \in DOMAIN d.groups \cup d.scored
      /\ \A g \in DOMAIN d.groups : \E i \in 1..K : names[i] = g
  BY NamesOfGroups
<1>2. groups = [i \in 1..K + 1 |->
                 Depending(Settings(i), IF i = 1 THEN NoGroup ELSE names[i - 1])]
  <2>1. groups = [i \in 1..Len(names) + 1 |->
                   Depending(IF i <= Len(names) THEN GroupSettings(d, names[i])
                                                ELSE default_group(d),
                             IF i = 1 THEN NoGroup ELSE names[i - 1])]
    BY DEF Simple0Groups
  <2>2. Len(names) = K BY <1>1
  <2> HIDE DEF groups, names, K
  <2> QED BY <2>1, <2>2
<1>3. Len(groups) = K + 1 BY <1>1, <1>2
<1>4. \A i \in 1..K + 1 :
        /\ groups[i].id = Settings(i).id /\ groups[i].query = Settings(i).query
        /\ groups[i].dependency = IF i = 1 THEN NoGroup ELSE names[i - 1]
  BY <1>2 DEF Depending
<1> HIDE DEF groups, names, K
<1>5. \A i \in 1..K : names[i] \in DOMAIN d.groups =>
        groups[i].id = names[i] /\ groups[i].query = d.groups[names[i]]
  <2> SUFFICES ASSUME NEW i \in 1..K, names[i] \in DOMAIN d.groups
               PROVE  groups[i].id = names[i] /\ groups[i].query = d.groups[names[i]]
    OBVIOUS
  <2>1. i <= K /\ i \in 1..K + 1 BY <1>1
  <2>2. Settings(i) = GroupSettings(d, names[i]) BY <2>1
  <2>3. /\ GroupSettings(d, names[i]).id = names[i]
        /\ GroupSettings(d, names[i]).query = d.groups[names[i]]
    BY DEF GroupSettings
  <2> QED BY <1>4, <2>1, <2>2, <2>3
<1>6. \A i \in 1..K : names[i] \notin DOMAIN d.groups => groups[i].query = {}
  <2> SUFFICES ASSUME NEW i \in 1..K, names[i] \notin DOMAIN d.groups
               PROVE  groups[i].query = {}
    OBVIOUS
  <2>1. i <= K /\ i \in 1..K + 1 BY <1>1
  <2>2. Settings(i) = GroupSettings(d, names[i]) BY <2>1
  <2>3. GroupSettings(d, names[i]).query = {} BY DEF GroupSettings
  <2> QED BY <1>4, <2>1, <2>2, <2>3
<1>7. groups[K + 1].query =
        TestIds(d.tests) \ UNION {d.groups[g] : g \in DOMAIN d.groups}
  <2>1. ~(K + 1 <= K) /\ K + 1 \in 1..K + 1 BY <1>1
  <2>2. Settings(K + 1) = default_group(d) BY <2>1
  <2>3. default_group(d).query =
          TestIds(d.tests) \ UNION {d.groups[g] : g \in DOMAIN d.groups}
    BY DEF default_group
  <2> QED BY <1>4, <2>1, <2>2, <2>3
<1> HIDE DEF Settings
<1>8. ASSUME NEW t \in TestIds(d.tests)
      PROVE  \E i \in 1..K + 1 : t \in groups[i].query
  <2>1. CASE \E g \in DOMAIN d.groups : t \in d.groups[g]
    <3>1. PICK g \in DOMAIN d.groups : t \in d.groups[g] BY <2>1
    <3>2. PICK i \in 1..K : names[i] = g BY <1>1
    <3>3. i \in 1..K + 1 BY <1>1
    <3> QED BY <1>5, <3>1, <3>2, <3>3
  <2>2. CASE ~\E g \in DOMAIN d.groups : t \in d.groups[g]
    <3>1. K + 1 \in 1..K + 1 BY <1>1
    <3> QED BY <1>7, <2>2, <3>1
  <2> QED BY <2>1, <2>2
<1>9. ASSUME NEW i \in 1..K PROVE groups[i].query \cap groups[K + 1].query = {}
  BY <1>5, <1>6, <1>7
<1>10. ASSUME NEW i \in 1..K + 1, groups[i].dependency # NoGroup
       PROVE  \/ \E j \in 1..i - 1 : groups[j].id = groups[i].dependency
              \/ groups[i].dependency \in d.scored \ DOMAIN d.groups
  <2>1. i # 1 /\ groups[i].dependency = names[i - 1] BY <1>4, <1>10
  <2>2. i - 1 \in 1..K /\ i - 1 \in 1..i - 1 BY <1>1, <2>1
  <2> QED BY <1>1, <1>5, <2>1, <2>2
<1>11. (K + 1) - 1 = K BY <1>1
<1> QED BY <1>3, <1>8, <1>9, <1>10, <1>11 DEF groups

(* So do those of the polygon format. *)
LEMMA PolygonAllTested ==
  ASSUME NEW d \in ProblemDirs
  PROVE  LET groups == PolygonGroups(d)
         IN  /\ TestIds(PolygonTests(d)) \subseteq
                  UNION {groups[i].query : i \in 1..Len(groups)}
             /\ \A i \in 1..Len(groups) : groups[i].dependency = NoGroup
<1> DEFINE L == Len(d.testsets)
<1>1. L \in Nat /\ ToSet(d.testsets) = {d.testsets[i] : i \in 1..L}
  BY ProblemDirsAssumption DEF ToSet
<1>2. Len(PolygonGroups(d)) = L BY <1>1 DEF PolygonGroups
<1>3. \A i \in 1..L : /\ PolygonGroups(d)[i].query = d.testsets[i].ids
                      /\ PolygonGroups(d)[i].dependency = NoGroup
  BY DEF PolygonGroups
<1>4. ASSUME NEW t \in TestIds(PolygonTests(d))
      PROVE  \E i \in 1..L : t \in d.testsets[i].ids
  <2>1. PICK x \in PolygonTests(d) : t = x[1] BY DEF TestIds
  <2>2. PICK s \in ToSet(d.testsets) :
          x \in {<<id, data>> : id \in s.ids, data \in {"in", "out"}}
    BY <2>1 DEF PolygonTests
  <2>3. t \in s.ids BY <2>1, <2>2
  <2> QED BY <1>1, <2>3
<1> QED BY <1>2, <1>3, <1>4

(* The groups of any conversion ask for every test. *)
LEMMA GroupsAskForAll == ConverterInv => TestsAllTested
<1> SUFFICES ASSUME ConverterInv, overview # NoOverview PROVE TestsAllTested
  BY DEF TestsAllTested
<1>1. dir \in ProblemDirs /\ overview = Overview(dir) BY DEF ConverterInv, ReadInv
<1>2. CASE IsSimple0(dir)
  <2>1. /\ overview.test_set = TestIds(dir.tests)
        /\ overview.groups = Simple0Groups(dir)
    BY <1>1, <1>2 DEF Overview
  <2> QED BY <1>1, <2>1, Simple0AllTested DEF TestsAllTested
<1>3. CASE ~IsSimple0(dir)
  <2>1. /\ overview.test_set = TestIds(PolygonTests(dir))
        /\ overview.groups = PolygonGroups(dir)
    BY <1>1, <1>3 DEF Overview
  <2> QED BY <1>1, <1>3, <2>1, PolygonAllTested DEF TestsAllTested
<1> QED BY <1>2, <1>3

(* A package that conversion ends with has everything it imports, complete,  *)
(* and each test of the problem is in one group that is asked for.           *)
(* (internal0.cpp:129, driver.cpp:223)                                       *)
THEOREM ConversionCorrect == ConverterSpec => []ProblemConverted
  BY ConverterInvariant, WholeTree, GroupsAskForAll, PTL DEF ProblemConverted

(* The invariant implies the types. *)
LEMMA ConverterTyped == ConverterInv => ConverterTypeOK
  BY Reading DEF ConverterInv, ConverterTypeOK, ReadInv, Converting

-----------------------------------------------------------------------------
(* The services together *)

ServicesInv ==
  service \in Services /\ FrontInv /\ ConverterInv /\ ClientInv /\ ClientTyped

(* All the services start right, *)
LEMMA ServicesStart == ServicesInit => ServicesInv
  BY FrontInvInit, ConverterInvInit, ClientStarts, ClientTypedInit
  DEF ServicesInit, ServicesInv

(* go on right, *)
LEMMA ServicesContinue == ServicesInv /\ [ServicesNext]_allVars => ServicesInv'
<1> SUFFICES ASSUME ServicesInv, [ServicesNext]_allVars PROVE ServicesInv'
  OBVIOUS
<1>1. /\ [FrontNext]_frontVars /\ [ConverterNext]_converterVars
      /\ [ClientNext]_clientVars /\ service' = service
  BY DEF ServicesNext, Archive_, Problems_, Client_, ClientNext, allVars
<1>2. FrontInv' BY <1>1, FrontInvNext DEF ServicesInv
<1>3. ConverterInv' BY <1>1, ConverterInvNext DEF ServicesInv
<1>4. ClientInv' /\ ClientTyped'
  BY <1>1, ClientContinues, ClientTypedNext DEF ServicesInv
<1> QED BY <1>1, <1>2, <1>3, <1>4 DEF ServicesInv, Services

(* and stay right. *)
LEMMA ServicesInvariant == ServicesSpec => []ServicesInv
  BY ServicesStart, ServicesContinue, PTL DEF ServicesSpec

(* Every variable of the front end, the importer and the client keeps its    *)
(* type, as the run checks it. (archive_service.cpp:31, internal0.cpp:129)   *)
THEOREM ServicesTyped == ServicesSpec => []ServicesTypeOK
<1>1. ServicesInv => ServicesTypeOK
  BY ConverterTyped, ClientTypes DEF ServicesInv, ServicesTypeOK, FrontInv, FrontTyped
<1> QED BY <1>1, ServicesInvariant, PTL

=============================================================================
