----------------------------- MODULE HttpClient -----------------------------
(***************************************************************************)
(* bunsan::curl::http: a client that parses the heads of the responses,    *)
(* which libcurl reports line by line, over all the transfers of one       *)
(* client: redirects and earlier requests leave their heads, too.          *)
(***************************************************************************)
EXTENDS Naturals, Sequences, Ranked

CONSTANTS
  Transfers,     \* what servers may answer a request with: sequences of lines
  make_name,     \* per raw name of a header: its lower-case form
  MaxPerforms,   \* bound: requests
  NoStatus

(* The lines that servers send: the headers among them have a name. *)
Lines == UNION {{lines[k] : k \in DOMAIN lines} : lines \in Transfers}
ASSUME TransfersAssumption ==
  /\ \A lines \in Transfers : lines \in Seq(Lines)
  /\ \A line \in Lines : line.kind = "header" => line.raw \in DOMAIN make_name
  /\ MaxPerforms \in Nat

VARIABLES
  m_responses,         \* the heads parsed: status and headers
  transfer,            \* the lines to come
  heard,               \* history: the lines of this transfer that were parsed
  doing,               \* idle, perform, or check_perform
  reply,             \* of the last request
  performs

httpVars == <<m_responses, transfer, heard, doing, reply, performs>>

Names_ == {make_name[raw] : raw \in DOMAIN make_name}
NoHeaders == [name \in Names_ |-> <<>>]
NoReply == [done |-> "none", status |-> NoStatus]

HttpInit ==
  /\ m_responses = <<>> /\ transfer = <<>> /\ heard = <<>>
  /\ doing = "idle" /\ reply = NoReply /\ performs = 0

(* One header per name, with all the values in the order they came. *)
merge_insert(headers, name, values) == [headers EXCEPT ![name] = @ \o values]

(* perform() and check_perform(): the server answers. *)
Perform(how, lines) ==
  /\ doing = "idle" /\ performs < MaxPerforms
  /\ performs' = performs + 1 /\ doing' = how
  /\ transfer' = lines /\ heard' = <<>> /\ reply' = NoReply
  /\ UNCHANGED m_responses

(* A line that cannot be parsed, or a header before any status line, throws, *)
(* which tells libcurl to fail; and a transfer may fail at any time.         *)
Parses(line) ==
  \/ line.kind \in {"status", "blank"}
  \/ line.kind = "header" /\ m_responses # <<>>

(* Mutant of parse: the heads are kept with the newest first. *)
ParseToFront(line) ==
  m_responses' =
    CASE line.kind = "status" ->
           <<[status |-> line.status, headers |-> NoHeaders]>> \o m_responses
      [] line.kind = "header" ->
           [m_responses EXCEPT ![Len(m_responses)].headers =
              merge_insert(@, make_name[line.raw], <<line.value>>)]
      [] OTHER -> m_responses

parse(line) ==
  m_responses' =
    CASE line.kind = "status" ->
           Append(m_responses, [status |-> line.status, headers |-> NoHeaders])
      [] line.kind = "header" ->
           [m_responses EXCEPT ![Len(m_responses)].headers =
              merge_insert(@, make_name[line.raw], <<line.value>>)]
      [] OTHER -> m_responses

parse_header_callback ==
  /\ doing # "idle" /\ transfer # <<>> /\ Parses(Head(transfer))
  /\ parse(Head(transfer))
  /\ transfer' = Tail(transfer) /\ heard' = Append(heard, Head(transfer))
  /\ UNCHANGED <<doing, reply, performs>>

Fails ==
  /\ doing # "idle"
  /\ doing' = "idle" /\ transfer' = <<>>
  /\ reply' = [done |-> "easy_error", status |-> NoStatus]
  /\ UNCHANGED <<m_responses, heard, performs>>

LastResponse == m_responses[Len(m_responses)]

(* perform() takes the last head there is: with none, it is an assertion, or *)
(* undefined.                                                                *)
Answered ==
  /\ doing # "idle" /\ transfer = <<>>
  /\ doing' = "idle"
  /\ reply' =
       IF m_responses = <<>> THEN [done |-> "aborted", status |-> NoStatus]
       ELSE LET s == LastResponse.status IN
            [done |-> IF doing = "check_perform" /\ s # 200
                      THEN "not_ok_status_error" ELSE "returned",
             status |-> s]
  /\ UNCHANGED <<m_responses, transfer, heard, performs>>

HttpNext ==
  /\ reply.done # "aborted"
  /\ \/ \E how \in {"perform", "check_perform"}, lines \in Transfers : Perform(how, lines)
     \/ parse_header_callback \/ Fails \/ Answered

HttpSpec == HttpInit /\ [][HttpNext]_httpVars

----------------------------------------------------------------------------
(* Properties *)

HttpTypeOK ==
  /\ doing \in {"idle", "perform", "check_perform"}
  /\ reply.done \in {"none", "returned", "easy_error", "not_ok_status_error", "aborted"}
  /\ performs \in 0..MaxPerforms
  /\ \A k \in DOMAIN m_responses : DOMAIN m_responses[k].headers = Names_

StatusLines == {k \in DOMAIN heard : heard[k].kind = "status"}
HeadersAfter(place, name) ==
  {k \in DOMAIN heard : /\ k > place /\ heard[k].kind = "header"
                        /\ make_name[heard[k].raw] = name}
ValuesAfter(place, name) ==
  LET headers == HeadersAfter(place, name) IN
  [i \in 1..Cardinality(headers) |-> heard[Nth(headers, i)].value]

(* A request that is answered has the status of the last head of its own     *)
(* transfer, whatever redirects and earlier requests came before, with every *)
(* header that came after it, in whatever case, in the order they came; and  *)
(* nothing that could not be parsed is passed over.                          *)
(* (client.cpp:78-82, header_parser.cpp:36-46, header_set.cpp:5-12)          *)
HttpHeard ==
  reply.done \in {"returned", "not_ok_status_error"} /\ StatusLines # {} =>
    LET last == CHOOSE k \in StatusLines : \A j \in StatusLines : j <= k IN
    /\ reply.status = heard[last].status
    /\ \A name \in Names_ :
         LastResponse.headers[name] = ValuesAfter(last, name)
    /\ \A k \in DOMAIN heard : heard[k].kind # "bad"

=============================================================================
