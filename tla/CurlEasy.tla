------------------------------ MODULE CurlEasy ------------------------------
(***************************************************************************)
(* bunsan::curl::easy: values that own a handle of libcurl and, since      *)
(* libcurl keeps pointers to what some options hold, the objects of these  *)
(* options.                                                                *)
(***************************************************************************)
EXTENDS Naturals, Sequences, FiniteSets, Ranked

CONSTANTS
  Easies,             \* easy variables of the program
  Settable,           \* the options it sets, by their ids
  MaxHandles,         \* bound: easy_handles ever made
  MaxObjects,         \* bound: option objects held or pointed at
  NoHandle, Dead      \* m_curl is null; the variable holds no easy

ASSUME EasyBounds == MaxHandles \in Nat /\ MaxObjects \in Nat
ASSUME NoHandleAssumption ==
  NoHandle # Dead /\ NoHandle \notin 1..MaxHandles /\ Dead \notin 1..MaxHandles

VARIABLES
  m_curl,       \* per easy: its handle
  m_options,    \* per easy: the object m_option_set has for each option id
  easy_handles,      \* libcurl's easy_handles: CURLOPT_PRIVATE, the options, and if it lives
  aborted       \* an assertion has failed

easyVars == <<m_curl, m_options, easy_handles, aborted>>

(* Option ids, as ordered in m_options; the two of postfields are one option. *)
IdOrder == <<"POSTFIELDS", "HTTPHEADER", "POSTFIELDSIZE">>
Ids == {IdOrder[k] : k \in DOMAIN IdOrder}
ByWrapper == {{"POSTFIELDS", "POSTFIELDSIZE"}, {"HTTPHEADER"}}
ByCurl == {{"POSTFIELDSIZE"}}
ASSUME SettableAssumption == Settable \subseteq ByWrapper \cup ByCurl

Numbers == 1..MaxObjects

(* An option object, with the ids it sets; and what is none. *)
Objects == [n : 1..MaxObjects, ids : ByWrapper]
Unset == [n |-> 0, ids |-> {}]
Own == [n |-> 0, ids |-> Ids]   \* a value libcurl has copied

NoOptions == [i \in Ids |-> Unset]
Fresh(e) == [private |-> e, opt |-> NoOptions, live |-> TRUE]
CleanedUp == [private |-> NoHandle, opt |-> NoOptions, live |-> FALSE]

EasyInit ==
  /\ m_curl = [e \in Easies |-> Dead]
  /\ m_options = [e \in Easies |-> NoOptions]
  /\ easy_handles = <<>> /\ aborted = FALSE

Valid(e) == m_curl[e] \in DOMAIN easy_handles
CanMake == Len(easy_handles) < MaxHandles
NowUnset(values, ids) == [i \in Ids |-> IF i \in ids THEN Unset ELSE values[i]]
With_(values, ids, v) == [i \in Ids |-> IF i \in ids THEN v ELSE values[i]]

(* Numbers for new objects: those of none that is held or pointed at. *)
Unused ==
  1..MaxObjects \ ({m_options[e][i].n : e \in Easies, i \in Ids}
                   \cup {easy_handles[h].opt[i].n : h \in DOMAIN easy_handles, i \in Ids})
NewNumber(k) == Nth(Unused, k)

Construct(e) ==
  /\ m_curl[e] = Dead /\ CanMake
  /\ easy_handles' = Append(easy_handles, Fresh(e))
  /\ m_curl' = [m_curl EXCEPT ![e] = Len(easy_handles) + 1]
  /\ UNCHANGED <<m_options, aborted>>

ConstructNull(e) ==
  /\ m_curl[e] = Dead
  /\ m_curl' = [m_curl EXCEPT ![e] = NoHandle]
  /\ UNCHANGED <<m_options, easy_handles, aborted>>

(* What option_set::unsetopt() of each id takes away, and what it asserts.   *)
Stored(e, ids) == {m_options[e][i] : i \in ids} \ {Unset}
Displaced(e, ids) == UNION {o.ids : o \in Stored(e, ids)}
SharesWhole(e, ids) ==
  \A o \in Stored(e, ids) : \A i \in o.ids : m_options[e][i] = o

(* set(): what held any of the ids is unset, with all its ids; then the      *)
(* option is stored, if libcurl does not copy it, and given to libcurl,      *)
(* which may refuse it.                                                      *)
SetOption(e, ids) ==
  /\ Valid(e) /\ SharesWhole(e, ids)
  /\ ids \in ByWrapper => Unused # {}
  /\ \E accepted \in BOOLEAN :
       LET value == IF ids \in ByWrapper THEN [n |-> NewNumber(1), ids |-> ids] ELSE Own
           gone == Displaced(e, ids)
           kept == NowUnset(m_options[e], gone) IN
       /\ m_options' = [m_options EXCEPT
            ![e] = IF ids \in ByWrapper THEN With_(kept, ids, value) ELSE kept]
       /\ easy_handles' = [easy_handles EXCEPT ![m_curl[e]].opt =
            LET unset == NowUnset(@, gone) IN
            IF accepted THEN With_(unset, ids, value)
            ELSE IF ids \in ByWrapper THEN NowUnset(unset, ids) ELSE unset]
  /\ UNCHANGED <<m_curl, aborted>>

SetAborts(e, ids) ==
  /\ Valid(e) /\ ~SharesWhole(e, ids)
  /\ aborted' = TRUE
  /\ UNCHANGED <<m_curl, m_options, easy_handles>>

(* option_set's copy constructor clones per id, so that an option of two ids *)
(* becomes two objects, and setopt() gives them to libcurl in turn.          *)
SetPlaces(e) == {k \in DOMAIN IdOrder : m_options[e][IdOrder[k]] # Unset}
SetIds(e) == [k \in 1..Cardinality(SetPlaces(e)) |-> IdOrder[Nth(SetPlaces(e), k)]]
Clone(e) ==
  [i \in Ids |->
     IF m_options[e][i] = Unset THEN Unset
     ELSE [m_options[e][i] EXCEPT
             !.n = NewNumber(CHOOSE k \in DOMAIN SetIds(e) : SetIds(e)[k] = i)]]
SetClones(e, values) ==
  [i \in Ids |->
     LET setters == {k \in DOMAIN SetIds(e) : i \in m_options[e][SetIds(e)[k]].ids} IN
     IF setters = {} THEN values[i]
     ELSE Clone(e)[SetIds(e)[CHOOSE k \in setters : \A j \in setters : j <= k]]]

(* Mutant of Copied: the clones are not given to libcurl. *)
CopiedAsIs(e, f) ==
  [easy_handles[m_curl[f]] EXCEPT !.private = e]

(* curl_easy_duphandle() copies the pointers, too. *)
Copied(e, f) ==
  [easy_handles[m_curl[f]] EXCEPT !.private = e, !.opt = SetClones(f, @)]

CanCopy(f) ==
  m_curl[f] # Dead /\ (Valid(f) => CanMake) /\ Len(SetIds(f)) <= Cardinality(Unused)

CopyConstruct(e, f) ==
  /\ m_curl[e] = Dead /\ CanCopy(f)
  /\ m_options' = [m_options EXCEPT ![e] = Clone(f)]
  /\ IF Valid(f)
     THEN /\ easy_handles' = Append(easy_handles, Copied(e, f))
          /\ m_curl' = [m_curl EXCEPT ![e] = Len(easy_handles) + 1]
     ELSE m_curl' = [m_curl EXCEPT ![e] = NoHandle] /\ UNCHANGED easy_handles
  /\ UNCHANGED aborted

(* Setting a clone throws from the constructor: nothing owns the new handle. *)
CopyThrows(e, f) ==
  /\ m_curl[e] = Dead /\ Valid(f) /\ CanMake
  /\ easy_handles' = Append(easy_handles, CopiedAsIs(e, f))
  /\ UNCHANGED <<m_curl, m_options, aborted>>

Cleanup(hs, e) == IF Valid(e) THEN [hs EXCEPT ![m_curl[e]] = CleanedUp] ELSE hs

(* The copy is swapped in; a temporary takes the old handle and ends. *)
CopyAssign(e, f) ==
  /\ m_curl[e] # Dead /\ CanCopy(f)
  /\ m_options' = [m_options EXCEPT ![e] = Clone(f)]
  /\ IF Valid(f)
     THEN /\ easy_handles' = Append(Cleanup(easy_handles, e), Copied(e, f))
          /\ m_curl' = [m_curl EXCEPT ![e] = Len(easy_handles) + 1]
     ELSE /\ m_curl' = [m_curl EXCEPT ![e] = NoHandle]
          /\ easy_handles' = Cleanup(easy_handles, e)
  /\ UNCHANGED aborted

(* init(): the handle finds its easy. *)
Captured(e, h) == IF h \in DOMAIN easy_handles
                  THEN [easy_handles EXCEPT ![h].private = e] ELSE easy_handles

ConstructMoved(e, f) ==
  /\ m_curl[e] = Dead /\ m_curl[f] # Dead
  /\ m_curl' = [m_curl EXCEPT ![e] = m_curl[f], ![f] = NoHandle]
  /\ m_options' = [m_options EXCEPT ![e] = m_options[f], ![f] = NoOptions]
  /\ easy_handles' = Captured(e, m_curl[f])
  /\ UNCHANGED aborted

(* The handle that e had is not cleaned up, and one moved into itself is     *)
(* lost, though its options stay.                                            *)
MoveAssign(e, f) ==
  /\ m_curl[e] # Dead /\ m_curl[f] # Dead
  /\ IF e = f
     THEN /\ m_curl' = [m_curl EXCEPT ![e] = NoHandle]
          /\ UNCHANGED <<m_options, easy_handles>>
     ELSE /\ m_curl' = [m_curl EXCEPT ![e] = m_curl[f], ![f] = NoHandle]
          /\ m_options' = [m_options EXCEPT ![e] = m_options[f], ![f] = NoOptions]
          /\ easy_handles' = Captured(e, m_curl[f])
  /\ UNCHANGED aborted

Swap(e, f) ==
  /\ e # f /\ m_curl[e] # Dead /\ m_curl[f] # Dead
  /\ m_curl' = [m_curl EXCEPT ![e] = m_curl[f], ![f] = m_curl[e]]
  /\ m_options' = [m_options EXCEPT ![e] = m_options[f], ![f] = m_options[e]]
  /\ easy_handles' = [h \in DOMAIN easy_handles |->
       CASE h = m_curl[e] -> [easy_handles[h] EXCEPT !.private = f]
         [] h = m_curl[f] -> [easy_handles[h] EXCEPT !.private = e]
         [] OTHER -> easy_handles[h]]
  /\ UNCHANGED aborted

(* operator=(nullptr), and the destructor, which is that assignment. *)
EndEasy(e, to) ==
  /\ m_curl[e] # Dead
  /\ easy_handles' = Cleanup(easy_handles, e)
  /\ m_curl' = [m_curl EXCEPT ![e] = to]
  /\ m_options' = [m_options EXCEPT ![e] = NoOptions]
  /\ UNCHANGED aborted

(* curl_easy_reset() forgets CURLOPT_PRIVATE with the other options. *)
Reset(e) ==
  /\ Valid(e)
  /\ easy_handles' = [easy_handles EXCEPT ![m_curl[e]].opt = NoOptions,
                                ![m_curl[e]].private = NoHandle]
  /\ m_options' = [m_options EXCEPT ![e] = NoOptions]
  /\ UNCHANGED <<m_curl, aborted>>

EasyNext ==
  /\ ~aborted
  /\ \E e \in Easies :
       \/ Construct(e) \/ ConstructNull(e) \/ Reset(e)
       \/ EndEasy(e, NoHandle) \/ EndEasy(e, Dead)
       \/ \E ids \in Settable : SetOption(e, ids) \/ SetAborts(e, ids)
       \/ \E f \in Easies :
            \/ CopyConstruct(e, f) \/ CopyThrows(e, f) \/ CopyAssign(e, f)
            \/ ConstructMoved(e, f) \/ MoveAssign(e, f) \/ Swap(e, f)

EasySpec == EasyInit /\ [][EasyNext]_easyVars

----------------------------------------------------------------------------
(* Properties *)

EasyTypeOK ==
  /\ m_curl \in [Easies -> (1..MaxHandles) \cup {NoHandle, Dead}]
  /\ m_options \in [Easies -> [Ids -> Objects \cup {Unset}]]
  /\ \A h \in DOMAIN easy_handles :
       /\ easy_handles[h].private \in Easies \cup {NoHandle}
       /\ easy_handles[h].opt \in [Ids -> Objects \cup {Own, Unset}]
       /\ easy_handles[h].live \in BOOLEAN
  /\ aborted \in BOOLEAN

(* Whatever is copied, moved, swapped or refused: the handle of an easy is   *)
(* live and its alone, all that the handle points at is held by that easy,   *)
(* and easy::get() of the handle, unless it was reset, is that easy.         *)
(* (easy.cpp:22-69, option_set.cpp:41-75)                                    *)
OptionsOutlive ==
  \A e \in Easies : Valid(e) =>
    LET h == m_curl[e] IN
    /\ easy_handles[h].live
    /\ \A f \in Easies \ {e} : m_curl[f] # h
    /\ \A i \in Ids : easy_handles[h].opt[i] \in Objects =>
         \E j \in Ids : m_options[e][j] = easy_handles[h].opt[i]
    /\ easy_handles[h].private \in {e, NoHandle}

=============================================================================
