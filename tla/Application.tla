---------------------------- MODULE Application ----------------------------
(***************************************************************************)
(* What is registered while a program starts and what it keeps while its   *)
(* applications run: bunsan::factory's names, and the global states that   *)
(* one global_registry at a time builds, shares and destroys.              *)
(***************************************************************************)
EXTENDS Naturals, Sequences, FiniteSets

CONSTANTS
  Units,              \* translation units, and libraries opened later
  NameOf,             \* per unit: the name that it registers its class with
  StateOf,            \* per unit: whether it registers a factory of a state
  Starters,           \* the threads
  MaxRegistries,      \* bound: registries ever built
  MaxExecs,           \* bound: calls of exec() by an application
  Unset_, NoOne, NoRegistry

ASSUME RegistryBound == MaxRegistries \in Nat /\ MaxExecs \in Nat
ASSUME NamesAssumption ==
  /\ \A u \in Units : u \in DOMAIN NameOf /\ StateOf[u] \in BOOLEAN
  /\ Units \cap {"idle", "lock", "build", "hold", "drop"} = {} /\ Unset_ \notin Units
  /\ Starters \cap {"new", "done"} = {} /\ NoOne \notin Starters
  /\ NoRegistry \notin 1..MaxRegistries

VARIABLES
  units,        \* history: the units initialized, in order
  factories,     \* per name: the unit whose class has it
  m_once,        \* of global_instance: new, the thread that initializes it, or done
  state_factories, instance, lock_,   \* global_instance_storage
  registries,    \* the states of each, those wanted, its pointers, who destroys it
  app_at,        \* per thread
  app_registry,  \* per thread: the registry it builds or points to
  execs, exit_code   \* per thread's application

appVars == <<units, factories, m_once, state_factories, instance, lock_,
             registries, app_at, app_registry, execs, exit_code>>

ClassNames == {NameOf[u] : u \in Units}
IsLoaded(u) == \E k \in DOMAIN units : units[k] = u

AppInit ==
  /\ units = <<>> /\ factories = [n \in ClassNames |-> Unset_]
  /\ m_once = "new" /\ state_factories = <<>> /\ instance = NoRegistry /\ lock_ = NoOne
  /\ registries = <<>>
  /\ app_at = [t \in Starters |-> "idle"]
  /\ app_registry = [t \in Starters |-> NoRegistry]
  /\ execs = [t \in Starters |-> 0] /\ exit_code = [t \in Starters |-> 0]

AppGoes(t, from, to) == app_at[t] = from /\ app_at' = [app_at EXCEPT ![t] = to]

(* A static initializer, which the loader runs one at a time: the class gets *)
(* the name, unless another has it.                                          *)
register_new(u) ==
  factories' = [factories EXCEPT ![NameOf[u]] = IF @ = Unset_ THEN u ELSE @]

LoadUnit(t, u) ==
  /\ ~IsLoaded(u) /\ \A s \in Starters : app_at[s] \notin Units
  /\ AppGoes(t, "idle", IF StateOf[u] THEN u ELSE "idle")
  /\ register_new(u)
  /\ units' = Append(units, u)
  /\ UNCHANGED <<m_once, state_factories, instance, lock_, registries,
                 app_registry, execs, exit_code>>

(* basic_lazy_ptr::ensure_initialized(): the others wait for the first. *)
Initialize(t) ==
  /\ m_once = "new" /\ app_at[t] \in Units \cup {"lock"}
  /\ m_once' = t
  /\ UNCHANGED <<units, factories, state_factories, instance, lock_, registries,
                 app_at, app_registry, execs, exit_code>>
Initialized(t) ==
  /\ m_once = t
  /\ m_once' = "done"
  /\ state_factories' = <<>> /\ instance' = NoRegistry
  /\ UNCHANGED <<units, factories, lock_, registries, app_at, app_registry,
                 execs, exit_code>>

CanLock == m_once = "done" /\ lock_ = NoOne

register_state_factory(t) ==
  /\ CanLock /\ app_at[t] \in Units
  /\ state_factories' = Append(state_factories, app_at[t])
  /\ app_at' = [app_at EXCEPT ![t] = "idle"]
  /\ UNCHANGED <<units, factories, m_once, instance, lock_, registries,
                 app_registry, execs, exit_code>>

(* application's constructor calls global_registry::lock(). *)
Begin(t) ==
  /\ AppGoes(t, "idle", "lock")
  /\ UNCHANGED <<units, factories, m_once, state_factories, instance, lock_,
                 registries, app_registry, execs, exit_code>>

Holders(r) == {t \in Starters : app_registry[t] = r /\ app_at[t] = "hold"}
InstanceAlive == instance # NoRegistry /\ Holders(instance) # {}
Mine(t) == registries[app_registry[t]]

(* The weak pointer is alive, as long as any other thread holds one. *)
Share(t) ==
  /\ CanLock /\ AppGoes(t, "lock", "hold") /\ InstanceAlive
  /\ app_registry' = [app_registry EXCEPT ![t] = instance]
  /\ UNCHANGED <<units, factories, m_once, state_factories, instance, lock_,
                 registries, execs, exit_code>>

BuildRegistry(t) ==
  /\ CanLock /\ AppGoes(t, "lock", "build") /\ ~InstanceAlive
  /\ Len(registries) < MaxRegistries
  /\ lock_' = t
  /\ registries' = Append(registries, [states |-> <<>>, wanted |-> state_factories])
  /\ app_registry' = [app_registry EXCEPT ![t] = Len(registries) + 1]
  /\ UNCHANGED <<units, factories, m_once, state_factories, instance, execs, exit_code>>

BuildState(t) ==
  /\ app_at[t] = "build" /\ Len(Mine(t).states) < Len(state_factories)
  /\ registries' = [registries EXCEPT ![app_registry[t]].states =
                      Append(@, state_factories[Len(@) + 1])]
  /\ UNCHANGED <<units, factories, m_once, state_factories, instance, lock_,
                 app_at, app_registry, execs, exit_code>>

(* A factory throws: the states built end, and so does lock(), with instance *)
(* as it was.                                                                *)
FactoryThrows(t) ==
  /\ Len(Mine(t).states) < Len(state_factories)
  /\ AppGoes(t, "build", "idle")
  /\ registries' = [registries EXCEPT ![app_registry[t]].states = <<>>]
  /\ app_registry' = [app_registry EXCEPT ![t] = NoRegistry]
  /\ lock_' = NoOne
  /\ UNCHANGED <<units, factories, m_once, state_factories, instance, execs, exit_code>>

Built_(t) ==
  /\ Len(Mine(t).states) = Len(state_factories)
  /\ AppGoes(t, "build", "hold")
  /\ instance' = app_registry[t] /\ lock_' = NoOne
  /\ UNCHANGED <<units, factories, m_once, state_factories, registries,
                 app_registry, execs, exit_code>>

(* exec(): help, version or main's code; argument_parser_failure;            *)
(* exit_failure.                                                             *)
ExitCodes == {0, 100, 200}
exec(t) ==
  /\ app_at[t] = "hold" /\ execs[t] < MaxExecs
  /\ execs' = [execs EXCEPT ![t] = @ + 1]
  /\ \E code \in ExitCodes : exit_code' = [exit_code EXCEPT ![t] = code]
  /\ UNCHANGED <<units, factories, m_once, state_factories, instance, lock_,
                 registries, app_at, app_registry>>

(* The last application's end destroys the states, without the mutex. *)
DropApplication(t) ==
  /\ AppGoes(t, "hold", IF Holders(app_registry[t]) = {t} THEN "drop" ELSE "idle")
  /\ app_registry' = [app_registry EXCEPT
       ![t] = IF Holders(@) = {t} THEN @ ELSE NoRegistry]
  /\ execs' = [execs EXCEPT ![t] = 0] /\ exit_code' = [exit_code EXCEPT ![t] = 0]
  /\ UNCHANGED <<units, factories, m_once, state_factories, instance, lock_,
                 registries>>
DestroyState(t) ==
  /\ app_at[t] = "drop" /\ Mine(t).states # <<>>
  /\ registries' = [registries EXCEPT ![app_registry[t]].states = Tail(@)]
  /\ UNCHANGED <<units, factories, m_once, state_factories, instance, lock_,
                 app_at, app_registry, execs, exit_code>>
Destroyed(t) ==
  /\ Mine(t).states = <<>> /\ AppGoes(t, "drop", "idle")
  /\ app_registry' = [app_registry EXCEPT ![t] = NoRegistry]
  /\ UNCHANGED <<units, factories, m_once, state_factories, instance, lock_,
                 registries, execs, exit_code>>

AppNext ==
  \E t \in Starters :
    \/ \E u \in Units : LoadUnit(t, u)
    \/ Initialize(t) \/ Initialized(t) \/ register_state_factory(t)
    \/ Begin(t) \/ Share(t) \/ BuildRegistry(t) \/ BuildState(t)
    \/ app_at[t] = "build" /\ (FactoryThrows(t) \/ Built_(t))
    \/ exec(t) \/ DropApplication(t) \/ DestroyState(t)
    \/ app_at[t] = "drop" /\ Destroyed(t)

AppSpec == AppInit /\ [][AppNext]_appVars

----------------------------------------------------------------------------
(* Properties *)

AppTypeOK ==
  /\ Len(units) <= Cardinality(Units)
  /\ factories \in [ClassNames -> Units \cup {Unset_}]
  /\ m_once \in {"new", "done"} \cup Starters
  /\ \A k \in DOMAIN state_factories : state_factories[k] \in Units
  /\ instance \in 1..MaxRegistries \cup {NoRegistry} /\ lock_ \in Starters \cup {NoOne}
  /\ app_at \in [Starters -> {"idle", "lock", "build", "hold", "drop"} \cup Units]
  /\ app_registry \in [Starters -> 1..MaxRegistries \cup {NoRegistry}]
  /\ execs \in [Starters -> 0..MaxExecs] /\ exit_code \in [Starters -> ExitCodes]

(* Applications that run at the same time share one registry, which has a    *)
(* state of every factory that was registered when it was built, until the   *)
(* last of them ends. (global_registry.cpp:18-27, application.cpp:16)        *)
StatesOutlive ==
  \A t \in Starters : app_at[t] = "hold" =>
    /\ app_registry[t] = instance
    /\ Mine(t).states = Mine(t).wanted

(* Whatever the order of the static initializers and whichever thread uses   *)
(* the storage first, no registration is lost: a name is of the first unit   *)
(* that registered it, and a registry is built from every unit with a state. *)
(* (lazy_ptr.hpp:34, factory.hpp:69)                                         *)
RegistrationsKept ==
  /\ \A n \in ClassNames :
       LET named == {k \in DOMAIN units : NameOf[units[k]] = n} IN
       factories[n] = IF named = {} THEN Unset_
                      ELSE units[CHOOSE k \in named : \A j \in named : k <= j]
  /\ \A u \in Units :
       (\E k \in DOMAIN state_factories : state_factories[k] = u)
         <=> StateOf[u] /\ IsLoaded(u) /\ \A t \in Starters : app_at[t] # u

=============================================================================
