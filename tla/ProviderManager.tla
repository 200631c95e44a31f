--------------------------- MODULE ProviderManager ---------------------------
(***************************************************************************)
(* provider/manager.go for one provider name (every map of Manager is      *)
(* keyed by the name, and no operation touches two names): Register and    *)
(* Unregister as the admin API and the configuration watcher call them,    *)
(* concurrently with Generate, its lookups under two separate read locks,  *)
(* its semaphore (provider/concurrency.go) and its call.                   *)
(*                                                                         *)
(* An instance is what one Register installs under the lock: the provider  *)
(* object with its semaphore, limiter and breaker.  Instances are numbered *)
(* in the order of their installation, 1 being Bootstrap's; None stands    *)
(* for a missing map entry, and for the nil semaphore found instead.       *)
(***************************************************************************)
EXTENDS Naturals, FiniteSets

None == 0
NoConfig == "none"

CONSTANTS
    Callers,      \* goroutines that call Generate, again and again
    Editors,      \* admin requests and watcher events
    Configs,      \* provider configurations
    MaxConcurrency,  \* of each configuration; 0 means unlimited
    Buildable,    \* configurations whose factory exists and succeeds
    Ops,          \* what the editors do: "add", "edit" or "remove"
    Last          \* bound on the instances; 1 + the number of editors, each of
                  \* which installs at most one, cuts nothing off

ASSUME ManagerAssumption ==
    /\ IsFiniteSet(Callers)
    /\ MaxConcurrency \in [Configs -> Nat]
    /\ Buildable \subseteq Configs
    /\ Ops \subseteq {"add", "edit", "remove"}
    /\ NoConfig \notin Configs /\ Last \in Nat \ {0}

VARIABLES
    current,    \* the instance in the maps
    latest,     \* history: the last instance installed
    config,     \* allConfigs
    built,      \* history: instance -> the configuration it was built from
    slots,      \* instance -> occupied slots of its semaphore
    editing,    \* where each editor is
    task,       \* what it does
    at,         \* where in Generate each caller is
    inst,       \* the provider instance it found
    lim         \* the instance whose limits it found

vars == <<current, latest, config, built, slots, editing, task, at, inst, lim>>
editVars == <<editing, task>>
mapVars == <<current, latest, config, built>>
callVars == <<slots, at, inst, lim>>

Instances == 1..Last

\* The semaphore of the instance g; a nil one admits everybody.
Limit(g) == IF built[g] \in Configs THEN MaxConcurrency[built[g]] ELSE 0
Limited(g) == g # None /\ Limit(g) > 0

Init ==
    /\ \E c \in Buildable :
        /\ config = c
        /\ built = [g \in Instances |-> IF g = 1 THEN c ELSE NoConfig]
    /\ current = 1 /\ latest = 1
    /\ slots = [g \in Instances |-> 0]
    /\ task \in [Editors -> [op : Ops, cfg : Configs]]
    /\ editing = [e \in Editors |->
                    IF task[e].op = "add" THEN "check" ELSE "unregister"]
    /\ at = [c \in Callers |-> "idle"]
    /\ inst = [c \in Callers |-> None]
    /\ lim = [c \in Callers |-> None]

Go(e, place) == editing' = [editing EXCEPT ![e] = place] /\ UNCHANGED task

Unregister(e) ==
    /\ editing[e] = "unregister"
    /\ Go(e, IF task[e].op = "edit" THEN "check" ELSE "done")
    /\ current' = None
    /\ config' = NoConfig
    /\ UNCHANGED <<latest, built, callVars>>

\* Register's look under the read lock, and the factory outside any lock.
QuickCheck(e) ==
    /\ editing[e] = "check"
    /\ \/ current # None /\ Go(e, "update")
       \/ current = None /\ task[e].cfg \in Buildable /\ Go(e, "install")
       \/ current = None /\ task[e].cfg \notin Buildable /\ Go(e, "done")
    /\ UNCHANGED <<mapVars, callVars>>

\* "Just update config under Lock".
UpdateConfig(e) ==
    /\ editing[e] = "update"
    /\ Go(e, "done")
    /\ config' = task[e].cfg
    /\ UNCHANGED <<current, latest, built, callVars>>

\* The double check under the lock: a concurrent registration is reused and
\* the new configuration dropped.
Install(e) ==
    /\ editing[e] = "install"
    /\ Go(e, "done")
    /\ \/ /\ current = None /\ latest < Last
          /\ current' = latest + 1
          /\ latest' = latest + 1
          /\ built' = [built EXCEPT ![latest + 1] = task[e].cfg]
          /\ config' = task[e].cfg
       \/ current # None /\ UNCHANGED mapVars
    /\ UNCHANGED callVars

\* Faulty variants, here and below, for checking that the properties can fail:
\* the limits looked up before the provider, a Release of whatever semaphore is
\* in the map by then, or left out.
LimitsBeforeGet(c) ==
    /\ \/ /\ at[c] = "idle"
          /\ at' = [at EXCEPT ![c] = "limits found"]
          /\ lim' = [lim EXCEPT ![c] = current]
          /\ UNCHANGED inst
       \/ /\ at[c] = "limits found" /\ current # None
          /\ at' = [at EXCEPT ![c] = IF Limited(lim[c]) THEN "waiting" ELSE "running"]
          /\ inst' = [inst EXCEPT ![c] = current]
          /\ UNCHANGED lim
    /\ UNCHANGED <<mapVars, editVars, slots>>

\* Manager.Get; with no provider Generate returns at once.
Get(c) ==
    /\ at[c] = "idle"
    /\ current # None
    /\ at' = [at EXCEPT ![c] = "found"]
    /\ inst' = [inst EXCEPT ![c] = current]
    /\ UNCHANGED <<mapVars, editVars, slots, lim>>

\* The limits, read under a second lock: by now they may be another's or gone.
FindLimits(c) ==
    /\ at[c] = "found"
    /\ lim' = [lim EXCEPT ![c] = current]
    /\ at' = [at EXCEPT ![c] = IF Limited(current) THEN "waiting" ELSE "running"]
    /\ UNCHANGED <<mapVars, editVars, slots, inst>>

Acquire(c) ==
    /\ at[c] = "waiting"
    /\ slots[lim[c]] < Limit(lim[c])
    /\ slots' = [slots EXCEPT ![lim[c]] = @ + 1]
    /\ at' = [at EXCEPT ![c] = "running"]
    /\ UNCHANGED <<mapVars, editVars, inst, lim>>

\* Generate returns, and its variables are gone.
Leave(c) ==
    /\ at' = [at EXCEPT ![c] = "idle"]
    /\ inst' = [inst EXCEPT ![c] = None]
    /\ lim' = [lim EXCEPT ![c] = None]

\* The context ends while the caller waits.
GiveUp(c) ==
    /\ at[c] = "waiting"
    /\ Leave(c)
    /\ UNCHANGED <<mapVars, editVars, slots>>

ReleaseCurrent(c) ==
    /\ at[c] = "running"
    /\ Leave(c)
    /\ slots' = IF Limited(current) /\ slots[current] > 0
                THEN [slots EXCEPT ![current] = @ - 1] ELSE slots
    /\ UNCHANGED <<mapVars, editVars>>

ReturnLeaks(c) ==
    /\ at[c] = "running"
    /\ Leave(c)
    /\ UNCHANGED <<mapVars, editVars, slots>>

\* The limiter or the breaker refuses, or the provider is called and returns:
\* either way the deferred Release runs.
Return(c) ==
    /\ at[c] = "running"
    /\ Leave(c)
    /\ slots' = IF Limited(lim[c]) THEN [slots EXCEPT ![lim[c]] = @ - 1]
                                   ELSE slots
    /\ UNCHANGED <<mapVars, editVars>>

Edit(e) == Unregister(e) \/ QuickCheck(e) \/ UpdateConfig(e) \/ Install(e)
Generate(c) == Get(c) \/ FindLimits(c) \/ Acquire(c) \/ GiveUp(c) \/ Return(c)

Next ==
    \/ \E e \in Editors : Edit(e)
    \/ \E c \in Callers : Generate(c)

Spec == Init /\ [][Next]_vars

\* Editors finish, calls end, and a freed slot goes to the caller that has
\* waited longest (the send queue of a Go channel is first in, first out).
FairSpec ==
    /\ Spec
    /\ \A e \in Editors : WF_vars(Edit(e))
    /\ \A c \in Callers :
        WF_vars(FindLimits(c)) /\ WF_vars(Return(c)) /\ SF_vars(Acquire(c))
-----------------------------------------------------------------------------
TypeOK ==
    /\ latest \in Instances /\ current \in {None, latest}
    /\ config \in Configs \cup {NoConfig}
    /\ built \in [Instances -> Configs \cup {NoConfig}]
    /\ slots \in [Instances -> Nat]
    /\ editing \in [Editors -> {"unregister", "check", "update", "install",
                                "done"}]
    /\ task \in [Editors -> [op : Ops, cfg : Configs]]
    /\ at \in [Callers -> {"idle", "found", "waiting", "running"}]
    /\ inst \in [Callers -> Instances \cup {None}]
    /\ lim \in [Callers -> Instances \cup {None}]

(***************************************************************************)
(* A registered provider has an entry in allConfigs, which List walks and  *)
(* routing reads weights and keys from, however Register's update of the   *)
(* configuration and Unregister overlap.  The converse may fail: an update *)
(* after a removal leaves a configuration without a provider.              *)
(***************************************************************************)
ProvidersAreListed == current # None => config # NoConfig

Holders(g) == {c \in Callers : at[c] = "running" /\ lim[c] = g}

(***************************************************************************)
(* The slots of a semaphore are the calls that run under it: an edit that  *)
(* replaces the semaphore under its holders, a refusal after the slot was  *)
(* taken, or a caller that gave up waiting loses no slot and frees none,   *)
(* and never more than MaxConcurrency calls run under it.                  *)
(***************************************************************************)
SlotsAreHeld ==
    \A g \in Instances : Limited(g) =>
        slots[g] = Cardinality(Holders(g)) /\ slots[g] <= Limit(g)

(***************************************************************************)
(* A call runs under the limits of the provider instance it uses, unless   *)
(* that instance has been unregistered meanwhile: then under those of a    *)
(* later one, or none.  It never runs under older limits.                  *)
(***************************************************************************)
LimitsFitTheInstance ==
    \A c \in Callers : at[c] \in {"waiting", "running"} =>
        \/ lim[c] = inst[c]
        \/ inst[c] # current /\ (lim[c] = None \/ lim[c] > inst[c])

(***************************************************************************)
(* A caller that waits for a slot gets one or gives up, also if its        *)
(* semaphore has been replaced and no new caller will come for it.  And    *)
(* the semaphore of an instance that was unregistered drains for good:     *)
(* callers that found it before still run, but nobody joins them forever.  *)
(***************************************************************************)
WaitersAreServed ==
    /\ \A c \in Callers : at[c] = "waiting" ~> at[c] # "waiting"
    /\ \A g \in Instances : (built[g] # NoConfig /\ current # g) ~> [](slots[g] = 0)
=============================================================================
