------------------------------ MODULE HotReload ------------------------------
(***************************************************************************)
(* The configuration file and those who read and write it: config/         *)
(* watcher.go with the callback of cmd/gateway/main.go, the admin handlers *)
(* (server/admin_providers.go) with the rewriting of the file by           *)
(* persistProviderToYAML, and an editor.                                   *)
(*                                                                         *)
(* A content is the entries of the enabled providers and the routing       *)
(* rules.  An entry is its API key and the rest of its fields: defaults, a *)
(* timeout, for those that sameProvider compares and persisting drops, or  *)
(* a weight, for those that it does not compare.  Register is one step     *)
(* here; ProviderManager has its parts.                                    *)
(***************************************************************************)
EXTENDS Naturals, FiniteSets

CONSTANTS
    Names,
    ApiKeys,        \* of entries; positive
    Unbuildable,    \* keys of entries that no factory accepts
    InitialKey,     \* of every entry before the first change
    Bodies,         \* of admin requests: the entries they ask for
    MaxEdits, MaxAdmin    \* bounds: changes by the editor and by the admin API

ASSUME ReloadAssumption ==
    /\ IsFiniteSet(Names) /\ ApiKeys \subseteq Nat \ {0} /\ Unbuildable \subseteq ApiKeys
    /\ InitialKey \in ApiKeys \ Unbuildable
    /\ Bodies \subseteq [key : ApiKeys, rest : {"default", "timeout", "weight"}]
    /\ MaxEdits \in Nat /\ MaxAdmin \in Nat

VARIABLES
    file,           \* the content of the file
    editing,        \* the editor between truncating and writing: what it changes
    served,         \* the manager's providers, as the entries they were built from
    rules,          \* the server's routing rules
    owner,          \* history: who made served[n] what it is
    watcher,        \* off, idle, read, rules, apply
    data,           \* what check has read
    lastHash, lastProviders,
    events,         \* the events still to apply, by name
    admin,          \* the admin request: where it is, its name and entry
    persisting,     \* what persistProviderToYAML has read
    edits, requests \* how many there were

fileVars == <<file, editing, edits>>
watchVars == <<watcher, data, lastHash, lastProviders, events>>
adminVars == <<admin, persisting, requests>>
reloadVars == <<fileVars, served, rules, owner, watchVars, adminVars>>

Absent == [key |-> 0, rest |-> "default"]
Entries == [key : ApiKeys, rest : {"default", "timeout", "weight"}]
NoEntries == [n \in Names |-> Absent]
Content(e, r) == [valid |-> TRUE, entries |-> e, rules |-> r]
Empty == Content(NoEntries, 0)              \* an empty file parses
Invalid == [valid |-> FALSE, entries |-> NoEntries, rules |-> 0]
NoEvents == [n \in Names |-> "none"]
NoRequest == [at |-> "idle", name |-> CHOOSE n \in Names : TRUE, entry |-> Absent]

sameProvider(a, b) == a.key = b.key /\ (a.rest = "timeout" <=> b.rest = "timeout")

\* What Register makes of an entry; it keeps a provider that is there.
Built(e) == IF e.key \in Unbuildable THEN Absent ELSE e
Register(n, e, who) ==
    /\ served' = IF served[n] = Absent THEN [served EXCEPT ![n] = Built(e)] ELSE served
    /\ owner' = IF served[n] = Absent THEN [owner EXCEPT ![n] = who] ELSE owner
Unregister(n, who) ==
    /\ served' = [served EXCEPT ![n] = Absent]
    /\ owner' = [owner EXCEPT ![n] = who]

\* main: ParseFile, Bootstrap and SetRoutingRules, before the watcher starts.
ReloadInit ==
    /\ file = Content([n \in Names |-> [key |-> InitialKey, rest |-> "default"]], 1)
    /\ editing = Empty /\ edits = 0
    /\ served = file.entries /\ rules = file.rules
    /\ owner = [n \in Names |-> "file"]
    /\ watcher = "off" /\ data = Empty
    /\ lastHash = Empty /\ lastProviders = NoEntries /\ events = NoEvents
    /\ admin = NoRequest /\ persisting = Empty /\ requests = 0

-----------------------------------------------------------------------------
\* The editor: one change, as a rename or as a truncation and a write.
Changes(c) ==
    {Invalid} \cup {Content(c.entries, r) : r \in 0..1}
    \cup {Content([c.entries EXCEPT ![n] = Absent], c.rules) : n \in Names}
    \cup {Content([c.entries EXCEPT ![n].key = k], c.rules) : n \in Names, k \in ApiKeys}
    \cup {Content([c.entries EXCEPT ![n].rest = e.rest], c.rules) :
            n \in {m \in Names : c.entries[m] # Absent}, e \in Entries}

Replace ==
    /\ edits < MaxEdits /\ editing = Empty
    /\ file' \in Changes(file) \ {file}
    /\ edits' = edits + 1
    /\ UNCHANGED <<editing, served, rules, owner, watchVars, adminVars>>

Truncate ==
    /\ edits < MaxEdits /\ editing = Empty /\ file # Empty
    /\ editing' = file
    /\ file' = Empty /\ edits' = edits + 1
    /\ UNCHANGED <<served, rules, owner, watchVars, adminVars>>

Write ==
    /\ editing # Empty /\ editing' = Empty
    /\ file' \in Changes(editing)
    /\ UNCHANGED <<edits, served, rules, owner, watchVars, adminVars>>

-----------------------------------------------------------------------------
\* updateHash: the content of the file counts as applied, whatever main has read
\* before; an unreadable one leaves lastProviders empty.
Start ==
    /\ watcher = "off" /\ watcher' = "idle"
    /\ lastHash' = file
    /\ lastProviders' = IF file.valid THEN file.entries ELSE NoEntries
    /\ owner' = [n \in Names |->
                   IF owner[n] = "file" /\ ~sameProvider(served[n], Built(lastProviders'[n]))
                   THEN "start" ELSE owner[n]]
    /\ UNCHANGED <<fileVars, served, rules, data, events, adminVars>>

\* check: the file is read before the lock is taken.
Read ==
    /\ watcher = "idle" /\ watcher' = "read"
    /\ data' = file
    /\ UNCHANGED <<fileVars, served, rules, owner, lastHash, lastProviders, events, adminVars>>

Diff(old, new) ==
    [n \in Names |-> CASE old[n] = new[n]                    -> "none"
                       [] old[n] = Absent /\ new[n] # Absent -> "added"
                       [] old[n] # Absent /\ new[n] = Absent -> "removed"
                       [] OTHER -> IF sameProvider(old[n], new[n]) THEN "none" ELSE "updated"]

Unchanged ==
    /\ watcher = "read"
    /\ data = lastHash \/ ~data.valid
    /\ watcher' = "idle" /\ data' = Empty
    /\ UNCHANGED <<fileVars, served, rules, owner, lastHash, lastProviders, events, adminVars>>

\* Faulty variants: the hash taken of the file as it is by now, and the
\* updated provider registered without unregistering it first.
ChangedHashedAgain ==
    /\ watcher = "read" /\ data # lastHash /\ data.valid
    /\ events' = Diff(lastProviders, data.entries)
    /\ lastProviders' = data.entries /\ lastHash' = file
    /\ watcher' = IF events' = NoEvents THEN "idle" ELSE "rules"
    /\ data' = Empty
    /\ UNCHANGED <<fileVars, served, rules, owner, adminVars>>

Changed ==
    /\ watcher = "read" /\ data # lastHash /\ data.valid
    /\ events' = Diff(lastProviders, data.entries)
    /\ lastProviders' = data.entries /\ lastHash' = data
    /\ watcher' = IF events' = NoEvents THEN "idle" ELSE "rules"
    /\ data' = Empty
    /\ UNCHANGED <<fileVars, served, rules, owner, adminVars>>

\* The callback: first the rules, from the file as it is by now.
ReloadRules ==
    /\ watcher = "rules" /\ watcher' = "apply"
    /\ rules' = IF file.valid THEN file.rules ELSE rules
    /\ UNCHANGED <<fileVars, served, owner, data, lastHash, lastProviders, events, adminVars>>

Applied(n, next) ==
    /\ events' = [events EXCEPT ![n] = next]
    /\ watcher' = IF events' = NoEvents THEN "idle" ELSE "apply"
    /\ UNCHANGED <<fileVars, rules, data, lastHash, lastProviders, adminVars>>

ApplyUpdatedInPlace(n) ==
    /\ watcher = "apply" /\ events[n] = "updated"
    /\ Register(n, lastProviders[n], "file") /\ Applied(n, "none")

ApplyAdded(n) ==
    /\ watcher = "apply" /\ events[n] = "added"
    /\ Register(n, lastProviders[n], "file") /\ Applied(n, "none")

\* Unregister, then Register as for an added one.
ApplyUpdated(n) ==
    /\ watcher = "apply" /\ events[n] = "updated"
    /\ Unregister(n, "file") /\ Applied(n, "added")

ApplyRemoved(n) ==
    /\ watcher = "apply" /\ events[n] = "removed"
    /\ Unregister(n, "file") /\ Applied(n, "none")

-----------------------------------------------------------------------------
Request == admin.at = "idle" /\ requests < MaxAdmin /\ requests' = requests + 1

\* handleAdminAddProvider and handleAdminRemoveProvider: nothing is persisted.
AdminAdd(n, e) ==
    /\ Request /\ Register(n, e, "admin")
    /\ UNCHANGED <<fileVars, rules, watchVars, admin, persisting>>

AdminRemove(n) ==
    /\ Request /\ Unregister(n, "admin")
    /\ UNCHANGED <<fileVars, rules, watchVars, admin, persisting>>

\* handleAdminEditProvider.
AdminEdit(n, e) ==
    /\ Request /\ Unregister(n, "admin")
    /\ admin' = [at |-> "register", name |-> n, entry |-> e]
    /\ UNCHANGED <<fileVars, rules, watchVars, persisting>>

AdminRegister ==
    /\ admin.at = "register"
    /\ Register(admin.name, admin.entry, "admin")
    /\ admin' = IF served'[admin.name] = Absent THEN NoRequest ELSE [admin EXCEPT !.at = "persist"]
    /\ UNCHANGED <<fileVars, rules, watchVars, persisting, requests>>

\* persistProviderToYAML: read, and give up without the entry;
AdminRead ==
    /\ admin.at = "persist"
    /\ IF file.valid /\ file.entries[admin.name] # Absent
         THEN admin' = [admin EXCEPT !.at = "truncate"] /\ persisting' = file
         ELSE admin' = NoRequest /\ UNCHANGED persisting
    /\ UNCHANGED <<fileVars, served, owner, rules, watchVars, requests>>

\* os.WriteFile truncates the file
AdminTruncate ==
    /\ admin.at = "truncate" /\ admin' = [admin EXCEPT !.at = "write"]
    /\ file' = Empty
    /\ UNCHANGED <<editing, edits, served, owner, rules, watchVars, persisting, requests>>

\* and writes what it had read with the new key, and nothing else of the request:
\* the fields that the struct does not name are gone, the rules with them.
Persisted ==
    Content([n \in Names |->
               [key |-> IF n = admin.name THEN admin.entry.key ELSE persisting.entries[n].key,
                rest |-> "default"]], 0)
AdminWrite ==
    /\ admin.at = "write" /\ admin' = NoRequest
    /\ file' = Persisted /\ persisting' = Empty
    /\ UNCHANGED <<editing, edits, served, owner, rules, watchVars, requests>>

-----------------------------------------------------------------------------
Editor == Replace \/ Truncate \/ Write
Watching ==
    \/ Start \/ Read \/ Unchanged \/ Changed \/ ReloadRules
    \/ \E n \in Names : ApplyAdded(n) \/ ApplyUpdated(n) \/ ApplyRemoved(n)
AdminStep == AdminRegister \/ AdminRead \/ AdminTruncate \/ AdminWrite
AdminCall == \E n \in Names : \/ AdminRemove(n)
                              \/ \E e \in Bodies : AdminAdd(n, e) \/ AdminEdit(n, e)

ReloadNext == Editor \/ Watching \/ AdminStep \/ AdminCall

ReloadSpec == ReloadInit /\ [][ReloadNext]_reloadVars

\* The ticker polls for ever, and whoever truncated the file writes it.
FairReloadSpec ==
    ReloadSpec /\ WF_reloadVars(Watching) /\ WF_reloadVars(AdminStep) /\ WF_reloadVars(Write)
-----------------------------------------------------------------------------
Contents == {Invalid} \cup {Content(e, r) : e \in [Names -> Entries \cup {Absent}], r \in 0..1}

ReloadTypeOK ==
    /\ {file, editing, data, lastHash, persisting} \subseteq Contents
    /\ served \in [Names -> Entries \cup {Absent}] /\ rules \in 0..1
    /\ lastProviders \in [Names -> Entries \cup {Absent}]
    /\ owner \in [Names -> {"file", "start", "admin"}]
    /\ watcher \in {"off", "idle", "read", "rules", "apply"}
    /\ events \in [Names -> {"none", "added", "updated", "removed"}]
    /\ admin.at \in {"idle", "register", "persist", "truncate", "write"}
    /\ edits \in 0..MaxEdits /\ requests \in 0..MaxAdmin

(***************************************************************************)
(* Between the events of a reload, the manager serves what the watcher     *)
(* believes it serves: no order of reloads and admin requests, two of      *)
(* which may interleave at every call of the manager, leaves a provider    *)
(* that the file was the last to change with another key or timeout than   *)
(* those in lastProviders, against which the next change is compared.      *)
(***************************************************************************)
ServedAsRemembered ==
    /\ ReloadTypeOK
    /\ \A n \in Names :
         watcher # "off" /\ events[n] = "none" /\ owner[n] = "file"
           => sameProvider(served[n], Built(lastProviders[n]))

(***************************************************************************)
(* Once the changes end, every provider that the file was the last to      *)
(* change is served with the key and timeout in the file, if that can be   *)
(* read: a torn read, a change during a reload and a rewriting by the      *)
(* admin API, which drops the timeout, are all repaired by a later poll.   *)
(***************************************************************************)
FollowsTheFile ==
    <>[](file.valid => \A n \in Names : owner[n] = "file" =>
                         sameProvider(served[n], Built(file.entries[n])))
=============================================================================
