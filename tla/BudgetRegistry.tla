---------------------------- MODULE BudgetRegistry ----------------------------
(***************************************************************************)
(* BudgetRegistry (src/budget/mod.rs): which counter a call of record uses,  *)
(* for one tenant, while the configuration is reloaded under it.  A call     *)
(* loads its limit, looks the tenant's counter up, replaces it if it was     *)
(* created for another window, and then adds to the one it holds, which may  *)
(* not be in the map any more.                                               *)
(*                                                                           *)
(* A counter is the sum of what was added to it: how it ages is the subject  *)
(* of SlidingWindow, and it does not age here.                               *)
(***************************************************************************)
EXTENDS ConfigReload, Sequences

CONSTANTS Threads,    \* concurrent callers
          Windows,    \* window lengths the file may give the tenant
          NoTenant,   \* the file does not name the tenant
          MaxCalls    \* bound: the number of calls

ASSUME RegistryOK == /\ Parsed = Windows \cup {NoTenant}
                     /\ NoTenant \notin Windows
                     /\ None \notin Windows \cup {NoTenant, Broken}

VARIABLES counters,   \* all counters ever created: [window, sum]
          entry,      \* the one in the map, 0 if there is none
          pc,         \* what a call does next
          limit,      \* the window of the limit it has loaded
          held,       \* the counter it holds
          calls,      \* the number of calls
          window,     \* history: the last window the tenant was given
          fresh,      \* history: the call loaded its limit under that window
          since,      \* history: what such calls have added
          overtaken   \* history: a call that had loaded another one was under way

registry == <<counters, entry, pc, limit, held, calls>>
history == <<window, fresh, since, overtaken>>
vars == <<configVars, registry, history>>

Init == /\ ConfigInit
        /\ counters = <<>>
        /\ entry = 0
        /\ pc = [t \in Threads |-> "idle"]
        /\ limit = [t \in Threads |-> None]
        /\ held = [t \in Threads |-> 0]
        /\ calls = 0
        /\ window = None
        /\ fresh = [t \in Threads |-> FALSE]
        /\ since = 0
        /\ overtaken = FALSE

-----------------------------------------------------------------------------
Goto(t, next) == pc' = [pc EXCEPT ![t] = next]

\* limit_for: the tenant is not configured ...
Refuse(t) == /\ boot = "watching"
             /\ pc[t] = "idle"
             /\ config = NoTenant
             /\ calls < MaxCalls
             /\ calls' = calls + 1
             /\ UNCHANGED <<configVars, counters, entry, pc, limit, held, history>>

\* ... or the call has its limit.
LoadLimit(t) == /\ boot = "watching"
                /\ pc[t] = "idle"
                /\ config \in Windows
                /\ calls < MaxCalls
                /\ calls' = calls + 1
                /\ limit' = [limit EXCEPT ![t] = config]
                /\ Goto(t, "find")
                /\ fresh' = [fresh EXCEPT ![t] = TRUE]
                /\ UNCHANGED <<configVars, counters, entry, held, window, since, overtaken>>

\* The tenant's counter can be used by a call with window w.
Fits(w) == entry # 0 /\ counters[entry].window = w

\* counter_for's fast path: a look at the map ...
Find(t) == /\ pc[t] = "find"
           /\ IF Fits(limit[t])
              THEN held' = [held EXCEPT ![t] = entry] /\ Goto(t, "add")
              ELSE Goto(t, "enter") /\ UNCHANGED held
           /\ UNCHANGED <<configVars, counters, entry, limit, calls, history>>

\* Mutants of Enter: what the fast path saw is not checked again; the entry is
\* taken as it is.
EnterUnchecked(t) ==
    /\ pc[t] = "enter"
    /\ counters' = Append(counters, [window |-> limit[t], sum |-> 0])
    /\ entry' = Len(counters')
    /\ held' = [held EXCEPT ![t] = entry']
    /\ Goto(t, "add")
    /\ UNCHANGED <<configVars, limit, calls, history>>
EnterAnyWindow(t) ==
    /\ pc[t] = "enter"
    /\ IF entry # 0 THEN UNCHANGED <<counters, entry>>
       ELSE /\ counters' = Append(counters, [window |-> limit[t], sum |-> 0])
            /\ entry' = Len(counters')
    /\ held' = [held EXCEPT ![t] = entry']
    /\ Goto(t, "add")
    /\ UNCHANGED <<configVars, limit, calls, history>>

\* ... and the slow path, under the entry's lock: a counter is created if there
\* is none or if it has another window.
Enter(t) ==
    /\ pc[t] = "enter"
    /\ IF Fits(limit[t]) THEN UNCHANGED <<counters, entry>>
       ELSE /\ counters' = Append(counters, [window |-> limit[t], sum |-> 0])
            /\ entry' = Len(counters')
    /\ held' = [held EXCEPT ![t] = entry']
    /\ Goto(t, "add")
    /\ UNCHANGED <<configVars, limit, calls, history>>

\* counter.add: the call's one token goes to the counter it holds.
AddToHeld(t) == /\ pc[t] = "add"
                /\ counters' = [counters EXCEPT ![held[t]].sum = @ + 1]
                /\ Goto(t, "idle")
                /\ limit' = [limit EXCEPT ![t] = None]
                /\ held' = [held EXCEPT ![t] = 0]
                /\ since' = IF fresh[t] THEN since + 1 ELSE since
                /\ UNCHANGED <<configVars, entry, calls, window, fresh, overtaken>>

Record(t) == LoadLimit(t) \/ Refuse(t) \/ Find(t) \/ Enter(t) \/ AddToHeld(t)

\* A configuration that gives the tenant another window starts the account of
\* what is recorded under it.
NewWindow == config' \in Windows /\ config' # window

Configure == /\ Load \/ Store
             /\ IF NewWindow
                THEN /\ window' = config'
                     /\ fresh' = [t \in Threads |-> FALSE]
                     /\ since' = 0
                     /\ overtaken' = \E t \in Threads : pc[t] \in {"find", "enter"}
                ELSE UNCHANGED history
             /\ UNCHANGED registry

Environment == /\ \/ \E part \in Contents, whole \in Contents : BeginWrite(part, whole)
                  \/ EndWrite
                  \/ Watch
                  \/ ReadFile
               /\ UNCHANGED <<registry, history>>

Next == (\E t \in Threads : Record(t)) \/ Configure \/ Environment

Spec == Init /\ [][Next]_vars
-----------------------------------------------------------------------------
\* The entry, and every counter a call holds, is one that was created.
TypeOK == /\ file \in Contents /\ writing \in Contents \cup {None}
          /\ boot \in {"start", "loaded", "watching"}
          /\ loaded \in Contents \cup {None}
          /\ config \in Parsed \cup {None}
          /\ notified \in BOOLEAN /\ missed \in BOOLEAN
          /\ counters \in Seq([window : Windows, sum : Nat])
          /\ entry \in 0 .. Len(counters)
          /\ pc \in [Threads -> {"idle", "find", "enter", "add"}]
          /\ limit \in [Threads -> Windows \cup {None}]
          /\ held \in [Threads -> 0 .. Len(counters)]
          /\ writes \in Nat /\ calls \in Nat
          /\ window \in Windows \cup {None}
          /\ fresh \in [Threads -> BOOLEAN]
          /\ since \in Nat /\ overtaken \in BOOLEAN
          /\ \A t \in Threads : /\ pc[t] = "add" <=> held[t] # 0
                                /\ pc[t] = "idle" <=> limit[t] = None

\* The comments of counter_for: a reload that changes the window recreates the
\* counter instead of running it against a stale window.  Whatever reloads and
\* other callers do between its look-ups, a call adds to a counter of the
\* window it has loaded.
AddsToItsWindow ==
    \A t \in Threads : pc[t] = "add" => counters[held[t]].window = limit[t]

\* What is recorded under a window is in the tenant's counter, however many
\* first calls race and whether or not the tenant was removed in between,
\* unless a call with another window was under way when this one was configured.
KeptUnlessOvertaken ==
    since > 0 /\ ~overtaken => /\ entry # 0
                               /\ counters[entry].window = window
                               /\ counters[entry].sum >= since

\* README: the config file hot-reloads on change.  When no change is waiting
\* for the watcher, the configuration is what the file says, unless the file is
\* malformed or has not been written since the watch began.
SettledAgrees ==
    boot = "watching" /\ ~notified /\ loaded = None /\ ~missed =>
       config = file \/ file = Broken
=============================================================================
