------------------------ MODULE BudgetRegistry_proofs ------------------------
(***************************************************************************)
(* For any number of callers, calls, window lengths and writes of the file:  *)
(* no call runs against a counter of another window, what is recorded under  *)
(* a window stays in the tenant's counter unless an older call overtakes the *)
(* reload, and the configuration settles to what the file says.              *)
(***************************************************************************)
EXTENDS BudgetRegistry, SequenceTheorems, TLAPS

\* The configuration is the last window given, unless the tenant was removed.
ConfigIsWindow == config \in Windows => config = window

\* Since a window was given with no call under way that had loaded another,
\* every call looks for a counter of that window.
AllSeekWindow ==
    ~overtaken => \A t \in Threads : pc[t] \in {"find", "enter"} => limit[t] = window

\* A call that loaded its limit under the window seeks that window, and once it
\* has found its counter it holds the entry.
FreshHoldEntry ==
    \A t \in Threads : fresh[t] /\ pc[t] # "idle" =>
       /\ limit[t] = window
       /\ pc[t] = "add" /\ ~overtaken => held[t] = entry

\* What the watcher has read and not stored is what the file says, if it has
\* not been told of a change since.
ReadIsCurrent ==
    /\ boot # "watching" => ~notified /\ loaded = None
    /\ boot = "start" => ~missed
    /\ boot # "start" /\ ~notified /\ ~missed =>
          IF loaded = None THEN config = file \/ file = Broken ELSE loaded = file

Inv == /\ TypeOK
       /\ ConfigIsWindow
       /\ AddsToItsWindow
       /\ AllSeekWindow
       /\ FreshHoldEntry
       /\ KeptUnlessOvertaken
       /\ ReadIsCurrent

-----------------------------------------------------------------------------
\* Counters are only added to, at the end or in their sum: one that was created
\* keeps its window, and its sum does not shrink.
LEMMA NewCounter ==
  ASSUME TypeOK, NEW w \in Windows,
         counters' = Append(counters, [window |-> w, sum |-> 0])
  PROVE  /\ counters' \in Seq([window : Windows, sum : Nat])
         /\ Len(counters') = Len(counters) + 1
         /\ counters'[Len(counters')] = [window |-> w, sum |-> 0]
         /\ \A i \in 1 .. Len(counters) : counters'[i] = counters[i]
<1> DEFINE c == [window |-> w, sum |-> 0]
<1>1. c \in [window : Windows, sum : Nat]
  OBVIOUS
<1> HIDE DEF c
<1>2. counters \in Seq([window : Windows, sum : Nat]) /\ counters' = Append(counters, c)
  BY DEF TypeOK, c
<1>3. /\ counters' \in Seq([window : Windows, sum : Nat])
      /\ Len(counters') = Len(counters) + 1
      /\ counters'[Len(counters) + 1] = c
      /\ \A i \in 1 .. Len(counters) : counters'[i] = counters[i]
  BY <1>1, <1>2
<1> QED
  BY <1>3 DEF c

LEMMA LargerSum ==
  ASSUME TypeOK, NEW h \in 1 .. Len(counters),
         counters' = [counters EXCEPT ![h].sum = @ + 1]
  PROVE  /\ counters' \in Seq([window : Windows, sum : Nat])
         /\ Len(counters') = Len(counters)
         /\ counters'[h].sum = counters[h].sum + 1
         /\ \A i \in 1 .. Len(counters) : /\ counters'[i].window = counters[i].window
                                         /\ counters'[i].sum >= counters[i].sum
<1> DEFINE c == [window |-> counters[h].window, sum |-> counters[h].sum + 1]
<1>1. /\ \A i \in 1 .. Len(counters) : counters[i] \in [window : Windows, sum : Nat]
      /\ counters \in Seq([window : Windows, sum : Nat])
  <2>1. counters \in Seq([window : Windows, sum : Nat])
    BY DEF TypeOK
  <2>2. counters \in [1 .. Len(counters) -> [window : Windows, sum : Nat]]
    BY <2>1, LenProperties
  <2> QED
    BY <2>1, <2>2
<1>2. c \in [window : Windows, sum : Nat]
  BY <1>1
<1>3. counters' = [counters EXCEPT ![h] = c]
  <2>1. [counters[h] EXCEPT !.sum = @ + 1] = c
    BY <1>1
  <2> QED
    BY <2>1
<1>5. c.window = counters[h].window /\ c.sum = counters[h].sum + 1
  OBVIOUS
<1> HIDE DEF c
<1>4. /\ counters' \in Seq([window : Windows, sum : Nat])
      /\ Len(counters') = Len(counters)
      /\ counters'[h] = c
      /\ \A i \in 1 .. Len(counters) : i # h => counters'[i] = counters[i]
  BY <1>1, <1>2, <1>3, ExceptSeq
<1> QED
  BY <1>1, <1>4, <1>5

\* The process starts with a file that names a window or no tenant.
LEMMA InitInv == Init => Inv
<1> SUFFICES ASSUME Init
             PROVE  Inv
  OBVIOUS
<1>1. counters \in Seq([window : Windows, sum : Nat]) /\ entry \in 0 .. Len(counters)
      /\ held \in [Threads -> 0 .. Len(counters)]
  BY EmptySeq DEF Init
<1>2. TypeOK
  BY <1>1, ConfigOK, RegistryOK DEF Init, ConfigInit, TypeOK, Contents
<1> QED
  BY <1>2, RegistryOK DEF Init, ConfigInit, Inv, ConfigIsWindow, AddsToItsWindow, AllSeekWindow,
     FreshHoldEntry, KeptUnlessOvertaken, ReadIsCurrent

-----------------------------------------------------------------------------
\* Calls leave the configuration and its file alone, and what the invariant
\* says of them.
LEMMA CallKeepsConfig ==
  ASSUME Inv, NEW t \in Threads, Record(t)
  PROVE  /\ ConfigIsWindow' /\ ReadIsCurrent'
         /\ UNCHANGED <<configVars, window, overtaken>>
<1>1. UNCHANGED <<configVars, window, overtaken>>
  BY DEF Record, LoadLimit, Refuse, Find, Enter, AddToHeld, history
<1> QED
  BY <1>1 DEF Inv, ConfigIsWindow, ReadIsCurrent, configVars, files, watcher

\* A call that has its limit keeps the invariant ...
LEMMA LoadLimitKeeps ==
  ASSUME Inv, NEW t \in Threads, LoadLimit(t) \/ Refuse(t)
  PROVE  Inv'
<1>1. ConfigIsWindow' /\ ReadIsCurrent'
  BY CallKeepsConfig DEF Record
<1>2. CASE Refuse(t)
  BY <1>1, <1>2 DEF Refuse, Inv, TypeOK, AddsToItsWindow, AllSeekWindow, FreshHoldEntry,
     KeptUnlessOvertaken, history, configVars, files, watcher
<1>3. CASE LoadLimit(t)
  <2>1. config = window /\ config \in Windows /\ config # None
    BY <1>3, RegistryOK DEF LoadLimit, Inv, ConfigIsWindow
  <2>2. TypeOK'
    BY <1>3, <2>1 DEF LoadLimit, Goto, Inv, TypeOK, configVars, files, watcher
  <2>3. AddsToItsWindow' /\ KeptUnlessOvertaken'
    BY <1>3 DEF LoadLimit, Goto, Inv, TypeOK, AddsToItsWindow, KeptUnlessOvertaken
  <2>4. AllSeekWindow' /\ FreshHoldEntry'
    BY <1>3, <2>1 DEF LoadLimit, Goto, Inv, TypeOK, AllSeekWindow, FreshHoldEntry
  <2> QED
    BY <1>1, <2>2, <2>3, <2>4 DEF Inv
<1> QED
  BY <1>2, <1>3

\* ... and so does one that finds its counter, or finds that it does not fit ...
LEMMA FindKeeps ==
  ASSUME Inv, NEW t \in Threads, Find(t)
  PROVE  Inv'
<1>1. ConfigIsWindow' /\ ReadIsCurrent'
  BY CallKeepsConfig DEF Record
<1>2. TypeOK'
  <2>1. limit[t] # None
    BY DEF Find, Inv, TypeOK
  <2> QED
    BY <2>1 DEF Find, Fits, Goto, Inv, TypeOK, configVars, files, watcher, history
<1>3. AddsToItsWindow' /\ KeptUnlessOvertaken'
  BY DEF Find, Fits, Goto, Inv, TypeOK, AddsToItsWindow, KeptUnlessOvertaken, history
<1>4. AllSeekWindow' /\ FreshHoldEntry'
  BY DEF Find, Fits, Goto, Inv, TypeOK, AllSeekWindow, FreshHoldEntry, history
<1> QED
  BY <1>1, <1>2, <1>3, <1>4 DEF Inv

\* ... one that enters a counter for its window: the entry it replaces has
\* another window, so nothing recorded under the tenant's window is lost ...
LEMMA EnterKeeps ==
  ASSUME Inv, NEW t \in Threads, Enter(t)
  PROVE  Inv'
<1>1. ConfigIsWindow' /\ ReadIsCurrent'
  BY CallKeepsConfig DEF Record
<1>a. /\ limit[t] \in Windows /\ pc[t] = "enter"
      /\ TypeOK
  BY RegistryOK DEF Enter, Inv, TypeOK
<1>2. /\ counters' \in Seq([window : Windows, sum : Nat])
      /\ Len(counters') >= Len(counters)
      /\ entry' \in 1 .. Len(counters')
      /\ counters'[entry'].window = limit[t]
      /\ \A i \in 1 .. Len(counters) : counters'[i] = counters[i]
      /\ entry' = entry \/ ~Fits(limit[t])
  <2>1. CASE Fits(limit[t])
    BY <1>a, <2>1, LenProperties DEF Enter, Fits, TypeOK
  <2>2. CASE ~Fits(limit[t])
    <3>1. counters' = Append(counters, [window |-> limit[t], sum |-> 0]) /\ entry' = Len(counters')
      BY <2>2 DEF Enter
    <3>2. /\ counters' \in Seq([window : Windows, sum : Nat])
          /\ Len(counters') = Len(counters) + 1
          /\ counters'[Len(counters')] = [window |-> limit[t], sum |-> 0]
          /\ \A i \in 1 .. Len(counters) : counters'[i] = counters[i]
      BY <1>a, <3>1, NewCounter
    <3>3. Len(counters) \in Nat
      BY <1>a, LenProperties DEF TypeOK
    <3> QED
      BY <2>2, <3>1, <3>2, <3>3
  <2> QED
    BY <2>1, <2>2
<1>3. TypeOK'
  BY <1>a, <1>2, LenProperties DEF Enter, Goto, TypeOK, configVars, files, watcher, history
<1>4. AddsToItsWindow'
  BY <1>a, <1>2 DEF Enter, Goto, Inv, TypeOK, AddsToItsWindow
<1>5. AllSeekWindow'
  BY <1>a DEF Enter, Goto, Inv, TypeOK, AllSeekWindow, history
<1>6. ~overtaken => limit[t] = window
  BY <1>a DEF Inv, AllSeekWindow
<1>7. FreshHoldEntry'
  <2> SUFFICES ASSUME NEW u \in Threads, fresh[u], pc'[u] # "idle"
               PROVE  /\ limit[u] = window
                      /\ pc'[u] = "add" /\ ~overtaken => held'[u] = entry'
    BY DEF Enter, FreshHoldEntry, history
  <2>1. CASE u = t
    BY <1>a, <2>1 DEF Enter, Goto, Inv, TypeOK, FreshHoldEntry
  <2>2. CASE u # t
    <3>1. pc'[u] = pc[u] /\ held'[u] = held[u]
      BY <1>a, <2>2 DEF Enter, Goto, TypeOK
    <3>2. pc[u] = "add" /\ ~overtaken => /\ held[u] = entry /\ entry # 0
                                        /\ counters[entry].window = limit[u]
      BY <3>1 DEF Inv, TypeOK, FreshHoldEntry, AddsToItsWindow
    <3>3. limit[u] = window
      BY <3>1 DEF Inv, FreshHoldEntry
    <3> QED
      BY <1>2, <1>6, <3>1, <3>2, <3>3 DEF Fits
  <2> QED
    BY <2>1, <2>2
<1>8. KeptUnlessOvertaken'
  <2> SUFFICES ASSUME since > 0, ~overtaken
               PROVE  /\ entry' # 0 /\ counters'[entry'].window = window
                      /\ counters'[entry'].sum >= since
    BY DEF Enter, KeptUnlessOvertaken, history
  <2>1. /\ entry # 0 /\ counters[entry].window = window
        /\ counters[entry].sum >= since
    BY DEF Inv, KeptUnlessOvertaken
  <2>2. entry' = entry /\ entry \in 1 .. Len(counters)
    BY <1>2, <1>6, <1>a, <2>1 DEF Fits, TypeOK
  <2> QED
    BY <1>2, <2>1, <2>2
<1> QED
  BY <1>1, <1>3, <1>4, <1>5, <1>7, <1>8 DEF Inv

\* ... and one that adds to the counter it holds.
LEMMA AddKeeps ==
  ASSUME Inv, NEW t \in Threads, AddToHeld(t)
  PROVE  Inv'
<1>1. ConfigIsWindow' /\ ReadIsCurrent'
  BY CallKeepsConfig DEF Record
<1>a. held[t] \in 1 .. Len(counters) /\ pc[t] = "add" /\ TypeOK
  BY DEF AddToHeld, Inv, TypeOK
<1>2. /\ counters' \in Seq([window : Windows, sum : Nat])
      /\ Len(counters') = Len(counters)
      /\ counters'[held[t]].sum = counters[held[t]].sum + 1
      /\ \A i \in 1 .. Len(counters) : /\ counters'[i].window = counters[i].window
                                      /\ counters'[i].sum >= counters[i].sum
  BY <1>a, LargerSum DEF AddToHeld
<1>3. TypeOK'
  BY <1>a, <1>2 DEF AddToHeld, Goto, TypeOK, configVars, files, watcher
<1>4. AddsToItsWindow'
  <2> SUFFICES ASSUME NEW u \in Threads, pc'[u] = "add"
               PROVE  counters'[held'[u]].window = limit'[u]
    BY DEF AddsToItsWindow
  <2>1. u # t /\ pc[u] = "add" /\ held'[u] = held[u] /\ limit'[u] = limit[u]
    BY <1>a DEF AddToHeld, Goto, TypeOK
  <2>2. held[u] \in 1 .. Len(counters) /\ counters[held[u]].window = limit[u]
    BY <2>1 DEF Inv, TypeOK, AddsToItsWindow
  <2> QED
    BY <1>2, <2>1, <2>2
<1>5. AllSeekWindow' /\ FreshHoldEntry'
  BY <1>a DEF AddToHeld, Goto, Inv, TypeOK, AllSeekWindow, FreshHoldEntry
<1>6. KeptUnlessOvertaken'
  <2> SUFFICES ASSUME since' > 0, ~overtaken
               PROVE  /\ entry # 0 /\ counters'[entry].window = window
                      /\ counters'[entry].sum >= since'
    BY DEF AddToHeld, KeptUnlessOvertaken
  <2>1. \A i \in 1 .. Len(counters) : counters[i].sum \in Nat /\ counters'[i].sum \in Nat
    <3>1. /\ counters \in [1 .. Len(counters) -> [window : Windows, sum : Nat]]
          /\ counters' \in [1 .. Len(counters) -> [window : Windows, sum : Nat]]
      BY <1>a, <1>2, LenProperties DEF TypeOK
    <3> QED
      BY <3>1
  <2>2. since > 0 => /\ entry \in 1 .. Len(counters) /\ counters[entry].window = window
                     /\ counters[entry].sum >= since
    BY DEF Inv, TypeOK, KeptUnlessOvertaken
  <2>3. CASE fresh[t]
    <3>1. held[t] = entry /\ counters[entry].window = window
      BY <1>a, <2>3 DEF Inv, FreshHoldEntry, AddsToItsWindow
    <3>2. since' = since + 1
      BY <2>3 DEF AddToHeld
    <3> QED
      BY <1>a, <1>2, <2>1, <2>2, <3>1, <3>2 DEF TypeOK
  <2>4. CASE ~fresh[t]
    <3>1. since' = since
      BY <2>4 DEF AddToHeld
    <3> QED
      BY <1>a, <1>2, <2>1, <2>2, <3>1 DEF TypeOK
  <2> QED
    BY <2>3, <2>4
<1> QED
  BY <1>1, <1>3, <1>4, <1>5, <1>6 DEF Inv

\* The configuration is set: the account of the tenant's window starts anew if
\* it is another one.
LEMMA ConfigureKeeps ==
  ASSUME Inv, Configure
  PROVE  Inv'
<1>a. TypeOK /\ config' \in Parsed \cup {None}
  BY RegistryOK DEF Configure, Load, Store, Inv, TypeOK, Contents
<1>1. ReadIsCurrent'
  BY <1>a, ConfigOK DEF Configure, Load, Store, files, Inv, ReadIsCurrent, TypeOK, Contents
<1>2. CASE NewWindow
  <2>0. overtaken' \in BOOLEAN
    BY <1>2, Zenon DEF Configure
  <2>a. /\ window' \in Windows /\ since' = 0
        /\ fresh' \in [Threads -> BOOLEAN]
        /\ UNCHANGED registry
    BY <1>2 DEF Configure, NewWindow
  <2>b. Load \/ Store
    BY DEF Configure
  <2>1. TypeOK'
    BY <1>a, <2>0, <2>a, <2>b DEF Load, Store, files, registry, TypeOK
  <2>2. ConfigIsWindow' /\ AddsToItsWindow'
    BY <1>2 DEF Configure, registry, Inv, ConfigIsWindow, AddsToItsWindow
  <2>3. AllSeekWindow'
    BY <1>2 DEF Configure, registry, AllSeekWindow
  <2>4. FreshHoldEntry' /\ KeptUnlessOvertaken'
    BY <1>2 DEF Configure, registry, FreshHoldEntry, KeptUnlessOvertaken
  <2> QED
    BY <1>1, <2>1, <2>2, <2>3, <2>4 DEF Inv
<1>3. CASE ~NewWindow
  <2>1. TypeOK'
    BY <1>a, <1>3 DEF Configure, Load, Store, files, registry, history, TypeOK
  <2>2. ConfigIsWindow'
    BY <1>3 DEF Configure, NewWindow, history, ConfigIsWindow
  <2>3. AddsToItsWindow' /\ AllSeekWindow' /\ FreshHoldEntry' /\ KeptUnlessOvertaken'
    BY <1>3 DEF Configure, registry, history, Inv, AddsToItsWindow, AllSeekWindow,
       FreshHoldEntry, KeptUnlessOvertaken
  <2> QED
    BY <1>1, <2>1, <2>2, <2>3 DEF Inv
<1> QED
  BY <1>2, <1>3

\* The file is written, watched or read: no call is concerned.
LEMMA EnvironmentKeeps ==
  ASSUME Inv, Environment
  PROVE  Inv'
<1>1. UNCHANGED <<config, registry, history>>
  BY DEF Environment, BeginWrite, EndWrite, Watch, ReadFile, Notify
<1>a. TypeOK /\ ReadIsCurrent
  BY DEF Inv
<1>b. ASSUME Notify, UNCHANGED <<config, registry, history>>,
             file' \in Contents, writing' \in Contents \cup {None}, writes' \in Nat
      PROVE  TypeOK' /\ ReadIsCurrent'
  <2>1. notified' \in BOOLEAN /\ missed' \in BOOLEAN
    BY <1>b, Zenon DEF Notify
  <2>2. TypeOK'
    BY <1>a, <1>b, <2>1 DEF Notify, registry, history, TypeOK
  <2>3. boot = "watching" => notified'
    BY <1>b DEF Notify
  <2>4. boot = "loaded" => missed'
    BY <1>b DEF Notify
  <2>5. boot = "start" => ~missed' /\ ~notified'
    BY <1>a, <1>b DEF Notify, ReadIsCurrent
  <2>6. boot # "watching" => ~notified'
    BY <1>a, <1>b DEF Notify, ReadIsCurrent
  <2>7. UNCHANGED <<boot, loaded>> /\ boot \in {"start", "loaded", "watching"}
    BY <1>a, <1>b DEF Notify, TypeOK
  <2>8. ReadIsCurrent'
    BY <1>a, <2>3, <2>4, <2>5, <2>6, <2>7 DEF ReadIsCurrent
  <2> QED
    BY <2>2, <2>8
<1>c. ASSUME Watch \/ ReadFile
      PROVE  TypeOK' /\ ReadIsCurrent'
  <2>1. None \notin Contents
    BY RegistryOK DEF Contents
  <2>2. TypeOK'
    BY <1>1, <1>a, <1>c DEF Watch, ReadFile, files, registry, history, TypeOK
  <2>3. ReadIsCurrent'
    BY <1>a, <1>c, <2>1 DEF Watch, ReadFile, files, TypeOK, ReadIsCurrent
  <2> QED
    BY <2>2, <2>3
<1>2. ASSUME NEW part \in Contents, NEW whole \in Contents, BeginWrite(part, whole)
      PROVE  TypeOK' /\ ReadIsCurrent'
  BY <1>1, <1>2, <1>a, <1>b DEF BeginWrite, TypeOK
<1>3. ASSUME EndWrite
      PROVE  TypeOK' /\ ReadIsCurrent'
  BY <1>1, <1>3, <1>a, <1>b DEF EndWrite, TypeOK
<1>4. ConfigIsWindow' /\ AddsToItsWindow' /\ AllSeekWindow' /\ FreshHoldEntry' /\ KeptUnlessOvertaken'
  BY <1>1 DEF registry, history, Inv, ConfigIsWindow, AddsToItsWindow, AllSeekWindow,
     FreshHoldEntry, KeptUnlessOvertaken
<1>5. TypeOK' /\ ReadIsCurrent'
  BY <1>2, <1>3, <1>c DEF Environment
<1> QED
  BY <1>4, <1>5 DEF Inv

\* The invariant holds of every reachable state.
LEMMA Invariance == Spec => []Inv
<1>1. Inv /\ UNCHANGED vars => Inv'
  BY DEF vars, configVars, files, watcher, registry, history, Inv, TypeOK, ConfigIsWindow,
     AddsToItsWindow, AllSeekWindow, FreshHoldEntry, KeptUnlessOvertaken, ReadIsCurrent
<1>2. Inv /\ Next => Inv'
  BY LoadLimitKeeps, FindKeeps, EnterKeeps, AddKeeps, ConfigureKeeps, EnvironmentKeeps
     DEF Next, Record
<1> QED
  BY InitInv, <1>1, <1>2, PTL DEF Spec

-----------------------------------------------------------------------------
\* A call between two look-ups holds a handle of a counter that exists, and the
\* map's entries are counters of the registry.
THEOREM RegistryTypes == Spec => []TypeOK
<1>1. Inv => TypeOK
  BY DEF Inv
<1> QED
  BY Invariance, <1>1, PTL

\* Whatever reloads and other callers do between its look-ups, a call of record
\* adds to a counter of the window it has loaded.
THEOREM NoStaleWindow == Spec => []AddsToItsWindow
<1>1. Inv => AddsToItsWindow
  BY DEF Inv
<1> QED
  BY Invariance, <1>1, PTL

\* What is recorded under a window stays in the tenant's counter: racing first
\* calls and reloads that remove and restore the tenant lose nothing of it,
\* unless a call with another window was under way when it was configured.
THEOREM NothingLost == Spec => []KeptUnlessOvertaken
<1>1. Inv => KeptUnlessOvertaken
  BY DEF Inv
<1> QED
  BY Invariance, <1>1, PTL

\* Once the watcher has handled the changes it was told of, the configuration is
\* what the file says, if it is well formed and was written while watched.
THEOREM ReloadSettles == Spec => []SettledAgrees
<1>1. Inv => SettledAgrees
  BY DEF Inv, ReadIsCurrent, SettledAgrees
<1> QED
  BY Invariance, <1>1, PTL
=============================================================================
