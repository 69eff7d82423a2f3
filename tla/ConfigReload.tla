----------------------------- MODULE ConfigReload -----------------------------
(***************************************************************************)
(* The configuration (src/config.rs, src/main.rs): loaded from its file when *)
(* the process starts, then reloaded by a watcher whenever the file changes. *)
(*                                                                           *)
(* A file is written in two steps, with a notification after each once it    *)
(* is watched; in between it holds a part of what is written, which may be   *)
(* malformed or may parse.  The watcher's callback reads the file and then   *)
(* stores what it has parsed.  Notifications of changes that no callback has *)
(* seen yet are one flag: the callback reads the file as it is when it runs. *)
(***************************************************************************)
EXTENDS Naturals

CONSTANTS Parsed,     \* what a well-formed file says of the tenant
          Broken,     \* a file that load_from_file rejects
          MaxWrites   \* bound: the number of times the file is written

ASSUME ConfigOK == Broken \notin Parsed /\ MaxWrites \in Nat

Contents == Parsed \cup {Broken}

VARIABLES file,       \* what reading the file would give
          writing,    \* what the file will hold when the write under way ends
          writes,     \* the number of writes
          boot,       \* "start", "loaded" or "watching"
          notified,   \* a change has not been handled
          loaded,     \* what the callback has read and not stored yet
          config,     \* the shared configuration
          missed      \* history: the last change came before the watch

None == "none"

files == <<file, writing, writes>>
watcher == <<boot, notified, loaded, config, missed>>
configVars == <<files, watcher>>

ConfigInit == /\ file \in Parsed
              /\ writing = None
              /\ writes = 0
              /\ boot = "start"
              /\ notified = FALSE
              /\ loaded = None
              /\ config = None
              /\ missed = FALSE

-----------------------------------------------------------------------------
(* The operator writes the file.                                             *)

\* The file changed: the watcher is told, once there is one.
Notify == /\ notified' = (notified \/ boot = "watching")
          /\ missed' = (boot = "loaded")
          /\ UNCHANGED <<boot, loaded, config>>

BeginWrite(part, whole) == /\ writing = None
                           /\ writes < MaxWrites
                           /\ file' = part
                           /\ writing' = whole
                           /\ writes' = writes + 1
                           /\ Notify

EndWrite == /\ writing # None
            /\ file' = writing
            /\ writing' = None
            /\ UNCHANGED writes
            /\ Notify

-----------------------------------------------------------------------------
(* The process.                                                              *)

\* load_shared: the process does not start with a file it cannot parse.
Load == /\ boot = "start"
        /\ file \in Parsed
        /\ config' = file
        /\ boot' = "loaded"
        /\ UNCHANGED <<files, notified, loaded, missed>>

\* watch
Watch == /\ boot = "loaded"
         /\ boot' = "watching"
         /\ UNCHANGED <<files, notified, loaded, config, missed>>

\* The watcher's callback runs: it reads the file ...
ReadFile == /\ notified
            /\ loaded = None
            /\ notified' = FALSE
            /\ loaded' = file
            /\ UNCHANGED <<files, boot, config, missed>>

\* Mutants of Store: a malformed file is stored; changes that came while the
\* callback ran are taken as handled.
StoreUnchecked == /\ loaded # None
                  /\ config' = loaded
                  /\ loaded' = None
                  /\ UNCHANGED <<files, boot, notified, missed>>
StoreAndSettle == /\ loaded # None
                  /\ config' = IF loaded = Broken THEN config ELSE loaded
                  /\ loaded' = None
                  /\ notified' = FALSE
                  /\ UNCHANGED <<files, boot, missed>>

\* ... and stores what it says, or ignores it if it is malformed.
Store == /\ loaded # None
         /\ config' = IF loaded = Broken THEN config ELSE loaded
         /\ loaded' = None
         /\ UNCHANGED <<files, boot, notified, missed>>
=============================================================================
