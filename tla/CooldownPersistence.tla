-------------------------- MODULE CooldownPersistence --------------------------
(***************************************************************************)
(* The cooldowns of credentials on disk: when the manager saves them, what *)
(* FileCooldownStateStore.Save leaves behind when it fails or the process  *)
(* dies in it, and what RestoreCooldownStates brings back at start and at  *)
(* a config reload (sdk/aps/auth/conductor_cooldown.go, cooldown_state.go).*)
(*                                                                         *)
(* An auth has one window and one file; the rules that choose a window are *)
(* those of Cooldown.  Time is a bounded clock.  Temporary files are left  *)
(* out: Load does not read them, and a rename replaces a file at once.     *)
(***************************************************************************)
EXTENDS Naturals

CONSTANTS
    Auths,
    CredentialWide,  \* auths whose window covers the whole credential
    Workers,         \* goroutines that report results
    Main,            \* the goroutine that starts the service and reloads configs
    Nobody,
    MaxTime          \* bound on the clock and on deadlines

ASSUME AuthsAssumption == CredentialWide \subseteq Auths
ASSUME ProcsAssumption == Main \notin Workers /\ Nobody \notin Workers \union {Main}
ASSUME TimeAssumption == MaxTime \in Nat

VARIABLES
    now,
    up,             \* the service serves requests
    window,         \* deadline until which an auth is blocked, 0 for none
    disabled,       \* auths whose cooling the current config disables
    disk,           \* deadline in the file of an auth, 0 for no file
    pc,             \* where a goroutine is
    holder,         \* who holds configCooldownMu
    records,        \* the snapshot that is being saved
    toWrite, toRemove, \* files Save has still to write and to remove
    loaded, toLoad, \* what Load has read so far, and what it has not
    failed,         \* history: the last save or the load at start failed
    safe,           \* history: windows a completed save covers
    clearing,       \* history: windows a config update cleared, not yet saved
    forgotten       \* history: windows whose clearing was saved

saveVars == <<records, toWrite, toRemove>>
loadVars == <<loaded, toLoad>>
history == <<failed, safe, clearing, forgotten>>
vars == <<now, up, window, disabled, disk, pc, holder, saveVars, loadVars, history>>

Procs == Workers \union {Main}
Times == 0..MaxTime
Deadlines == 1..MaxTime
NoWindow == [a \in Auths |-> 0]

Live(d) == d > now

\* The process is down, and the files may be from an earlier run.
Init ==
    /\ now = 0
    /\ up = FALSE
    /\ window = NoWindow
    /\ disabled = {}
    /\ disk \in [Auths -> Times]
    /\ pc = [p \in Procs |-> IF p = Main THEN "down" ELSE "idle"]
    /\ holder = Nobody
    /\ records = NoWindow
    /\ toWrite = {} /\ toRemove = {}
    /\ loaded = NoWindow /\ toLoad = {}
    /\ failed = FALSE
    /\ safe = disk
    /\ clearing = {} /\ forgotten = {}

Goto(p, to) == pc' = [pc EXCEPT ![p] = to]

Tick ==
    /\ now < MaxTime
    /\ now' = now + 1
    /\ UNCHANGED <<up, window, disabled, disk, pc, holder, saveVars, loadVars, history>>

-----------------------------------------------------------------------------
(* MarkResult, ResetQuota and the other methods that persist *)

\* Memory changes under m.mu; the caller saves afterwards if the auth's records
\* changed.
ChangeWindow(a, d) ==
    /\ window' = [window EXCEPT ![a] = d]
    /\ safe' = [safe EXCEPT ![a] = 0]
    /\ clearing' = clearing \ {<<a, d>>}
    /\ forgotten' = forgotten \ {<<a, d>>}

\* A failure blocks the auth.  Where cooling is disabled only a forced cooldown
\* does, and nothing is recorded of it.
MarkFailure(w, a) ==
    \E d \in Deadlines :
      /\ up /\ pc[w] = "idle"
      /\ Live(d)
      /\ ChangeWindow(a, d)
      /\ Goto(w, IF a \in disabled THEN "idle" ELSE "changed")
      /\ UNCHANGED <<now, up, disabled, disk, holder, saveVars, loadVars, failed>>

\* A success, or ResetQuota: an expired window had no record any more.
ClearWindow(w, a) ==
    /\ up /\ pc[w] = "idle"
    /\ window[a] # 0
    /\ ChangeWindow(a, 0)
    /\ Goto(w, IF a \in disabled \/ ~Live(window[a]) THEN "idle" ELSE "changed")
    /\ UNCHANGED <<now, up, disabled, disk, holder, saveVars, loadVars, failed>>

\* PersistCooldownStates
Persist(w) ==
    /\ up /\ pc[w] = "idle"
    /\ Goto(w, "changed")
    /\ UNCHANGED <<now, up, window, disabled, disk, holder, saveVars, loadVars, history>>

\* cooldownStateRecordsSnapshot: unexpired windows, where cooling is not disabled.
Recorded == {a \in Auths \ disabled : Live(window[a])}

TakeSnapshot ==
    /\ records' = [a \in Auths |-> IF a \in Recorded THEN window[a] ELSE 0]
    /\ toWrite' = Recorded
    /\ toRemove' = Auths \ Recorded

\* Mutant: a caller that finds a save under way relies on it.
SaveBegins_Coalesced(p) ==
    /\ pc[p] = "changed"
    /\ IF holder = Nobody
       THEN holder' = p /\ TakeSnapshot /\ Goto(p, "saving")
       ELSE Goto(p, "idle") /\ UNCHANGED <<holder, saveVars>>
    /\ UNCHANGED <<now, up, window, disabled, disk, loadVars, history>>

\* persistCooldownStates: configCooldownMu is held over snapshot and save.
SaveBegins(p) ==
    /\ pc[p] = "changed"
    /\ holder = Nobody
    /\ holder' = p
    /\ TakeSnapshot
    /\ Goto(p, "saving")
    /\ UNCHANGED <<now, up, window, disabled, disk, loadVars, history>>

-----------------------------------------------------------------------------
(* FileCooldownStateStore.Save, in the goroutine that holds the mutex *)

InSave(p) == holder = p /\ pc[p] \in {"saving", "applying"}

WriteFile(p, a) ==
    /\ InSave(p)
    /\ a \in toWrite
    /\ toWrite' = toWrite \ {a}
    /\ disk' = [disk EXCEPT ![a] = records[a]]
    /\ UNCHANGED <<now, up, window, disabled, pc, holder, records, toRemove, loadVars,
                   history>>

\* Mutant: the directory is emptied before it is written.
RemoveStale_First(p, a) ==
    /\ InSave(p)
    /\ toRemove # {} /\ a \in toRemove \union toWrite
    /\ toRemove' = toRemove \ {a}
    /\ disk' = [disk EXCEPT ![a] = 0]
    /\ UNCHANGED <<now, up, window, disabled, pc, holder, records, toWrite, loadVars,
                   history>>

\* Files without records go last.
RemoveStale(p, a) ==
    /\ InSave(p)
    /\ toWrite = {} /\ a \in toRemove
    /\ toRemove' = toRemove \ {a}
    /\ disk' = [disk EXCEPT ![a] = 0]
    /\ UNCHANGED <<now, up, window, disabled, pc, holder, records, toWrite, loadVars,
                   history>>

SaveOver == holder' = Nobody /\ toWrite' = {} /\ toRemove' = {} /\ records' = NoWindow

\* Where a goroutine goes after its save: a reload goes on to restore.
AfterSave(p) ==
    IF pc[p] = "applying" THEN /\ Goto(p, "load")
                               /\ loaded' = NoWindow
                               /\ toLoad' = Auths
                               /\ UNCHANGED up
                          ELSE /\ Goto(p, "idle")
                               /\ up' = (up \/ p = Main)
                               /\ UNCHANGED loadVars

SaveDone(p) ==
    /\ InSave(p)
    /\ toWrite = {} /\ toRemove = {}
    /\ AfterSave(p)
    /\ SaveOver
    /\ failed' = FALSE
    /\ safe' = [a \in Auths |-> IF records[a] = window[a] THEN records[a] ELSE 0]
    /\ forgotten' = forgotten \union clearing
    /\ clearing' = {}
    /\ UNCHANGED <<now, window, disabled, disk>>

\* Creating, writing or removing a file fails, or the context is cancelled: what
\* was done stays done, and the reload ends there.
SaveFails(p) ==
    /\ InSave(p)
    /\ Goto(p, "idle")
    /\ up' = (up \/ p = Main)
    /\ SaveOver
    /\ failed' = TRUE
    /\ UNCHANGED <<now, window, disabled, disk, loadVars, safe, clearing, forgotten>>

-----------------------------------------------------------------------------
(* A config reload: ApplyConfigWithCooldownStateStore, then RestoreCooldownStates *)

\* The new config is stored; from now on results are judged by it.
ReloadConfig ==
    \E D \in SUBSET Auths :
      /\ up /\ pc[Main] = "idle"
      /\ holder = Nobody
      /\ holder' = Main
      /\ disabled' = D
      /\ Goto(Main, "clear")
      /\ UNCHANGED <<now, up, window, disk, saveVars, loadVars, history>>

Cleared == {a \in disabled : window[a] # 0}

\* Mutant: the cleared state is left for a later save.
ClearDisabled_Deferred ==
    /\ pc[Main] = "clear"
    /\ window' = [a \in Auths |-> IF a \in Cleared THEN 0 ELSE window[a]]
    /\ safe' = [a \in Auths |-> IF a \in disabled THEN 0 ELSE safe[a]]
    /\ forgotten' = forgotten \union {<<a, window[a]>> : a \in Cleared}
    /\ Goto(Main, "load")
    /\ loaded' = NoWindow /\ toLoad' = Auths
    /\ holder' = Nobody
    /\ UNCHANGED <<now, up, disabled, disk, saveVars, failed, clearing>>

\* clearDisabledCooldownStates
ClearDisabled ==
    /\ pc[Main] = "clear"
    /\ window' = [a \in Auths |-> IF a \in Cleared THEN 0 ELSE window[a]]
    /\ safe' = [a \in Auths |-> IF a \in disabled THEN 0 ELSE safe[a]]
    /\ clearing' = clearing \union {<<a, window[a]>> : a \in Cleared}
    /\ Goto(Main, "apply")
    /\ UNCHANGED <<now, up, disabled, disk, holder, saveVars, loadVars, failed, forgotten>>

\* Both stores are the same one: the cleared state goes where it came from.
ApplyBegins ==
    /\ pc[Main] = "apply"
    /\ TakeSnapshot
    /\ Goto(Main, "applying")
    /\ UNCHANGED <<now, up, window, disabled, disk, holder, loadVars, history>>

LoadOver == toLoad' = {} /\ loaded' = NoWindow

\* Load reads one file after the other, while others may save.
LoadFile(a) ==
    /\ pc[Main] = "load"
    /\ a \in toLoad
    /\ toLoad' = toLoad \ {a}
    /\ loaded' = [loaded EXCEPT ![a] = disk[a]]
    /\ UNCHANGED <<now, up, window, disabled, disk, pc, holder, saveVars, history>>

\* A file cannot be read: nothing is restored, and the service goes on.
LoadFails ==
    /\ pc[Main] = "load"
    /\ toLoad # {}
    /\ Goto(Main, "idle")
    /\ up' = TRUE
    /\ LoadOver
    /\ IF up THEN UNCHANGED <<failed, safe>>
             ELSE failed' = TRUE /\ safe' = NoWindow
    /\ UNCHANGED <<now, window, disabled, disk, holder, saveVars, clearing, forgotten>>

Restorable == {a \in Auths \ disabled : Live(loaded[a])}

\* A record of the credential replaces what is in memory, a model's is merged.
Restored(a) ==
    IF a \notin Restorable THEN window[a]
    ELSE IF a \in CredentialWide \/ loaded[a] > window[a] THEN loaded[a]
    ELSE window[a]

\* restoreCooldownRecordLocked for every record under m.mu, then a save unless
\* there was no record at all.
Restore ==
    /\ pc[Main] = "load"
    /\ toLoad = {}
    /\ window' = [a \in Auths |-> Restored(a)]
    /\ safe' = [a \in Auths |-> IF up /\ window'[a] # window[a] THEN 0 ELSE safe[a]]
    /\ IF loaded = NoWindow
       THEN Goto(Main, "idle") /\ up' = TRUE
       ELSE Goto(Main, "changed") /\ up' = up
    /\ LoadOver
    /\ UNCHANGED <<now, disabled, disk, holder, saveVars, failed, clearing, forgotten>>

-----------------------------------------------------------------------------
(* The process dies, and is started again with the config of the day *)

Crash ==
    /\ pc[Main] # "down"
    /\ up' = FALSE
    /\ window' = NoWindow
    /\ pc' = [p \in Procs |-> IF p = Main THEN "down" ELSE "idle"]
    /\ SaveOver /\ LoadOver
    /\ failed' = FALSE
    /\ clearing' = {}
    /\ UNCHANGED <<now, disabled, disk, safe, forgotten>>

\* Every auth is registered before the restore, with no window.
Start ==
    \E D \in SUBSET Auths :
      /\ pc[Main] = "down"
      /\ disabled' = D
      /\ safe' = [a \in Auths |-> IF a \in D THEN 0 ELSE safe[a]]
      /\ Goto(Main, "load")
      /\ loaded' = NoWindow /\ toLoad' = Auths
      /\ UNCHANGED <<now, up, window, disk, holder, saveVars, failed, clearing, forgotten>>

-----------------------------------------------------------------------------
SaveStep(p) ==
    \/ SaveBegins(p)
    \/ \E a \in Auths : WriteFile(p, a) \/ RemoveStale(p, a)
    \/ SaveDone(p) \/ SaveFails(p)

MainStep ==
    \/ ReloadConfig \/ ClearDisabled \/ ApplyBegins
    \/ \E a \in Auths : LoadFile(a)
    \/ LoadFails \/ Restore \/ Crash \/ Start

Next ==
    \/ Tick
    \/ \E w \in Workers : Persist(w) \/ \E a \in Auths : MarkFailure(w, a) \/ ClearWindow(w, a)
    \/ \E p \in Procs : SaveStep(p)
    \/ MainStep

Spec == Init /\ [][Next]_vars

-----------------------------------------------------------------------------
(* Properties *)

\* The shapes of the manager's fields; the mutex is held by whoever saves.
TypeOK ==
    /\ now \in Times
    /\ up \in BOOLEAN
    /\ window \in [Auths -> Times]
    /\ disabled \subseteq Auths
    /\ disk \in [Auths -> Times]
    /\ pc \in [Procs -> {"down", "idle", "changed", "saving", "clear", "apply",
                         "applying", "load"}]
    /\ holder \in Procs \union {Nobody}
    /\ \A p \in Procs :
         holder = p <=> pc[p] \in {"saving", "clear", "apply", "applying"}
    /\ records \in [Auths -> Times]
    /\ toWrite \subseteq Auths /\ toRemove \subseteq Auths
    /\ loaded \in [Auths -> Times] /\ toLoad \subseteq Auths
    /\ failed \in BOOLEAN
    /\ safe \in [Auths -> Times]
    /\ clearing \subseteq Auths \X Deadlines
    /\ forgotten \subseteq Auths \X Deadlines

\* A window whose save completed is on disk until its auth changes, whatever later
\* saves fail or die in, and a service that is up again blocks the auth until the
\* same deadline (claude_ratelimit_cooldown_test.go:224).
SavedSurvives ==
    \A a \in Auths : Live(safe[a]) =>
      /\ disk[a] = safe[a]
      /\ up => window[a] = safe[a]

\* When everybody has returned and no save has failed, the files say what memory
\* says: of concurrent changes none is lost, and no older snapshot is saved last
\* (cooldown_state_test.go:163, 542).
DiskMatchesMemory ==
    (up /\ ~failed /\ \A p \in Procs : pc[p] = "idle") =>
      \A a \in Auths \ disabled :
        Live(disk[a]) \/ Live(window[a]) => disk[a] = window[a]

\* A window that a config update cleared and saved as cleared never blocks the auth
\* again, neither at a reload nor after a crash, when cooling is enabled again
\* (cooldown_state_test.go:299).
ForgottenStaysForgotten ==
    \A a \in Auths, d \in Deadlines :
      <<a, d>> \in forgotten /\ Live(d) => window[a] # d
=============================================================================
