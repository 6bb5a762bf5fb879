----------------------- MODULE CooldownPersistenceProofs -----------------------
(***************************************************************************)
(* Safety of CooldownPersistence for any auths, workers and clock bound.   *)
(***************************************************************************)
EXTENDS CooldownPersistence, TLAPS

-----------------------------------------------------------------------------
(* The inductive invariant *)

Writing(p) == pc[p] \in {"saving", "applying"}
SomeoneWrites == \E p \in Procs : Writing(p)

\* Where the goroutines can be while the service starts, serves and reloads.
Phases ==
    /\ \A w \in Workers : pc[w] \in {"idle", "changed", "saving"}
    /\ ~up => \A w \in Workers : pc[w] = "idle"
    /\ pc[Main] \in {"idle", "clear", "apply", "applying"} => up
    /\ pc[Main] = "down" => ~up
    /\ ~up /\ pc[Main] \in {"down", "load"} => window = NoWindow

\* What Load has read; at a start nobody saves meanwhile.
LoadedFromDisk ==
    /\ pc[Main] # "load" => loaded = NoWindow
    /\ ~up /\ pc[Main] = "load" => \A a \in Auths \ toLoad : loaded[a] = disk[a]

\* A save has an entry of the snapshot for every file it has not yet put right.
SaveInProgress ==
    /\ ~SomeoneWrites => records = NoWindow /\ toWrite = {} /\ toRemove = {}
    /\ SomeoneWrites => \A a \in Auths \ (toWrite \union toRemove) : disk[a] = records[a]
    /\ \A a \in toRemove : records[a] = 0
    /\ \A a \in Auths : records[a] # 0 => a \notin disabled

\* Windows covered by a completed save, and what a save under way does to them.
SafeKept ==
    \A a \in Auths : Live(safe[a]) =>
      /\ disk[a] = safe[a]
      /\ up \/ pc[Main] \notin {"down", "load"} => window[a] = safe[a]
      /\ pc[Main] \notin {"clear", "down"} => a \notin disabled
      /\ a \in toWrite => records[a] = safe[a]
      /\ a \notin toRemove

\* A cleared window is nowhere a restore could take it from.
ForgottenGone ==
    /\ \A a \in Auths, d \in Deadlines :
         <<a, d>> \in forgotten =>
           window[a] # d /\ records[a] # d /\ disk[a] # d /\ loaded[a] # d
    /\ \A a \in Auths, d \in Deadlines :
         <<a, d>> \in clearing => window[a] # d /\ records[a] # d
    /\ pc[Main] \in {"down", "load"} => clearing = {}

\* Deadlines that block alike.
Alike(d, e) == Live(d) \/ Live(e) => d = e

\* With no change waiting to be saved, the snapshot under way, or else the disk,
\* says what memory says.
Settled ==
    /\ \A p \in Procs : pc[p] # "changed"
    /\ up \/ SomeoneWrites
    /\ pc[Main] \notin {"clear", "apply"}
MemorySaved ==
    Settled =>
      /\ SomeoneWrites => \A a \in Auths \ disabled : Alike(records[a], window[a])
      /\ ~SomeoneWrites /\ ~failed =>
           \A a \in Auths \ disabled : Alike(disk[a], window[a])

IInv == TypeOK /\ Phases /\ LoadedFromDisk /\ SaveInProgress /\ SafeKept
          /\ ForgottenGone /\ MemorySaved

-----------------------------------------------------------------------------
(* Types and phases *)

\* A service that never ran has saved and promised nothing.
LEMMA InitIInv == Init => IInv
<1> SUFFICES ASSUME Init PROVE IInv
  OBVIOUS
<1> USE DEF Init
<1>1. TypeOK
  <2>1. 0 \in Times
    BY TimeAssumption DEF Times
  <2>2. \A p \in Procs : holder # p /\ pc[p] \in {"down", "idle"}
    BY ProcsAssumption DEF Procs
  <2> QED BY <2>1, <2>2 DEF TypeOK, NoWindow
<1>2. Phases /\ LoadedFromDisk
  BY ProcsAssumption DEF Phases, LoadedFromDisk, Procs
<1>3. ~SomeoneWrites
  BY DEF SomeoneWrites, Writing
<1>4. SaveInProgress
  BY <1>3 DEF SaveInProgress, NoWindow
<1>5. SafeKept /\ ForgottenGone
  BY DEF SafeKept, ForgottenGone, Procs
<1>6. MemorySaved
  BY <1>3 DEF MemorySaved, Settled
<1> QED BY <1>1, <1>2, <1>4, <1>5, <1>6 DEF IInv

\* A changed window is covered by no save yet, and what it is set to is not cleared.
LEMMA Changed ==
    ASSUME TypeOK, NEW a \in Auths, NEW d \in Times, ChangeWindow(a, d)
    PROVE /\ window' \in [Auths -> Times] /\ safe' \in [Auths -> Times]
          /\ clearing' \subseteq Auths \X Deadlines /\ forgotten' \subseteq Auths \X Deadlines
          /\ clearing' \subseteq clearing \ {<<a, d>>}
          /\ forgotten' \subseteq forgotten \ {<<a, d>>}
          /\ window'[a] = d /\ safe'[a] = 0
          /\ \A b \in Auths : b # a => window'[b] = window[b] /\ safe'[b] = safe[b]
<1>1. 0 \in Times
  BY TimeAssumption DEF Times
<1>2. window' = [window EXCEPT ![a] = d] /\ safe' = [safe EXCEPT ![a] = 0]
  BY DEF ChangeWindow
<1>3. clearing' = clearing \ {<<a, d>>} /\ forgotten' = forgotten \ {<<a, d>>}
  BY DEF ChangeWindow
<1>4. window \in [Auths -> Times] /\ safe \in [Auths -> Times]
  BY DEF TypeOK
<1>5. window' \in [Auths -> Times] /\ safe' \in [Auths -> Times]
  BY <1>1, <1>2, <1>4
<1>6. /\ window'[a] = d /\ safe'[a] = 0
      /\ \A b \in Auths : b # a => window'[b] = window[b] /\ safe'[b] = safe[b]
  BY <1>2, <1>4
<1>7. clearing' \subseteq Auths \X Deadlines /\ forgotten' \subseteq Auths \X Deadlines
  BY <1>3 DEF TypeOK
<1> QED BY <1>3, <1>5, <1>6, <1>7

\* The types are kept.
LEMMA TypeKept ==
    ASSUME TypeOK, Phases, [Next]_vars
    PROVE TypeOK'
<1> USE ProcsAssumption DEF TypeOK, Procs, Goto, saveVars, loadVars, history
<1>0. MaxTime \in Nat /\ Deadlines \subseteq Times /\ NoWindow \in [Auths -> Times]
        /\ Recorded \subseteq Auths /\ Auths \ Recorded \subseteq Auths
  BY TimeAssumption DEF Deadlines, Times, NoWindow, Recorded
<1>1. CASE Tick
  BY <1>0, <1>1 DEF Tick, Times
<1>2. CASE \E w \in Workers : Persist(w) \/ \E a \in Auths : MarkFailure(w, a) \/ ClearWindow(w, a)
  <2>1. PICK w \in Workers : Persist(w) \/ \E a \in Auths : MarkFailure(w, a) \/ ClearWindow(w, a)
    BY <1>2
  <2>2. /\ pc[w] = "idle" /\ \E t \in {"idle", "changed"} : pc' = [pc EXCEPT ![w] = t]
        /\ UNCHANGED <<now, up, disabled, disk, holder, saveVars, loadVars, failed>>
        /\ window' \in [Auths -> Times]
        /\ safe' \in [Auths -> Times]
        /\ clearing' \subseteq Auths \X Deadlines /\ forgotten' \subseteq Auths \X Deadlines
    <3>1. CASE Persist(w)
      BY <3>1 DEF Persist
    <3>2. CASE \E a \in Auths : MarkFailure(w, a)
      BY <1>0, <3>2, Changed DEF MarkFailure
    <3>3. CASE \E a \in Auths : ClearWindow(w, a)
      <4>1. 0 \in Times
        BY <1>0 DEF Times
      <4> QED BY <1>0, <3>3, <4>1, Changed DEF ClearWindow
    <3> QED BY <2>1, <3>1, <3>2, <3>3
  <2> QED BY <2>2
<1>3. CASE \E p \in Procs : SaveStep(p)
  <2>1. PICK p \in Procs : SaveStep(p)
    BY <1>3
  <2>2. CASE SaveBegins(p)
    <3>1. records' \in [Auths -> Times]
      BY <1>0, <2>2 DEF SaveBegins, TakeSnapshot, Times
    <3> QED BY <1>0, <2>1, <2>2, <3>1 DEF SaveBegins, TakeSnapshot
  <2>3. CASE \E a \in Auths : WriteFile(p, a) \/ RemoveStale(p, a)
    <3>1. 0 \in Times
      BY <1>0 DEF Times
    <3> QED BY <1>0, <2>3, <3>1 DEF WriteFile, RemoveStale
  <2>4. CASE SaveDone(p) \/ SaveFails(p)
    <3>1. /\ pc[p] \in {"saving", "applying"} /\ holder = p /\ holder' = Nobody
          /\ \E t \in {"idle", "load"} : pc' = [pc EXCEPT ![p] = t]
          /\ up' \in BOOLEAN /\ loaded' \in [Auths -> Times] /\ toLoad' \subseteq Auths
      BY <1>0, <2>4 DEF SaveDone, SaveFails, AfterSave, SaveOver, InSave
    <3>2. /\ records' \in [Auths -> Times] /\ toWrite' \subseteq Auths /\ toRemove' \subseteq Auths
          /\ UNCHANGED <<now, window, disabled, disk>>
          /\ failed' \in BOOLEAN
      BY <1>0, <2>4 DEF SaveDone, SaveFails, SaveOver
    <3>3. safe' \in [Auths -> Times]
      <4>1. 0 \in Times
        BY <1>0 DEF Times
      <4> QED BY <2>4, <4>1 DEF SaveDone, SaveFails
    <3>4. clearing' \subseteq Auths \X Deadlines /\ forgotten' \subseteq Auths \X Deadlines
      BY <2>4 DEF SaveDone, SaveFails
    <3> QED BY <2>1, <3>1, <3>2, <3>3, <3>4
  <2> QED BY <2>1, <2>2, <2>3, <2>4 DEF SaveStep
<1>4. CASE ReloadConfig \/ ApplyBegins
  <2>1. ApplyBegins => records' \in [Auths -> Times]
    BY <1>0 DEF ApplyBegins, TakeSnapshot, Times
  <2> QED BY <1>0, <1>4, <2>1 DEF ReloadConfig, ApplyBegins, TakeSnapshot
<1>5. CASE ClearDisabled
  <2>1. window' \in [Auths -> Times] /\ safe' \in [Auths -> Times]
    BY <1>0, <1>5 DEF ClearDisabled, Times
  <2>2. clearing' \subseteq Auths \X Deadlines
    <3>1. \A a \in Cleared : a \in Auths /\ window[a] \in Deadlines
      BY <1>0 DEF Cleared, Times, Deadlines
    <3> QED BY <1>5, <3>1 DEF ClearDisabled
  <2> QED BY <1>0, <1>5, <2>1, <2>2 DEF ClearDisabled
<1>6. CASE \E a \in Auths : LoadFile(a)
  BY <1>0, <1>6 DEF LoadFile
<1>7. CASE LoadFails
  BY <1>0, <1>7 DEF LoadFails, LoadOver
<1>8. CASE Restore
  <2>1. window' \in [Auths -> Times] /\ safe' \in [Auths -> Times]
    <3>1. 0 \in Times
      BY <1>0 DEF Times
    <3> QED BY <1>8, <3>1 DEF Restore, Restored
  <2>2. \E t \in {"idle", "changed"} : pc' = [pc EXCEPT ![Main] = t] /\ up' \in BOOLEAN
    BY <1>8 DEF Restore
  <2> QED BY <1>0, <1>8, <2>1, <2>2 DEF Restore, LoadOver
<1>9. CASE Crash
  BY <1>0, <1>9 DEF Crash, SaveOver, LoadOver
<1>10. CASE Start
  <2>1. safe' \in [Auths -> Times]
    BY <1>0, <1>10 DEF Start, Times
  <2> QED BY <1>0, <1>10, <2>1 DEF Start
<1>11. CASE UNCHANGED vars
  BY <1>11 DEF vars
<1> QED BY <1>1, <1>2, <1>3, <1>4, <1>5, <1>6, <1>7, <1>8, <1>9, <1>10, <1>11 DEF Next, MainStep

\* Every goroutine is where its phase of the service allows.
LEMMA PhasesKept ==
    ASSUME TypeOK, Phases, [Next]_vars
    PROVE Phases'
<1> USE ProcsAssumption DEF Phases, Procs, Goto, saveVars, loadVars, history
<1>0. pc \in [Procs -> {"down", "idle", "changed", "saving", "clear", "apply",
                        "applying", "load"}]
  BY DEF TypeOK
<1>1. CASE Tick \/ UNCHANGED vars
  BY <1>1 DEF Tick, vars
<1>2. CASE \E w \in Workers : Persist(w) \/ \E a \in Auths : MarkFailure(w, a) \/ ClearWindow(w, a)
  <2>1. PICK w \in Workers : Persist(w) \/ \E a \in Auths : MarkFailure(w, a) \/ ClearWindow(w, a)
    BY <1>2
  <2>2. /\ up /\ up' = up /\ \E t \in {"idle", "changed"} : pc' = [pc EXCEPT ![w] = t]
    BY <2>1 DEF Persist, MarkFailure, ClearWindow
  <2> QED BY <1>0, <2>2
<1>3. CASE \E p \in Procs : SaveBegins(p) \/ \E a \in Auths : WriteFile(p, a) \/ RemoveStale(p, a)
  BY <1>0, <1>3 DEF SaveBegins, WriteFile, RemoveStale
<1>4. CASE \E p \in Procs : SaveDone(p) \/ SaveFails(p)
  <2>1. PICK p \in Procs : SaveDone(p) \/ SaveFails(p)
    BY <1>4
  <2>2. CASE pc[p] = "applying"
    BY <1>0, <2>1, <2>2 DEF SaveDone, SaveFails, AfterSave
  <2>3. CASE pc[p] # "applying"
    <3>1. pc[p] = "saving" /\ pc' = [pc EXCEPT ![p] = "idle"] /\ up' = (up \/ p = Main)
            /\ window' = window
      BY <1>0, <2>1, <2>3 DEF SaveDone, SaveFails, AfterSave, InSave
    <3> QED BY <1>0, <3>1
  <2> QED BY <2>2, <2>3
<1>5. CASE ReloadConfig \/ ClearDisabled \/ ApplyBegins \/ \E a \in Auths : LoadFile(a)
  BY <1>0, <1>5 DEF ReloadConfig, ClearDisabled, ApplyBegins, LoadFile
<1>6. CASE LoadFails \/ Restore
  <2>1. /\ pc[Main] = "load"
        /\ \/ pc' = [pc EXCEPT ![Main] = "idle"] /\ up' = TRUE
           \/ pc' = [pc EXCEPT ![Main] = "changed"] /\ up' = up
    BY <1>6 DEF LoadFails, Restore
  <2> QED BY <1>0, <2>1
<1>7. CASE Crash \/ Start
  BY <1>0, <1>7 DEF Crash, Start
<1> QED BY <1>1, <1>2, <1>3, <1>4, <1>5, <1>6, <1>7 DEF Next, SaveStep, MainStep

\* Nobody writes, or exactly the holder of the mutex.
LEMMA Writers ==
    ASSUME TypeOK
    PROVE /\ SomeoneWrites <=> holder \in Procs /\ Writing(holder)
          /\ SomeoneWrites => pc[Main] \notin {"clear", "apply"}
          /\ \A p \in Procs : Writing(p) => holder = p
BY DEF TypeOK, SomeoneWrites, Writing, Procs

\* Only the begin of a save or a reload makes a writer, only its end or a crash ends it.
LEMMA WritersMove ==
    ASSUME TypeOK, Phases, [Next]_vars
    PROVE /\ (\E p \in Procs : SaveBegins(p)) \/ ApplyBegins => ~SomeoneWrites /\ SomeoneWrites'
          /\ (\E p \in Procs : SaveDone(p) \/ SaveFails(p)) => SomeoneWrites /\ ~SomeoneWrites'
          /\ Crash => ~SomeoneWrites'
          /\ \/ Tick \/ UNCHANGED vars
             \/ \E p \in Procs, a \in Auths : WriteFile(p, a) \/ RemoveStale(p, a)
             \/ \E w \in Workers : Persist(w) \/ \E a \in Auths : MarkFailure(w, a) \/ ClearWindow(w, a)
             \/ ReloadConfig \/ ClearDisabled \/ LoadFails \/ Restore \/ Start
             \/ \E a \in Auths : LoadFile(a)
             => SomeoneWrites' = SomeoneWrites
          /\ Start => ~SomeoneWrites
<1> USE ProcsAssumption DEF Procs, Goto, Writing
<1>0. /\ pc \in [Procs -> {"down", "idle", "changed", "saving", "clear", "apply",
                           "applying", "load"}]
      /\ holder = Nobody => ~SomeoneWrites
      /\ pc[Main] = "apply" => ~SomeoneWrites
  BY Writers DEF TypeOK
<1>1. (\E p \in Procs : SaveBegins(p)) \/ ApplyBegins => ~SomeoneWrites /\ SomeoneWrites'
  BY <1>0 DEF SaveBegins, ApplyBegins, SomeoneWrites
<1>2. (\E p \in Procs : SaveDone(p) \/ SaveFails(p)) => SomeoneWrites /\ ~SomeoneWrites'
  <2> SUFFICES ASSUME NEW p \in Procs, SaveDone(p) \/ SaveFails(p)
               PROVE SomeoneWrites /\ ~SomeoneWrites'
    OBVIOUS
  <2>1. Writing(p) /\ \E t \in {"idle", "load"} : pc' = [pc EXCEPT ![p] = t]
    BY DEF SaveDone, SaveFails, AfterSave, InSave
  <2>2. \A q \in Procs : Writing(q) => q = p
    BY <2>1, Writers
  <2> QED BY <1>0, <2>1, <2>2 DEF SomeoneWrites
<1>3. Crash => ~SomeoneWrites'
  BY DEF Crash, SomeoneWrites
<1>4. \/ Tick \/ UNCHANGED vars
      \/ \E p \in Procs, a \in Auths : WriteFile(p, a) \/ RemoveStale(p, a)
      \/ \E w \in Workers : Persist(w) \/ \E a \in Auths : MarkFailure(w, a) \/ ClearWindow(w, a)
      \/ ReloadConfig \/ ClearDisabled \/ LoadFails \/ Restore \/ Start
      \/ \E a \in Auths : LoadFile(a)
      => SomeoneWrites' = SomeoneWrites
  <2>1. CASE Tick \/ UNCHANGED vars \/ \E p \in Procs, a \in Auths : WriteFile(p, a) \/ RemoveStale(p, a)
    BY <2>1 DEF Tick, vars, WriteFile, RemoveStale, SomeoneWrites
  <2>2. CASE \/ \E w \in Workers : Persist(w) \/ \E a \in Auths : MarkFailure(w, a) \/ ClearWindow(w, a)
             \/ ReloadConfig \/ ClearDisabled \/ LoadFails \/ Restore \/ Start
             \/ \E a \in Auths : LoadFile(a)
    <3>1. \E p \in Procs, t \in {"idle", "changed", "clear", "apply", "load"} :
            ~Writing(p) /\ pc' = [pc EXCEPT ![p] = t]
      <4>1. CASE \E w \in Workers : Persist(w) \/ \E a \in Auths : MarkFailure(w, a) \/ ClearWindow(w, a)
        BY <1>0, <4>1 DEF Persist, MarkFailure, ClearWindow
      <4>2. CASE \E a \in Auths : LoadFile(a)
        BY <1>0, <4>2 DEF LoadFile
      <4>3. CASE ReloadConfig \/ ClearDisabled \/ LoadFails \/ Start
        BY <1>0, <4>3 DEF ReloadConfig, ClearDisabled, LoadFails, Start
      <4>4. CASE Restore
        BY <1>0, <4>4 DEF Restore
      <4> QED BY <2>2, <4>1, <4>2, <4>3, <4>4
    <3> QED BY <1>0, <3>1 DEF SomeoneWrites
  <2> QED BY <2>1, <2>2
<1>5. Start => ~SomeoneWrites
  BY <1>0 DEF Start, Phases, SomeoneWrites
<1> QED BY <1>1, <1>2, <1>3, <1>4, <1>5

\* Load reads what is on disk, and at a start nobody writes meanwhile.
LEMMA LoadKept ==
    ASSUME TypeOK, Phases, LoadedFromDisk, SaveInProgress, [Next]_vars
    PROVE LoadedFromDisk'
<1> USE ProcsAssumption DEF LoadedFromDisk, Procs, Goto, saveVars, loadVars, history
<1>0. /\ pc \in [Procs -> {"down", "idle", "changed", "saving", "clear", "apply",
                           "applying", "load"}]
      /\ loaded \in [Auths -> Times]
  BY DEF TypeOK
<1>1. CASE Tick \/ UNCHANGED vars
  BY <1>1 DEF Tick, vars
<1>2. CASE \E w \in Workers : Persist(w) \/ \E a \in Auths : MarkFailure(w, a) \/ ClearWindow(w, a)
  <2>1. PICK w \in Workers : Persist(w) \/ \E a \in Auths : MarkFailure(w, a) \/ ClearWindow(w, a)
    BY <1>2
  <2>2. up' = up /\ up /\ UNCHANGED loadVars /\ \E t \in {"idle", "changed"} : pc' = [pc EXCEPT ![w] = t]
    BY <2>1 DEF Persist, MarkFailure, ClearWindow
  <2> QED BY <1>0, <2>2
<1>3. CASE \E p \in Procs : SaveBegins(p) \/ \E a \in Auths : WriteFile(p, a) \/ RemoveStale(p, a)
  <2>1. PICK p \in Procs : SaveBegins(p) \/ \E a \in Auths : WriteFile(p, a) \/ RemoveStale(p, a)
    BY <1>3
  <2>2. /\ up' = up /\ loaded' = loaded /\ toLoad' = toLoad
        /\ \/ pc' = pc
           \/ pc[p] = "changed" /\ pc' = [pc EXCEPT ![p] = "saving"]
    <3>1. CASE SaveBegins(p)
      BY <3>1 DEF SaveBegins
    <3>2. CASE \E a \in Auths : WriteFile(p, a) \/ RemoveStale(p, a)
      BY <3>2 DEF WriteFile, RemoveStale
    <3> QED BY <2>1, <3>1, <3>2
  <2>3. disk' = disk \/ pc[p] \in {"saving", "applying"}
    BY <2>1 DEF SaveBegins, WriteFile, RemoveStale, InSave
  <2> QED BY <1>0, <2>2, <2>3 DEF Phases
<1>4. CASE \E p \in Procs : SaveDone(p) \/ SaveFails(p)
  <2>1. PICK p \in Procs : SaveDone(p) \/ SaveFails(p)
    BY <1>4
  <2>2. CASE pc' = [pc EXCEPT ![p] = "load"]
    BY <1>0, <2>1, <2>2 DEF SaveDone, SaveFails, AfterSave, NoWindow, Phases
  <2>3. CASE pc' = [pc EXCEPT ![p] = "idle"]
    <3>1. UNCHANGED <<disk, loadVars>> /\ pc[p] \in {"saving", "applying"} /\ up' = (up \/ p = Main)
      BY <1>0, <2>1, <2>3 DEF SaveDone, SaveFails, AfterSave, InSave
    <3> QED BY <1>0, <2>3, <3>1 DEF Phases
  <2> QED BY <2>1, <2>2, <2>3 DEF SaveDone, SaveFails, AfterSave
<1>5. CASE ReloadConfig \/ ClearDisabled \/ ApplyBegins
  BY <1>0, <1>5 DEF ReloadConfig, ClearDisabled, ApplyBegins
<1>6. CASE \E a \in Auths : LoadFile(a)
  BY <1>0, <1>6 DEF LoadFile
<1>7. CASE LoadFails \/ Restore
  <2>1. pc' = [pc EXCEPT ![Main] = "idle"] \/ pc' = [pc EXCEPT ![Main] = "changed"]
    BY <1>7 DEF LoadFails, Restore
  <2> QED BY <1>0, <1>7, <2>1 DEF LoadFails, Restore, LoadOver
<1>8. CASE Crash \/ Start
  BY <1>0, <1>8 DEF Crash, Start, LoadOver, Phases
<1> QED BY <1>1, <1>2, <1>3, <1>4, <1>5, <1>6, <1>7, <1>8 DEF Next, SaveStep, MainStep

-----------------------------------------------------------------------------
(* The save under way *)

\* What a snapshot holds.
LEMMA Snapshot ==
    ASSUME TypeOK, TakeSnapshot, UNCHANGED <<now, window, disabled>>
    PROVE /\ records' \in [Auths -> Times] /\ toWrite' \subseteq Auths
          /\ \A a \in Auths : /\ a \in toWrite' \/ a \in toRemove'
                              /\ a \in toWrite' => records'[a] = window[a]
                              /\ a \in toRemove' => records'[a] = 0
                              /\ a \in toWrite' <=> a \notin toRemove'
                              /\ a \in toWrite' <=> a \notin disabled /\ Live(window[a])
          /\ toRemove' \subseteq Auths
<1>1. 0 \in Times
  BY TimeAssumption DEF Times
<1> QED BY <1>1 DEF TakeSnapshot, Recorded, TypeOK

\* What ends a save: nothing is left of it.
LEMMA SaveInProgressKept ==
    ASSUME TypeOK, Phases, SaveInProgress, [Next]_vars
    PROVE SaveInProgress'
<1> USE DEF SaveInProgress, Goto, saveVars, loadVars, history
<1>0. records \in [Auths -> Times] /\ disk \in [Auths -> Times]
  BY DEF TypeOK
<1>1. CASE (\E p \in Procs : SaveBegins(p)) \/ ApplyBegins
  <2>1. TakeSnapshot /\ UNCHANGED <<now, window, disabled, disk>>
    BY <1>1 DEF SaveBegins, ApplyBegins
  <2>2. SomeoneWrites'
    BY <1>1, WritersMove
  <2> QED BY <2>1, <2>2, Snapshot
<1>2. CASE \E p \in Procs, a \in Auths : WriteFile(p, a) \/ RemoveStale(p, a)
  <2>1. PICK p \in Procs, a \in Auths : WriteFile(p, a) \/ RemoveStale(p, a)
    BY <1>2
  <2>2. SomeoneWrites /\ SomeoneWrites'
    BY <2>1 DEF WriteFile, RemoveStale, InSave, SomeoneWrites, Writing
  <2>3. CASE WriteFile(p, a)
    BY <1>0, <2>2, <2>3 DEF WriteFile
  <2>4. CASE RemoveStale(p, a)
    <3>1. records[a] = 0 /\ records' = records /\ disk' = [disk EXCEPT ![a] = 0]
            /\ toRemove' = toRemove \ {a} /\ UNCHANGED <<toWrite, disabled>>
      BY <2>4 DEF RemoveStale
    <3> QED BY <1>0, <2>2, <3>1
  <2> QED BY <2>1, <2>3, <2>4
<1>3. CASE (\E p \in Procs : SaveDone(p) \/ SaveFails(p)) \/ Crash
  <2>1. ~SomeoneWrites' /\ SaveOver
    BY <1>3, WritersMove DEF SaveDone, SaveFails, Crash
  <2> QED BY <2>1 DEF SaveOver, NoWindow
<1>4. CASE ReloadConfig \/ Start
  <2>1. ~SomeoneWrites
    BY <1>4, Writers, ProcsAssumption, WritersMove DEF ReloadConfig, Procs
  <2>2. ~SomeoneWrites' /\ UNCHANGED saveVars
    BY <1>4, <2>1, WritersMove DEF ReloadConfig, Start
  <2> QED BY <2>1, <2>2 DEF NoWindow
<1>5. CASE \/ Tick \/ UNCHANGED vars
           \/ \E w \in Workers : Persist(w) \/ \E a \in Auths : MarkFailure(w, a) \/ ClearWindow(w, a)
           \/ ClearDisabled \/ LoadFails \/ Restore
           \/ \E a \in Auths : LoadFile(a)
  <2>1. UNCHANGED <<saveVars, disk, disabled>>
    BY <1>5 DEF Tick, vars, Persist, MarkFailure, ClearWindow, ClearDisabled, LoadFails, Restore,
         LoadFile
  <2>2. SomeoneWrites' = SomeoneWrites
    BY <1>5, WritersMove
  <2> QED BY <2>1, <2>2
<1> QED BY <1>1, <1>2, <1>3, <1>4, <1>5 DEF Next, SaveStep, MainStep

-----------------------------------------------------------------------------
(* What the disk keeps *)

\* A window that blocks after a step blocked before it: time only closes windows.
LEMMA LiveBefore ==
    ASSUME TypeOK, [Next]_vars, NEW d \in Times
    PROVE /\ Live(d)' => Live(d)
          /\ ~Live(0)
          /\ Tick \/ now' = now
<1>1. now \in Nat /\ d \in Nat /\ (now' = now \/ now' = now + 1)
  BY TimeAssumption DEF TypeOK, Times, Next, vars, Tick, Persist, MarkFailure, ClearWindow, SaveStep,
       SaveBegins, WriteFile, RemoveStale, SaveDone, SaveFails, MainStep, ReloadConfig,
       ClearDisabled, ApplyBegins, LoadFile, LoadFails, Restore, Crash, Start
<1>2. Tick \/ now' = now
  BY DEF Next, vars, Persist, MarkFailure, ClearWindow, SaveStep,
       SaveBegins, WriteFile, RemoveStale, SaveDone, SaveFails, MainStep, ReloadConfig,
       ClearDisabled, ApplyBegins, LoadFile, LoadFails, Restore, Crash, Start
<1> QED BY <1>1, <1>2 DEF Live

\* A window covered by a completed save stays on disk as long as it blocks.
LEMMA SafeStays ==
    ASSUME TypeOK, Phases, LoadedFromDisk, SaveInProgress, SafeKept, TypeOK', [Next]_vars
    PROVE SafeKept'
<1> SUFFICES ASSUME NEW a \in Auths, Live(safe[a])'
             PROVE /\ disk'[a] = safe'[a]
                   /\ up' \/ pc'[Main] \notin {"down", "load"} => window'[a] = safe'[a]
                   /\ pc'[Main] \notin {"clear", "down"} => a \notin disabled'
                   /\ a \in toWrite' => records'[a] = safe'[a]
                   /\ a \notin toRemove'
  BY DEF SafeKept
<1> USE ProcsAssumption DEF Procs, Goto, saveVars, loadVars, history
<1>0. /\ pc \in [Procs -> {"down", "idle", "changed", "saving", "clear", "apply",
                           "applying", "load"}]
      /\ records \in [Auths -> Times] /\ disk \in [Auths -> Times] /\ window \in [Auths -> Times]
      /\ safe \in [Auths -> Times] /\ loaded \in [Auths -> Times]
      /\ safe' \in [Auths -> Times]
  BY DEF TypeOK
<1>a. safe'[a] \in Times /\ safe'[a] # 0 /\ Live(safe'[a]) /\ Live(safe[a])'
  <2>1. safe'[a] \in Times /\ 0 \in Times
    BY <1>0, TimeAssumption DEF Times
  <2>2. safe'[a] > now' /\ now \in Nat /\ (now' = now \/ now' = now + 1)
    <3>1. safe'[a] > now'
      BY <2>1 DEF Live
    <3>2. now \in Nat
      BY TimeAssumption DEF TypeOK, Times
    <3>3. now' = now \/ now' = now + 1
      BY <2>1, LiveBefore DEF Tick
    <3> QED BY <3>1, <3>2, <3>3
  <2>3. safe'[a] \in Nat
    BY <2>1, TimeAssumption DEF Times
  <2> QED BY <2>1, <2>2, <2>3 DEF Live
<1>b. safe'[a] = safe[a] =>
        /\ disk[a] = safe[a]
        /\ up \/ pc[Main] \notin {"down", "load"} => window[a] = safe[a]
        /\ pc[Main] \notin {"clear", "down"} => a \notin disabled
        /\ a \in toWrite => records[a] = safe[a]
        /\ a \notin toRemove
  BY <1>a DEF SafeKept
<1>1. CASE Tick \/ UNCHANGED vars
  BY <1>1, <1>b DEF Tick, vars
<1>2. CASE \E w \in Workers : Persist(w) \/ \E b \in Auths : MarkFailure(w, b) \/ ClearWindow(w, b)
  <2>1. PICK w \in Workers : Persist(w) \/ \E b \in Auths : MarkFailure(w, b) \/ ClearWindow(w, b)
    BY <1>2
  <2>2. /\ UNCHANGED <<up, disabled, disk, saveVars>>
        /\ pc'[Main] = pc[Main]
    BY <1>0, <2>1 DEF Persist, MarkFailure, ClearWindow
  <2>3. safe'[a] = safe[a] /\ window'[a] = window[a]
    <3>1. CASE Persist(w)
      BY <3>1 DEF Persist
    <3>2. CASE \E b \in Auths : MarkFailure(w, b) \/ ClearWindow(w, b)
      <4>1. PICK b \in Auths, d \in Times : ChangeWindow(b, d)
        BY <3>2, TimeAssumption DEF MarkFailure, ClearWindow, Deadlines, Times
      <4> QED BY <1>a, <4>1, Changed
    <3> QED BY <2>1, <3>1, <3>2
  <2> QED BY <1>b, <2>2, <2>3
<1>3. CASE (\E p \in Procs : SaveBegins(p)) \/ ApplyBegins
  <2>1. /\ TakeSnapshot /\ UNCHANGED <<now, window, disabled, disk, up, safe>>
        /\ pc[Main] \notin {"clear", "down"}
        /\ up \/ pc[Main] \notin {"down", "load"}
        /\ pc'[Main] = pc[Main] \/ pc'[Main] \in {"saving", "applying"}
    <3>1. CASE ApplyBegins
      BY <1>0, <3>1 DEF ApplyBegins, Phases
    <3>2. CASE \E p \in Procs : SaveBegins(p)
      <4>1. PICK p \in Procs : SaveBegins(p)
        BY <3>2
      <4>2. pc[Main] # "clear"
        BY <4>1 DEF SaveBegins, TypeOK
      <4> QED BY <1>0, <4>1, <4>2 DEF SaveBegins, Phases
    <3> QED BY <1>3, <3>1, <3>2
  <2>2. window[a] = safe[a] /\ a \notin disabled /\ disk[a] = safe[a] /\ Live(window[a])
    BY <1>a, <1>b, <2>1
  <2> QED BY <2>1, <2>2, Snapshot
<1>4. CASE \E p \in Procs, b \in Auths : WriteFile(p, b) \/ RemoveStale(p, b)
  <2>1. PICK p \in Procs, b \in Auths : WriteFile(p, b) \/ RemoveStale(p, b)
    BY <1>4
  <2>2. /\ UNCHANGED <<pc, up, window, disabled, records, safe>>
        /\ toWrite' \subseteq toWrite /\ toRemove' \subseteq toRemove
    BY <2>1 DEF WriteFile, RemoveStale
  <2>3. disk'[a] = disk[a] \/ (a \in toWrite /\ disk'[a] = records[a]) \/ a \in toRemove
    BY <1>0, <2>1 DEF WriteFile, RemoveStale
  <2> QED BY <1>b, <2>2, <2>3
<1>5. CASE \E p \in Procs : SaveDone(p) \/ SaveFails(p)
  <2>1. PICK p \in Procs : SaveDone(p) \/ SaveFails(p)
    BY <1>5
  <2>2. /\ UNCHANGED <<window, disabled, disk>> /\ toWrite' = {} /\ toRemove' = {}
        /\ Writing(p)
    BY <2>1 DEF SaveDone, SaveFails, SaveOver, InSave, Writing
  <2>3. pc[Main] \notin {"clear", "down"} /\ (up \/ pc[Main] \notin {"down", "load"})
    <3>1. SomeoneWrites
      BY <2>2 DEF SomeoneWrites
    <3>2. pc[Main] \notin {"clear", "apply"}
      BY <3>1, Writers
    <3>3. up \/ pc[Main] \notin {"down", "load"}
      BY <1>0, <2>2 DEF Writing, Phases
    <3> QED BY <1>0, <2>2, <3>2, <3>3 DEF Phases, Writing
  <2>4. CASE SaveFails(p)
    BY <1>b, <2>2, <2>3, <2>4 DEF SaveFails
  <2>5. CASE SaveDone(p)
    <3>1. safe'[a] = records[a] /\ records[a] = window[a] /\ records[a] # 0
      BY <1>a, <2>5 DEF SaveDone
    <3>2. SomeoneWrites /\ toWrite = {} /\ toRemove = {}
      BY <2>2, <2>5 DEF SaveDone, SomeoneWrites
    <3>3. disk[a] = records[a] /\ a \notin disabled
      BY <3>1, <3>2 DEF SaveInProgress
    <3> QED BY <2>2, <3>1, <3>3
  <2> QED BY <2>1, <2>4, <2>5
<1>6. CASE ReloadConfig
  BY <1>0, <1>6, <1>b DEF ReloadConfig
<1>7. CASE ClearDisabled
  <2>1. a \notin disabled /\ safe'[a] = safe[a] /\ window'[a] = window[a]
    BY <1>7, <1>0, <1>a DEF ClearDisabled, Cleared
  <2> QED BY <1>0, <1>7, <1>b, <2>1 DEF ClearDisabled
<1>8. CASE \E b \in Auths : LoadFile(b)
  BY <1>8, <1>b DEF LoadFile
<1>9. CASE LoadFails
  <2>1. up /\ safe' = safe
    BY <1>9, <1>a DEF LoadFails, NoWindow
  <2> QED BY <1>0, <1>9, <1>b, <2>1 DEF LoadFails
<1>10. CASE Restore
  <2>1. safe'[a] = safe[a] /\ pc[Main] = "load" /\ a \notin disabled /\ disk[a] = safe[a]
    BY <1>0, <1>10, <1>a, <1>b DEF Restore
  <2>2. window'[a] = safe[a]
    <3>1. CASE up
      BY <1>10, <1>a, <1>b, <3>1 DEF Restore
    <3>2. CASE ~up
      <4>1. loaded[a] = safe[a] /\ window[a] = 0
        BY <1>10, <2>1, <3>2 DEF Restore, LoadedFromDisk, Phases, NoWindow
      <4>2. loaded[a] > window[a]
        BY <4>1, <1>a, <2>1, TimeAssumption DEF Times
      <4>3. a \in Restorable
        BY <4>1, <1>a, <2>1 DEF Restorable
      <4> QED BY <1>0, <1>10, <4>1, <4>2, <4>3 DEF Restore, Restored
    <3> QED BY <3>1, <3>2
  <2> QED BY <1>0, <1>10, <1>b, <2>1, <2>2 DEF Restore
<1>11. CASE Crash
  <2>1. safe'[a] = safe[a] /\ disk' = disk /\ ~up' /\ pc'[Main] = "down" /\ toWrite' = {}
          /\ toRemove' = {}
    BY <1>11 DEF Crash, SaveOver
  <2> QED BY <1>b, <2>1
<1>12. CASE Start
  <2>1. /\ safe'[a] = safe[a] /\ a \notin disabled'
        /\ pc[Main] = "down" /\ pc'[Main] = "load" /\ ~up
        /\ UNCHANGED <<disk, up, saveVars>>
    BY <1>0, <1>12, <1>a DEF Start, Phases
  <2> QED BY <1>b, <2>1
<1> QED BY <1>1, <1>2, <1>3, <1>4, <1>5, <1>6, <1>7, <1>8, <1>9, <1>10, <1>11, <1>12
     DEF Next, SaveStep, MainStep

\* A cleared window comes back to no place a restore reads.
LEMMA ForgottenStays ==
    ASSUME TypeOK, Phases, LoadedFromDisk, SaveInProgress, ForgottenGone, [Next]_vars
    PROVE ForgottenGone'
<1> USE ProcsAssumption DEF Procs, Goto, saveVars, loadVars, history
<1>0. /\ pc \in [Procs -> {"down", "idle", "changed", "saving", "clear", "apply",
                           "applying", "load"}]
      /\ records \in [Auths -> Times] /\ disk \in [Auths -> Times] /\ window \in [Auths -> Times]
      /\ loaded \in [Auths -> Times]
      /\ clearing \subseteq Auths \X Deadlines /\ forgotten \subseteq Auths \X Deadlines
      /\ \A d \in Deadlines : d # 0 /\ d \in Times
  BY TimeAssumption DEF TypeOK, Deadlines, Times
<1>1. CASE \/ Tick \/ UNCHANGED vars \/ ReloadConfig
           \/ \E w \in Workers : Persist(w)
           \/ \E p \in Procs : SaveFails(p)
  <2>1. UNCHANGED <<window, disk, clearing, forgotten>> /\ (records' = records \/ records' = NoWindow)
    BY <1>1 DEF Tick, vars, ReloadConfig, Persist, SaveFails, SaveOver
  <2>2. loaded' = loaded /\ (pc'[Main] \in {"down", "load"} => pc[Main] \in {"down", "load"})
    BY <1>0, <1>1 DEF Tick, vars, ReloadConfig, Persist, SaveFails
  <2> QED BY <1>0, <2>1, <2>2 DEF ForgottenGone, NoWindow
<1>2. CASE \E w \in Workers, a \in Auths : MarkFailure(w, a) \/ ClearWindow(w, a)
  <2>1. PICK w \in Workers, a \in Auths, e \in Times :
          ChangeWindow(a, e) /\ (MarkFailure(w, a) \/ ClearWindow(w, a))
    BY <1>2, TimeAssumption DEF MarkFailure, ClearWindow, Deadlines, Times
  <2>2. UNCHANGED <<disk, records, loaded>> /\ pc'[Main] = pc[Main]
    BY <1>0, <2>1 DEF MarkFailure, ClearWindow
  <2> QED BY <1>0, <2>1, <2>2, Changed DEF ForgottenGone
<1>3. CASE (\E p \in Procs : SaveBegins(p)) \/ ApplyBegins
  <2>1. TakeSnapshot /\ UNCHANGED <<now, window, disabled, disk, loaded, clearing, forgotten>>
          /\ (pc'[Main] \in {"down", "load"} => pc[Main] \in {"down", "load"})
    BY <1>0, <1>3 DEF SaveBegins, ApplyBegins
  <2>2. \A a \in Auths : records'[a] = 0 \/ records'[a] = window[a]
    BY <2>1, Snapshot
  <2> QED BY <1>0, <2>1, <2>2 DEF ForgottenGone
<1>4. CASE \E p \in Procs, b \in Auths : WriteFile(p, b) \/ RemoveStale(p, b)
  <2>1. PICK p \in Procs, b \in Auths : WriteFile(p, b) \/ RemoveStale(p, b)
    BY <1>4
  <2>2. UNCHANGED <<pc, window, records, loaded, clearing, forgotten>>
    BY <2>1 DEF WriteFile, RemoveStale
  <2>3. \A a \in Auths : disk'[a] \in {disk[a], records[a], 0}
    BY <1>0, <2>1 DEF WriteFile, RemoveStale
  <2> QED BY <1>0, <2>2, <2>3 DEF ForgottenGone
<1>5. CASE \E p \in Procs : SaveDone(p)
  <2>1. PICK p \in Procs : SaveDone(p)
    BY <1>5
  <2>2. /\ UNCHANGED <<window, disk>> /\ records' = NoWindow
        /\ clearing' = {} /\ forgotten' = forgotten \union clearing
        /\ toWrite = {} /\ toRemove = {} /\ SomeoneWrites
    BY <2>1 DEF SaveDone, SaveOver, InSave, SomeoneWrites, Writing
  <2>3. \A a \in Auths : disk[a] = records[a]
    BY <2>2 DEF SaveInProgress
  <2>4. loaded' = loaded \/ loaded' = NoWindow
    BY <2>1 DEF SaveDone, AfterSave
  <2>5. pc[Main] # "load" => loaded = NoWindow
    BY DEF LoadedFromDisk
  <2> QED BY <1>0, <2>2, <2>3, <2>4, <2>5 DEF ForgottenGone, NoWindow
<1>6. CASE ClearDisabled
  <2>1. /\ UNCHANGED <<disk, records, loaded, forgotten>> /\ records = NoWindow
        /\ pc'[Main] = "apply"
        /\ clearing' = clearing \union {<<a, window[a]>> : a \in Cleared}
    <3>1. ~SomeoneWrites
      BY <1>6, Writers DEF ClearDisabled
    <3> QED BY <1>0, <1>6, <3>1 DEF ClearDisabled, SaveInProgress
  <2>2. \A a \in Auths : window'[a] = IF a \in Cleared THEN 0 ELSE window[a]
    BY <1>6 DEF ClearDisabled
  <2> QED BY <1>0, <2>1, <2>2 DEF ForgottenGone, NoWindow
<1>7. CASE \E b \in Auths : LoadFile(b)
  <2>1. UNCHANGED <<pc, window, records, disk, clearing, forgotten>>
          /\ \A a \in Auths : loaded'[a] \in {loaded[a], disk[a]}
    BY <1>0, <1>7 DEF LoadFile
  <2> QED BY <1>0, <2>1 DEF ForgottenGone
<1>8. CASE LoadFails
  <2>1. UNCHANGED <<window, records, disk, clearing, forgotten>> /\ loaded' = NoWindow
          /\ pc'[Main] = "idle"
    BY <1>0, <1>8 DEF LoadFails, LoadOver
  <2> QED BY <1>0, <2>1 DEF ForgottenGone, NoWindow
<1>9. CASE Restore
  <2>1. /\ UNCHANGED <<records, disk, clearing, forgotten>> /\ loaded' = NoWindow
        /\ pc[Main] = "load" /\ pc'[Main] \notin {"down", "load"}
    BY <1>0, <1>9 DEF Restore, LoadOver
  <2>2. \A a \in Auths : window'[a] \in {window[a], loaded[a]}
    BY <1>9 DEF Restore, Restored
  <2> QED BY <1>0, <2>1, <2>2 DEF ForgottenGone, NoWindow
<1>10. CASE Crash
  <2>1. UNCHANGED <<disk, forgotten>> /\ loaded' = NoWindow /\ window' = NoWindow
          /\ records' = NoWindow /\ clearing' = {}
    BY <1>10 DEF Crash, LoadOver, SaveOver
  <2> QED BY <1>0, <2>1 DEF ForgottenGone, NoWindow
<1>11. CASE Start
  <2>1. UNCHANGED <<disk, forgotten, window, records>> /\ loaded' = NoWindow /\ clearing' = clearing
    BY <1>11 DEF Start
  <2>2. clearing = {}
    BY <1>11 DEF Start, ForgottenGone
  <2> QED BY <1>0, <2>1, <2>2 DEF ForgottenGone, NoWindow
<1> QED BY <1>1, <1>2, <1>3, <1>4, <1>5, <1>6, <1>7, <1>8, <1>9, <1>10, <1>11
     DEF Next, SaveStep, MainStep

\* Between saves the disk blocks what memory blocks.
LEMMA MemoryStays ==
    ASSUME TypeOK, Phases, LoadedFromDisk, SaveInProgress, MemorySaved, [Next]_vars
    PROVE MemorySaved'
<1> SUFFICES ASSUME Settled', NEW a \in Auths \ disabled'
             PROVE /\ SomeoneWrites' => Alike(records[a], window[a])'
                   /\ ~SomeoneWrites' /\ ~failed' => Alike(disk[a], window[a])'
  BY DEF MemorySaved
<1> USE ProcsAssumption DEF Procs, Goto, saveVars, loadVars, history
<1>0. /\ pc \in [Procs -> {"down", "idle", "changed", "saving", "clear", "apply",
                           "applying", "load"}]
      /\ records \in [Auths -> Times] /\ disk \in [Auths -> Times] /\ window \in [Auths -> Times]
      /\ loaded \in [Auths -> Times]
  BY DEF TypeOK
<1>a. Settled /\ a \notin disabled =>
        /\ SomeoneWrites => Alike(records[a], window[a])
        /\ ~SomeoneWrites /\ ~failed => Alike(disk[a], window[a])
  BY DEF MemorySaved
<1>1. CASE Tick \/ UNCHANGED vars
  <2>1. UNCHANGED <<up, window, disabled, disk, pc, records, failed>>
    BY <1>1 DEF Tick, vars
  <2>2. Settled /\ SomeoneWrites' = SomeoneWrites
    BY <1>1, <2>1, WritersMove DEF Settled
  <2>3. \A d \in Times : Live(d)' => Live(d)
    BY LiveBefore
  <2> QED BY <1>0, <1>a, <2>1, <2>2, <2>3 DEF Alike, Live
<1>2. CASE \E w \in Workers : Persist(w) \/ \E b \in Auths : MarkFailure(w, b) \/ ClearWindow(w, b)
  <2>1. PICK w \in Workers : Persist(w) \/ \E b \in Auths : MarkFailure(w, b) \/ ClearWindow(w, b)
    BY <1>2
  <2>2. pc'[w] # "changed"
    BY DEF Settled
  <2>3. PICK b \in Auths, d \in Times :
          /\ ChangeWindow(b, d) /\ pc' = [pc EXCEPT ![w] = "idle"] /\ pc[w] = "idle" /\ up
          /\ b \in disabled \/ (d = 0 /\ ~Live(window[b]))
    <3>1. ~Persist(w)
      BY <1>0, <2>2 DEF Persist
    <3>2. PICK b \in Auths : MarkFailure(w, b) \/ ClearWindow(w, b)
      BY <2>1, <3>1
    <3>3. CASE MarkFailure(w, b)
      <4>1. b \in disabled
        BY <1>0, <2>2, <3>3 DEF MarkFailure
      <4> QED BY <3>3, <4>1, TimeAssumption DEF MarkFailure, Deadlines, Times
    <3>4. CASE ClearWindow(w, b)
      <4>1. b \in disabled \/ ~Live(window[b])
        BY <1>0, <2>2, <3>4 DEF ClearWindow
      <4>2. 0 \in Times
        BY TimeAssumption DEF Times
      <4>3. ChangeWindow(b, 0) /\ pc[w] = "idle" /\ up
        BY <3>4 DEF ClearWindow
      <4>4. pc' = [pc EXCEPT ![w] = "idle"]
        BY <3>4, <4>1 DEF ClearWindow
      <4> QED BY <4>1, <4>2, <4>3, <4>4
    <3> QED BY <3>2, <3>3, <3>4
  <2>4. UNCHANGED <<now, up, disabled, disk, records, failed>> /\ SomeoneWrites' = SomeoneWrites
    BY <1>2, <2>1, WritersMove DEF Persist, MarkFailure, ClearWindow
  <2>5. Settled
    <3>1. pc' = pc
      BY <1>0, <2>3
    <3> QED BY <2>4, <3>1 DEF Settled
  <2>6. CASE a = b
    <3>1. ~Live(window[a]) /\ window'[a] = 0
      BY <2>3, <2>4, <2>6, Changed
    <3>2. ~Live(0)
      BY LiveBefore, TimeAssumption DEF Times
    <3> QED BY <1>0, <1>a, <2>4, <2>5, <3>1, <3>2 DEF Alike, Live
  <2>7. CASE a # b
    <3>1. window'[a] = window[a]
      BY <2>3, <2>7, Changed
    <3> QED BY <1>a, <2>4, <2>5, <3>1 DEF Alike, Live
  <2> QED BY <2>6, <2>7
<1>3. CASE (\E p \in Procs : SaveBegins(p)) \/ ApplyBegins
  <2>1. TakeSnapshot /\ UNCHANGED <<now, window, disabled>>
    BY <1>3 DEF SaveBegins, ApplyBegins
  <2>2. SomeoneWrites'
    BY <1>3, WritersMove
  <2>3. IF Live(window[a]) THEN records'[a] = window[a] ELSE records'[a] = 0
    BY <2>1, Snapshot
  <2>4. ~Live(0)
    BY LiveBefore, TimeAssumption DEF Times
  <2> QED BY <2>1, <2>2, <2>3, <2>4 DEF Alike, Live
<1>4. CASE \E p \in Procs, b \in Auths : WriteFile(p, b) \/ RemoveStale(p, b)
  <2>1. UNCHANGED <<now, pc, up, window, disabled, records, failed>> /\ SomeoneWrites
    BY <1>4 DEF WriteFile, RemoveStale, InSave, SomeoneWrites, Writing
  <2>2. Settled /\ SomeoneWrites'
    BY <1>4, <2>1, WritersMove DEF Settled
  <2> QED BY <1>a, <2>1, <2>2 DEF Alike, Live
<1>5. CASE \E p \in Procs : SaveDone(p) \/ SaveFails(p)
  <2>1. PICK p \in Procs : SaveDone(p) \/ SaveFails(p)
    BY <1>5
  <2>2. SomeoneWrites /\ ~SomeoneWrites'
    BY <1>5, WritersMove
  <2>3. CASE SaveFails(p)
    BY <2>2, <2>3 DEF SaveFails
  <2>4. CASE SaveDone(p)
    <3>1. /\ UNCHANGED <<now, window, disabled, disk>> /\ toWrite = {} /\ toRemove = {}
          /\ pc[p] \in {"saving", "applying"} /\ \E t \in {"idle", "load"} : pc' = [pc EXCEPT ![p] = t]
      BY <2>4 DEF SaveDone, InSave, AfterSave
    <3>2. disk[a] = records[a]
      BY <2>2, <3>1 DEF SaveInProgress
    <3>3. Settled
      BY <1>0, <2>2, <3>1, Writers DEF Settled
    <3> QED BY <1>a, <2>2, <3>1, <3>2, <3>3 DEF Alike, Live
  <2> QED BY <2>1, <2>3, <2>4
<1>6. CASE ReloadConfig \/ ClearDisabled
  BY <1>0, <1>6 DEF ReloadConfig, ClearDisabled, Settled
<1>7. CASE \E b \in Auths : LoadFile(b)
  <2>1. UNCHANGED <<now, pc, up, window, disabled, disk, records, failed>>
    BY <1>7 DEF LoadFile
  <2>2. Settled /\ SomeoneWrites' = SomeoneWrites
    BY <1>7, <2>1, WritersMove DEF Settled
  <2> QED BY <1>a, <2>1, <2>2 DEF Alike, Live
<1>8. CASE LoadFails \/ Restore
  <2>1. /\ pc[Main] = "load" /\ pc' = [pc EXCEPT ![Main] = "idle"]
        /\ UNCHANGED <<now, disabled, disk, records>>
        /\ SomeoneWrites' = SomeoneWrites
    <3>1. pc'[Main] # "changed"
      BY DEF Settled
    <3> QED BY <1>0, <1>8, <3>1, WritersMove DEF LoadFails, Restore
  <2>2. window'[a] = window[a]
    <3>1. CASE LoadFails
      BY <3>1 DEF LoadFails
    <3>2. CASE Restore
      <4>1. loaded = NoWindow
        BY <1>0, <2>1, <3>2 DEF Restore
      <4>2. a \notin Restorable
        BY <4>1, LiveBefore, TimeAssumption DEF Restorable, NoWindow, Times
      <4> QED BY <3>2, <4>2 DEF Restore, Restored
    <3> QED BY <1>8, <3>1, <3>2
  <2>3. CASE up
    <3>1. failed' = failed
      BY <1>8, <2>3 DEF LoadFails, Restore
    <3>2. Settled
      BY <1>0, <2>1, <2>3 DEF Settled
    <3> QED BY <1>a, <2>1, <2>2, <3>1, <3>2 DEF Alike, Live
  <2>4. CASE ~up
    <3>1. ~SomeoneWrites
      BY <2>1, <2>4 DEF SomeoneWrites, Writing, Phases
    <3>2. CASE LoadFails
      BY <2>1, <2>4, <3>1, <3>2 DEF LoadFails
    <3>3. CASE Restore
      <4>1. loaded = NoWindow /\ toLoad = {}
        BY <1>0, <2>1, <3>3 DEF Restore
      <4>2. disk[a] = 0 /\ window[a] = 0
        BY <2>1, <2>4, <4>1 DEF LoadedFromDisk, Phases, NoWindow
      <4> QED BY <2>1, <2>2, <3>1, <4>2 DEF Alike
    <3> QED BY <1>8, <3>2, <3>3
  <2> QED BY <2>3, <2>4
<1>9. CASE Crash \/ Start
  <2>1. ~up'
    BY <1>9 DEF Crash, Start, Phases
  <2>2. ~SomeoneWrites'
    BY <1>9, WritersMove
  <2> QED BY <2>1, <2>2 DEF Settled
<1> QED BY <1>1, <1>2, <1>3, <1>4, <1>5, <1>6, <1>7, <1>8, <1>9 DEF Next, SaveStep, MainStep

-----------------------------------------------------------------------------
(* Theorems *)

\* The invariant holds of every behaviour.
THEOREM Invariance == Spec => []IInv
<1>1. IInv /\ [Next]_vars => IInv'
  <2> SUFFICES ASSUME IInv, [Next]_vars PROVE IInv'
    OBVIOUS
  <2>1. TypeOK' /\ Phases'
    BY TypeKept, PhasesKept DEF IInv
  <2>2. LoadedFromDisk' /\ SaveInProgress'
    BY LoadKept, SaveInProgressKept DEF IInv
  <2>3. SafeKept' /\ ForgottenGone' /\ MemorySaved'
    BY <2>1, SafeStays, ForgottenStays, MemoryStays DEF IInv
  <2> QED BY <2>1, <2>2, <2>3 DEF IInv
<1> QED BY <1>1, InitIInv, PTL DEF Spec

\* The manager's fields keep their shape; configCooldownMu is held exactly by the
\* goroutine that saves or reloads.
THEOREM PersistenceTypeCorrect == Spec => []TypeOK
BY Invariance, PTL DEF IInv

\* A saved window outlives failed saves, crashes in the middle of one, and
\* restarts, for any number of auths and goroutines.
THEOREM SavedWindowsSurvive == Spec => []SavedSurvives
<1>1. IInv => SavedSurvives
  BY DEF IInv, SafeKept, SavedSurvives
<1> QED BY <1>1, Invariance, PTL

\* Once every goroutine has returned and no save failed, no change is missing on
\* disk and no older snapshot was saved over a newer one.
THEOREM DiskSaysWhatMemorySays == Spec => []DiskMatchesMemory
<1>1. IInv => DiskMatchesMemory
  <2> SUFFICES ASSUME IInv, up, ~failed, \A p \in Procs : pc[p] = "idle",
                      NEW a \in Auths \ disabled, Live(disk[a]) \/ Live(window[a])
               PROVE disk[a] = window[a]
    BY DEF DiskMatchesMemory
  <2>1. Settled /\ ~SomeoneWrites
    BY DEF Settled, SomeoneWrites, Writing, Procs
  <2> QED BY <2>1 DEF IInv, MemorySaved, Alike
<1> QED BY <1>1, Invariance, PTL

\* A window cleared by a config update and saved as cleared is nowhere it could
\* come back from.
THEOREM ClearedStaysCleared == Spec => []ForgottenStaysForgotten
<1>1. IInv => ForgottenStaysForgotten
  BY DEF IInv, ForgottenGone, ForgottenStaysForgotten
<1> QED BY <1>1, Invariance, PTL
=============================================================================
