-------------------------- MODULE RegistryProjection --------------------------
(***************************************************************************)
(* How the model registry follows the auth manager for one credential,     *)
(* which is the registry client of the same id.  Three kinds of goroutine  *)
(* write to both:                                                          *)
(*   - workers record results (MarkResult) and quota resets (ResetQuota);  *)
(*   - the queue applies additions, changes and removals of the credential *)
(*     one after the other (handleAuthUpdates);                            *)
(*   - the registrar re-registers the models of existing credentials, when *)
(*     the model catalogue changed (refreshModelRegistrationForAuth) or a  *)
(*     configuration was applied (registerModelsForAuthBatch).             *)
(* Each copies the auth under m.mu, reads the registry under r.mutex and   *)
(* hands both to ApplyClientModelProjections, in three critical sections:  *)
(* anything may happen in between.  The registry tells old projections     *)
(* from current ones by its own registration epoch and by auth.Generation. *)
(*                                                                         *)
(* How often each kind of goroutine acts is bounded by MaxResults,         *)
(* MaxUpdates and MaxPasses, how often all of them do by MaxEvents.        *)
(***************************************************************************)
EXTENDS ModelRegistry

CONSTANTS
    Client,                \* the credential under study
    Workers, Queue, Registrar,
    Kinds,                 \* marks a blocked model can get: "quota", "other"
    Offers,                \* what a registration may find the credential to offer
    OtherOffers,           \* what the other clients offer
    NoAuth,
    MaxResults, MaxUpdates, MaxPasses, MaxEvents

\* A credential or client without models is left out: binding it unregisters it
\* (ModelRegistry), so RegistrationsMatchCredentials would not say "exactly".
ASSUME OffersAssumption ==
    Offers \cup OtherOffers \subseteq
      [provider : Providers, copies : [Models -> Nat] \ {Nothing}]

ASSUME ActorsAssumption == /\ Client \in Clients
                           /\ Queue # Registrar
                           /\ {Queue, Registrar} \cap Workers = {}

Actors == Workers \cup {Queue, Registrar}

\* What the manager keeps of a credential: which registration of it this is, how
\* often it was written, and the state of every model.
AuthRecord == [registration : Nat, generation : Nat, disabled : BOOLEAN,
               states : [Models -> Kinds \cup {"clean", "none"}]]

ASSUME NoAuthAssumption == NoAuth \notin AuthRecord

VARIABLES
    auth,                  \* m.auths[Client]
    registrations,         \* m.authEpochs[Client]
    actor,                 \* what each goroutine does and holds
    pass,                  \* the registrar's pass: "first" when another look follows, or "last"
    spent,                 \* how often each kind of goroutine acted (bounds only)
    shown,                 \* history: the registration whose projection was accepted last
    overlap                \* history: the last queue operation overlapped the last unchecked pass

managerVars == <<auth, registrations>>
vars == <<registryVars, managerVars, actor, pass, spent, shown, overlap>>

Enabled(a) == a # NoAuth /\ ~a.disabled

NoStates == [m \in Models |-> "none"]

AtRest == [pc |-> "idle", copy |-> NoAuth, epoch |-> 0, supported |-> {}]

Init ==
    /\ RegistryInit
    /\ auth = NoAuth
    /\ registrations = 0
    /\ actor = [x \in Actors |-> AtRest]
    /\ pass = "last"
    /\ spent = [results |-> 0, updates |-> 0, passes |-> 0]
    /\ shown = 0
    /\ overlap = FALSE

At(x, pc) == actor[x].pc = pc
Holds(x, pc, copy) == actor' = [actor EXCEPT ![x].pc = pc, ![x].copy = copy]
Only(x, pc) == actor' = [actor EXCEPT ![x] = [AtRest EXCEPT !.pc = pc]]
Rests(x) == Only(x, "idle")

Spend(what, max) ==
    /\ spent[what] < max
    /\ spent.results + spent.updates + spent.passes < MaxEvents
    /\ spent' = [spent EXCEPT ![what] = @ + 1]

\* From the registrar's last look at the credential to the end of its pass
\* nothing checks whether the credential changed.
Unchecked == ~At(Registrar, "idle") /\ pass = "last"

-----------------------------------------------------------------------------
(* Workers: record an outcome under m.mu, then project it.                 *)

\* The result of a request for model m: a block, or a success that clears it.
\* Results that block the credential as a whole are left out.
MarkResult(w) ==
    /\ At(w, "idle") /\ auth # NoAuth
    /\ Spend("results", MaxResults)
    /\ \E m \in Models, s \in Kinds \cup {"clean"} :
         auth' = [auth EXCEPT !.states[m] = s, !.generation = @ + 1]
    /\ Holds(w, "read", auth')
    /\ UNCHANGED <<registryVars, registrations, pass, shown, overlap>>

ResetQuota(w) ==
    /\ At(w, "idle") /\ auth # NoAuth
    /\ Spend("results", MaxResults)
    /\ auth' = [auth EXCEPT !.generation = @ + 1,
                  !.states = [m \in Models |-> IF @[m] = "none" THEN "none" ELSE "clean"]]
    /\ Holds(w, "read", auth')
    /\ UNCHANGED <<registryVars, registrations, pass, shown, overlap>>

\* GetModelsAndEpochForClient, after m.mu was unlocked.
ReadRegistration(w) ==
    /\ At(w, "read")
    /\ actor' = [actor EXCEPT ![w].pc = "project",
                              ![w].epoch = clients[Client].epoch,
                              ![w].supported = Offered(Client)]
    /\ UNCHANGED <<registryVars, managerVars, pass, spent, shown, overlap>>

\* clientModelProjectionForAuth
Projection(a, supported) ==
    [m \in supported |-> IF a.states[m] \in Kinds THEN a.states[m]
                         ELSE IF a.disabled THEN "other" ELSE "open"]

\* Mutant: a catalogue refresh does not look at the credential again.
Projected_OneLook(x) == Rests(x)

\* What follows a projection: the first pass of a catalogue refresh looks at the
\* credential again, everyone else is done.
Projected(x) ==
    IF x = Registrar /\ pass = "first" THEN Only(x, "lookAgain") ELSE Rests(x)

Project(x) ==
    /\ At(x, "project")
    /\ LET h == actor[x]
           marks == Projection(h.copy, h.supported)
       IN  \/ /\ ApplyClientModelProjections(Client, h.epoch, h.copy.generation, marks)
              /\ shown' = h.copy.registration
           \/ /\ ~Current(Client, h.epoch, h.copy.generation, marks)
              /\ UNCHANGED <<registryVars, shown>>
    /\ Projected(x)
    /\ UNCHANGED <<managerVars, pass, spent, overlap>>

-----------------------------------------------------------------------------
(* Binding the models of a credential, by the queue and by the registrar.  *)

\* registerModelsForAuthWithCache: the copy says whether the credential is
\* disabled, the configuration and the catalogue of the moment what it offers.
Bind(x) ==
    /\ At(x, "bind")
    /\ IF actor[x].copy.disabled THEN UnregisterClient(Client)
       ELSE \E o \in Offers : RegisterClient(Client, o)
    /\ Only(x, "reconcile")
    /\ UNCHANGED <<managerVars, pass, spent, shown, overlap>>

\* ReconcileRegistryModelStates up to the unlock of m.mu: the states of models
\* that are offered no longer go, those whose window ran out (any of them may
\* have) are reset, and the epoch is that of the models it looked at.
Reconcile(x) ==
    /\ At(x, "reconcile")
    /\ IF auth = NoAuth
       THEN Projected(x) /\ UNCHANGED auth
       ELSE \E over \in SUBSET {m \in Models : auth.states[m] \in Kinds} :
              LET states == [m \in Models |-> IF m \notin Offered(Client) THEN "none"
                                              ELSE IF m \in over THEN "clean"
                                              ELSE auth.states[m]]
              IN  /\ auth' = [auth EXCEPT
                        !.states = states,
                        !.generation = IF states = auth.states THEN @ ELSE @ + 1]
                  /\ actor' = [actor EXCEPT
                        ![x] = [pc |-> "project", copy |-> auth',
                                epoch |-> clients[Client].epoch,
                                supported |-> Offered(Client)]]
    /\ UNCHANGED <<registryVars, registrations, pass, spent, shown, overlap>>

-----------------------------------------------------------------------------
(* The queue.                                                              *)

\* prepareCoreAuthForModelRegistration up to GetByID: a synthesized auth comes
\* without states and takes those of the copy it found, unless one of the two is
\* disabled.
TakeUpdate ==
    /\ At(Queue, "idle")
    /\ Spend("updates", MaxUpdates)
    /\ \E disabled \in BOOLEAN :
         Holds(Queue, IF auth = NoAuth THEN "register" ELSE "update",
               [registration |-> 0, generation |-> 0, disabled |-> disabled,
                states |-> IF Enabled(auth) /\ ~disabled THEN auth.states ELSE NoStates])
    /\ overlap' = Unchecked
    /\ UNCHANGED <<registryVars, managerVars, pass, shown>>

\* Manager.Register
Register ==
    /\ At(Queue, "register")
    /\ registrations' = registrations + 1
    /\ auth' = [actor[Queue].copy EXCEPT !.registration = registrations', !.generation = 1]
    /\ Holds(Queue, "bind", auth')
    /\ UNCHANGED <<registryVars, pass, spent, shown, overlap>>

\* Manager.Update: states written since GetByID are overwritten, unless there
\* were none at that time.
Update ==
    /\ At(Queue, "update")
    /\ LET a == actor[Queue].copy
           keep == Enabled(auth) /\ ~a.disabled /\ a.states = NoStates
       IN  auth' = [a EXCEPT !.registration = auth.registration,
                             !.generation = auth.generation + 1,
                             !.states = IF keep THEN auth.states ELSE @]
    /\ Holds(Queue, "bind", auth')
    /\ UNCHANGED <<registryVars, registrations, pass, spent, shown, overlap>>

\* applyCoreAuthRemoval takes the models out of the registry first ...
TakeRemoval ==
    /\ At(Queue, "idle") /\ auth # NoAuth
    /\ Spend("updates", MaxUpdates)
    /\ UnregisterClient(Client)
    /\ Only(Queue, "remove")
    /\ overlap' = Unchecked
    /\ UNCHANGED <<managerVars, pass, shown>>

\* ... and then the auth out of the manager.
Remove ==
    /\ At(Queue, "remove")
    /\ auth' = NoAuth
    /\ registrations' = registrations + 1
    /\ Rests(Queue)
    /\ UNCHANGED <<registryVars, pass, spent, shown, overlap>>

-----------------------------------------------------------------------------
(* The registrar.                                                          *)

\* The callback of the catalogue updater takes enabled credentials only, the
\* batch after a configuration change takes all.  Both run on goroutines of their
\* own; here they take turns, and none is cancelled half way.
StartPass ==
    /\ At(Registrar, "idle") /\ auth # NoAuth
    /\ Spend("passes", MaxPasses)
    /\ \/ pass' = "first" /\ Enabled(auth) /\ UNCHANGED overlap
       \/ pass' = "last" /\ overlap' = ~At(Queue, "idle")
    /\ Holds(Registrar, "bind", auth)
    /\ UNCHANGED <<registryVars, managerVars, shown>>

\* latestAuthForModelRegistration
LookAgain ==
    /\ At(Registrar, "lookAgain")
    /\ pass' = "last"
    /\ Holds(Registrar, IF Enabled(auth) THEN "bind" ELSE "drop", auth)
    /\ overlap' = ~At(Queue, "idle")
    /\ UNCHANGED <<registryVars, managerVars, spent, shown>>

Drop ==
    /\ At(Registrar, "drop")
    /\ UnregisterClient(Client)
    /\ Rests(Registrar)
    /\ UNCHANGED <<managerVars, pass, spent, shown, overlap>>

-----------------------------------------------------------------------------
(* Everything else the registry does.                                      *)

\* Another credential is registered, changes its offer or goes.
OtherClient ==
    /\ \E c \in Clients \ {Client} :
         \/ \E o \in OtherOffers : RegisterClient(c, o)
         \/ IsRegistered(c) /\ UnregisterClient(c)
    /\ UNCHANGED <<managerVars, actor, pass, spent, shown, overlap>>

List ==
    /\ GetAvailableModels
    /\ UNCHANGED <<managerVars, actor, pass, spent, shown, overlap>>

Next ==
    \/ \E w \in Workers : MarkResult(w) \/ ResetQuota(w) \/ ReadRegistration(w)
    \/ \E x \in Actors : Project(x)
    \/ \E x \in {Queue, Registrar} : Bind(x) \/ Reconcile(x)
    \/ TakeUpdate \/ Register \/ Update \/ TakeRemoval \/ Remove
    \/ StartPass \/ LookAgain \/ Drop
    \/ OtherClient \/ List

Spec == Init /\ [][Next]_vars

-----------------------------------------------------------------------------

Quiet == \A x \in Actors : At(x, "idle")

\* The marks of the registry follow the manager: whatever the order in which the
\* critical sections of results, resets, reconciliations and registrations fell,
\* once all of them are done the registry marks exactly the models the
\* credential's latest state blocks.  The one way to get it wrong is a copy of
\* an earlier registration of the credential, which the check of the generation
\* does not recognise after a removal started the count again.
MarksFollowManager ==
    Quiet /\ auth # NoAuth /\ IsRegistered(Client) /\ shown = auth.registration =>
        \A m \in Offered(Client) :
            models[m].marks[Client] = Projection(auth, Offered(Client))[m]

\* The second look of a catalogue refresh repairs whatever the first pass did to
\* a credential that was changed, removed or added meanwhile: once all is done
\* the registry has models for the credential exactly if it exists and is
\* enabled.  Only a queue operation that falls into an unchecked pass can leave
\* an orphan in the registry, or an enabled credential without models.
RegistrationsMatchCredentials ==
    Quiet /\ ~overlap => (IsRegistered(Client) <=> Enabled(auth))
=============================================================================
