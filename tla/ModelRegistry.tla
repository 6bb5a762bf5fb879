---------------------------- MODULE ModelRegistry ----------------------------
(***************************************************************************)
(* The global model registry (internal/registry/model_registry.go): which  *)
(* client offers which model, how often and through which provider, which  *)
(* of them are marked as not to be used, and the cached list of models     *)
(* that are available at all.  Every operation holds r.mutex from its      *)
(* first read to its last write and is one action here.                    *)
(*                                                                         *)
(* A client's list of models may name a model more than once: copies[m] is *)
(* how often.  SuspendedClients and QuotaExceededClients of a registration *)
(* are written together, by ApplyClientModelProjections, so one mark per   *)
(* client stands for both: "quota" (suspended for quota, over quota),      *)
(* "other" (suspended for another reason) or "open".  Model metadata, the  *)
(* five-minute age of a quota mark, which also bounds the life of a cached *)
(* list, and the hooks are left out.                                       *)
(***************************************************************************)
EXTENDS Integers, FiniteSets, FiniteSetsExt

CONSTANTS Clients, Models, Providers,
          NoProvider,      \* clientProviders has no entry
          NoList           \* availableModelsCache is empty

ASSUME ClientsAssumption == IsFiniteSet(Clients)

VARIABLES
    models,                \* r.models: one registration per model, Absent when there is none
    clients,               \* clientModels, clientProviders, clientEpochs, clientGenerations
    availableModels        \* availableModelsCache

registryVars == <<models, clients, availableModels>>

Absent == [count |-> 0,
           providers |-> [p \in Providers |-> 0],
           marks |-> [c \in Clients |-> "open"]]

Nothing == [m \in Models |-> 0]

Unknown == [provider |-> NoProvider, copies |-> Nothing, epoch |-> 0, generation |-> 0]

RegistryInit ==
    /\ models = [m \in Models |-> Absent]
    /\ clients = [c \in Clients |-> Unknown]
    /\ availableModels = NoList

IsRegistered(c) == clients[c].copies # Nothing

\* GetModelsAndEpochForClient lists each model once.
Offered(c) == {m \in Models : clients[c].copies[m] > 0}

-----------------------------------------------------------------------------
(* One registration.                                                       *)

\* k calls of addModelRegistration.
Added(r, p, k) == [r EXCEPT !.count = @ + k, !.providers[p] = @ + k]

Less(n, k) == IF n <= k THEN 0 ELSE n - k

\* k calls of removeModelRegistration; the last copy takes the registration along.
Removed(r, c, p, k) ==
    IF k = 0 THEN r
    ELSE IF r.count <= k THEN Absent
    ELSE [r EXCEPT !.count = @ - k, !.providers[p] = Less(@, k), !.marks[c] = "open"]

\* Mutant: copies that stay are taken from the old provider and not given to the new.
Reconciled_Loses(r, c, p, k, q, l) ==
    LET moved == IF p = q THEN 0 ELSE Min({k, l})
        left  == [r EXCEPT !.providers[p] = Less(@, moved)]
        kept  == Added(Removed(left, c, p, Less(k, l)), q, Less(l, k))
    IN  IF l = 0 THEN kept ELSE [kept EXCEPT !.marks[c] = "open"]

\* What RegisterClient does to the registration r of a model of which client c
\* had k copies through p and now has l copies through q: copies on both sides
\* leave the old provider first and reach the new one last, the others are
\* removed or added in between.
Reconciled(r, c, p, k, q, l) ==
    LET moved == IF p = q THEN 0 ELSE Min({k, l})
        left  == [r EXCEPT !.providers[p] = Less(@, moved)]
        kept  == Added(Removed(left, c, p, Less(k, l)), q, Less(l, k))
    IN  IF l = 0 THEN kept
        ELSE [kept EXCEPT !.providers[q] = @ + moved, !.marks[c] = "open"]

\* modelRegistrationAvailability: a model whose users are only cooling down for
\* quota stays listed.
Available(r) ==
    LET Marked(mark) == Cardinality({c \in Clients : r.marks[c] = mark})
    IN  \/ r.count > Marked("quota") + Marked("other")
        \/ r.count > 0 /\ Marked("quota") > 0 /\ Marked("other") = 0

-----------------------------------------------------------------------------
(* Operations.                                                             *)

\* An offer names at least one model (OffersAssumption of RegistryProjection): an
\* empty list unregisters the client.
RegisterClient(c, offer) ==
    LET old == clients[c]
    IN  /\ models' = [m \in Models |->
              IF IsRegistered(c)
              THEN Reconciled(models[m], c, old.provider, old.copies[m],
                              offer.provider, offer.copies[m])
              ELSE Added(models[m], offer.provider, offer.copies[m])]
        /\ clients' = [clients EXCEPT
              ![c] = [provider |-> offer.provider, copies |-> offer.copies,
                      epoch |-> old.epoch + 1, generation |-> 0]]
        /\ availableModels' = NoList

\* The epoch moves on even when there was nothing to unregister.
UnregisterClient(c) ==
    LET old == clients[c]
    IN  /\ models' = [m \in Models |->
              Removed(models[m], c, old.provider, old.copies[m])]
        /\ clients' = [clients EXCEPT
              ![c] = [Unknown EXCEPT !.epoch = old.epoch + 1,
                                     !.generation = old.generation + 1]]
        /\ availableModels' = NoList

\* Mutant: a projection older than the one shown is not refused.
Current_AnyGeneration(c, epoch, generation, marks) ==
    /\ IsRegistered(c)
    /\ epoch = clients[c].epoch
    /\ DOMAIN marks \cap Offered(c) # {}

\* The conditions under which ApplyClientModelProjections returns true for a
\* projection of the models in DOMAIN marks.
Current(c, epoch, generation, marks) ==
    /\ IsRegistered(c)
    /\ epoch = clients[c].epoch
    /\ generation >= clients[c].generation
    /\ DOMAIN marks \cap Offered(c) # {}

ApplyClientModelProjections(c, epoch, generation, marks) ==
    /\ Current(c, epoch, generation, marks)
    /\ clients' = [clients EXCEPT ![c].generation = generation]
    /\ models' = [m \in Models |->
          IF m \in DOMAIN marks \cap Offered(c)
          THEN [models[m] EXCEPT !.marks[c] = marks[m]] ELSE models[m]]
    /\ availableModels' = IF models' = models THEN availableModels ELSE NoList

\* A listing that finds no cached list builds one.
GetAvailableModels ==
    /\ availableModels = NoList
    /\ availableModels' = {m \in Models : Available(models[m])}
    /\ UNCHANGED <<models, clients>>

-----------------------------------------------------------------------------

\* The copies of model m in the lists of the clients cs, one by one.
Copies(m, cs) == UNION {{c} \X (1..clients[c].copies[m]) : c \in cs}

\* The registry keeps its counters, marks and list up to date step by step,
\* through provider changes and repeated models; at any time they are what a
\* recount from the clients' lists gives: every copy counted once, at its
\* client's provider, no mark of a client that does not offer the model, and no
\* cached list that a fresh look at the registrations would contradict.
BookkeepingExact ==
    /\ \A m \in Models :
         /\ models[m].count = Cardinality(Copies(m, Clients))
         /\ \A p \in Providers :
              models[m].providers[p] =
                Cardinality(Copies(m, {c \in Clients : clients[c].provider = p}))
         /\ \A c \in Clients : models[m].marks[c] # "open" => m \in Offered(c)
    /\ availableModels # NoList =>
         availableModels = {m \in Models : Available(models[m])}
=============================================================================
