-------------------------- MODULE GatewayCliProofs --------------------------
\* The commands of the CLI, for any sets of ids and any interleaving of steps,
\* refusals and kills. First, with no assumption on the derived names of variables
\* and no type invariant, that the operator is never left without a configuration
\* that loads; then that a command carries out what it planned on the file it has
\* read (PlanInv), that saved rows keep what they refer to (NeedsInv) and that a
\* checked configuration boots (SecretsInv). Ids may derive the same name: what is
\* said of a row's variables holds for those no other id derives (Unshared).
EXTENDS GatewayCli, TLAPS

\* What each step of persistConfig relies on: the file is opened only when there is
\* a copy of the operator's configuration and what is to be written has passed the
\* schema.
LoadsInv ==
    /\ AlwaysLoads
    /\ pc \in {"write", "writing"} => Current = backup /\ SchemaAccepts(job.mem)

\* A truncated file does not load: the schema wants a model.
LEMMA TruncatedIsRefused == ~SchemaAccepts(Truncated)
  BY DEF SchemaAccepts, ModelsAndProvidersAgree, Truncated

\* A file that loads is the operator's configuration.
LEMMA LoadingIsCurrent ==
    SchemaAccepts(yaml) => Current = yaml
  BY TruncatedIsRefused DEF Current

\* The copy of a truncated file is the operator's configuration, and stays.
LEMMA CopyKept ==
    ASSUME CopyOfTruncated
    PROVE  Current' = Current /\ yaml' = yaml
  BY DEF CopyOfTruncated, Current, Truncated

\* Steps that leave the operator's configuration alone and are not between the
\* copy and the write.
LEMMA CurrentKeeps ==
    ASSUME LoadsInv, Current' = Current,
           \/ pc' \in {"idle", "put", "finish", "undo"}
           \/ pc' = pc /\ job' = job /\ backup' = backup
    PROVE  LoadsInv'
  <1>1. AlwaysLoads'
    BY DEF LoadsInv, AlwaysLoads
  <1>2. job' = job => (SchemaAccepts(job'.mem) <=> SchemaAccepts(job.mem))
    OBVIOUS
  <1> QED
    BY <1>1, <1>2 DEF LoadsInv

\* A command starts by reading.
LEMMA StartKeeps ==
    ASSUME NEW j, NEW S, LoadsInv, Start(j, S)
    PROVE  LoadsInv'
  <1>1. Current' = Current /\ pc' = "put"
    BY DEF Start, Current
  <1> QED
    BY <1>1, CurrentKeeps

\* Most of them read the YAML first (loadRawConfig).
LEMMA StartLoadedKeeps ==
    ASSUME NEW j, NEW S, LoadsInv, StartLoaded(j, S)
    PROVE  LoadsInv'
  BY StartKeeps DEF StartLoaded

\* Every command, by the way it starts.
LEMMA CommandKeeps ==
    ASSUME LoadsInv, Command
    PROVE  LoadsInv'
  <1>1. CASE ProviderAddCommand
    BY <1>1, StartLoadedKeeps DEF ProviderAddCommand, applyAddProvider
  <1>2. CASE ProviderRemoveCommand
    BY <1>2, StartLoadedKeeps DEF ProviderRemoveCommand, applyRemoveProvider
  <1>3. CASE ProviderEditCommand
    BY <1>3, StartLoadedKeeps
    DEF ProviderEditCommand, applyEditProvider, RotateApiKey
  <1>4. CASE ModelAddCommand
    BY <1>4, StartLoadedKeeps DEF ModelAddCommand, applyAddModel
  <1>5. CASE ModelEditCommand
    BY <1>5, StartLoadedKeeps DEF ModelEditCommand, applyEditModel
  <1>6. CASE ModelRemoveCommand
    BY <1>6, StartLoadedKeeps DEF ModelRemoveCommand, applyRemoveModel
  <1>7. CASE ClientAddCommand
    BY <1>7, StartLoadedKeeps DEF ClientAddCommand, applyAddClient
  <1>8. CASE ClientRemoveCommand
    BY <1>8, StartLoadedKeeps DEF ClientRemoveCommand, applyRemoveClient
  <1>9. CASE ClientEditCommand
    BY <1>9, StartLoadedKeeps DEF ClientEditCommand, applyEditClient
  <1>10. CASE KeyGenerateCommand
    BY <1>10, StartKeeps DEF KeyGenerateCommand
  <1> QED
    BY <1>1, <1>2, <1>3, <1>4, <1>5, <1>6, <1>7, <1>8, <1>9, <1>10 DEF Command

\* The steps of a running command; the writes of the YAML are those of
\* persistConfig, in its order: check, copy, truncate, write.
LEMMA FileStepKeeps ==
    ASSUME LoadsInv, FileStep
    PROVE  LoadsInv'
  <1>1. CASE PutVar \/ FinishVar \/ UndoVar
    <2>1. Current' = Current /\ pc' = pc /\ job' = job /\ backup' = backup
      BY <1>1 DEF PutVar, FinishVar, UndoVar, Current
    <2> QED
      BY <2>1, CurrentKeeps
  <1>2. CASE EnvWritten \/ Finish \/ Rethrow
    <2>1. Current' = Current /\ pc' = "idle"
      BY <1>2, CopyKept DEF EnvWritten, Finish, Rethrow, Ended
    <2> QED
      BY <2>1, CurrentKeeps
  <1>3. CASE PersistThrows \/ WriteFails
    <2>1. Current' = Current /\ pc' \in {"put", "undo"}
      BY <1>3, CopyKept DEF PersistThrows, WriteFails, Caught
    <2> QED
      BY <2>1, CurrentKeeps
  <1>4. CASE BackupFile
    <2>1. SchemaAccepts(job.mem)
      BY <1>4 DEF BackupFile, PersistAccepts
    <2>2. /\ yaml' = yaml /\ backup' = Current /\ pc' = "write" /\ job' = job
      BY <1>4 DEF BackupFile, Current
    <2>3. Current' = Current
      BY <2>2 DEF Current
    <2>4. AlwaysLoads'
      BY <2>3 DEF LoadsInv, AlwaysLoads
    <2> QED
      BY <2>1, <2>2, <2>3, <2>4 DEF LoadsInv
  <1>5. CASE TruncateYaml
    <2>1. Current = backup /\ SchemaAccepts(job.mem)
      BY <1>5 DEF TruncateYaml, LoadsInv
    <2>2. /\ yaml' = Truncated /\ backup' = backup /\ pc' = "writing"
          /\ job' = job
      BY <1>5 DEF TruncateYaml
    <2>3. Current' = backup
      BY <2>2 DEF Current, Truncated
    <2>4. AlwaysLoads'
      BY <2>1, <2>3 DEF LoadsInv, AlwaysLoads
    <2> QED
      BY <2>1, <2>2, <2>3, <2>4 DEF LoadsInv
  <1>6. CASE WriteYaml
    <2>1. SchemaAccepts(job.mem)
      BY <1>6 DEF WriteYaml, LoadsInv
    <2>2. yaml' = job.mem /\ pc' = "finish"
      BY <1>6 DEF WriteYaml
    <2>3. SchemaAccepts(yaml')
      BY <2>1, <2>2
    <2>4. AlwaysLoads'
      BY <2>3, TruncatedIsRefused DEF AlwaysLoads, Current
    <2> QED
      BY <2>2, <2>4 DEF LoadsInv
  <1> QED
    BY <1>1, <1>2, <1>3, <1>4, <1>5, <1>6 DEF FileStep

\* The end of a process keeps the copy exactly when the file is truncated, and the
\* operator restores exactly that.
LEMMA OutsideKeeps ==
    ASSUME LoadsInv, Crash \/ Operator
    PROVE  LoadsInv'
  <1>1. CASE Crash
    <2>1. Current' = Current /\ pc' = "idle"
      BY <1>1, CopyKept DEF Crash, Ended
    <2> QED
      BY <2>1, CurrentKeeps
  <1>2. CASE PasteSecret
    <2>1. Current' = Current /\ pc' = pc /\ job' = job /\ backup' = backup
      BY <1>2 DEF PasteSecret, Current
    <2> QED
      BY <2>1, CurrentKeeps
  <1>3. CASE RestoreBackup
    <2>1. Current' = Current /\ pc' = "idle"
      BY <1>3 DEF RestoreBackup, Current
    <2> QED
      BY <2>1, CurrentKeeps
  <1> QED
    BY <1>1, <1>2, <1>3 DEF Operator

\* Every step keeps a configuration that loads.
LEMMA NextLoads == LoadsInv /\ [Next]_vars => LoadsInv'
  <1>1. ASSUME LoadsInv, UNCHANGED vars PROVE LoadsInv'
    <2>1. Current' = Current /\ pc' = pc /\ job' = job /\ backup' = backup
      BY <1>1 DEF vars, Current
    <2> QED
      BY <1>1, <2>1, CurrentKeeps
  <1> QED
    BY <1>1, CommandKeeps, FileStepKeeps, OutsideKeeps DEF Next

\* The operator starts from one.
LEMMA InitLoads == Init => LoadsInv
  BY LoadingIsCurrent DEF Init, LoadsInv, AlwaysLoads

\* Whatever commands run, fail or die, the YAML or the backup of a write that was
\* cut short passes the schema, for any sets of ids and any derivation of the
\* names of variables (persistConfig, backupFile, writeYaml).
THEOREM ConfigurationSurvives == Spec => []AlwaysLoads
  <1>1. LoadsInv => AlwaysLoads
    BY DEF LoadsInv
  <1> QED
    BY <1>1, InitLoads, NextLoads, PTL DEF Spec

-----------------------------------------------------------------------------
\* What a command may plan, and what the files look like while it carries it out

KeyRefs == {GatewayKeyRef[k] : k \in Clients}
Needs(c) == SecretsOf(c) \cup ClientKeysOf(c)

\* The variable an enabled instance cannot do without.
SecretRef(c, p) == IF c.providers[p].type = "openai" THEN BaseUrlRef[p] ELSE ApiKeyRef[p]

\* Active models are given up only by a provider command the operator confirmed.
LightsStayOn(j, c) ==
    ActiveModels(c) # {} =>
        \/ Enabled(j.mem) # {}
        \/ j.confirm /\ j.op \in {"provider:edit", "provider:remove"}

\* puts touch no variable of a row there is, and bring what the new rows need; what is
\* deleted afterwards no remaining row needs: of the variables no two ids derive. A
\* command that is checked in full brings the secrets themselves, shared or not.
FitsTheFiles(j, newPrompts) ==
    /\ \A r \in DOMAIN j.puts \cap Unshared : r \in KeyRefs => j.puts[r] = "value"
    /\ j.mode # "envOnly" =>
          /\ DOMAIN j.puts \cap Needs(yaml) \cap Unshared = {}
          /\ SecretsOf(j.mem) \subseteq SecretsOf(yaml) \cup DOMAIN j.puts
          /\ ClientKeysOf(j.mem) \subseteq ClientKeysOf(yaml) \cup DOMAIN j.puts
          /\ DOMAIN j.mem.models \subseteq DOMAIN yaml.models \cup newPrompts
          /\ j.drops \cap Needs(j.mem) \cap Unshared = {}
          /\ j.clears \cap KeyRefs \cap Unshared = {}
          /\ j.forget \cap DOMAIN j.mem.models = {}
    /\ j.mode = "full" /\ SchemaAccepts(j.mem) =>
          \A p \in Enabled(j.mem) :
              SecretRef(j.mem, p) \in DOMAIN j.puts => j.puts[SecretRef(j.mem, p)] = "value"

Planned(j, newPrompts) ==
    /\ j \in Job /\ newPrompts \subseteq Aliases
    /\ j.mode # "envOnly" => SchemaAccepts(yaml) /\ LightsStayOn(j, yaml)
    /\ FitsTheFiles(j, newPrompts)

\* The command writes the YAML and has not yet done so.
Editing == pc \in {"put", "write", "writing"} /\ job.mode # "envOnly"

\* A command replaces the file it has read, and by what its consent covers.
PlanInv ==
    /\ TypeOK
    /\ LoadsInv
    /\ pc \in {"undo", "write", "writing", "finish"} => job.mode # "envOnly"
    /\ pc = "finish" => SchemaAccepts(yaml)
    /\ pc \in {"put", "undo"} => left \subseteq DOMAIN job.puts
    /\ pc \in {"write", "writing"} => left = {}
    /\ pc \in {"put", "write", "writing", "undo"} /\ job.mode # "envOnly" =>
          Current = before.yaml
    /\ Editing => LightsStayOn(job, before.yaml)

\* The rows that are saved, and those about to be, have what they refer to; a command
\* has changed no variable but those it was to set, or has deleted them again.
NeedsInv ==
    /\ RowsKeepTheirNeeds
    /\ pc \in {"put", "write", "writing"} =>
          \A r \in DOMAIN job.puts \cap Unshared : r \in KeyRefs => job.puts[r] = "value"
    /\ pc \in {"put", "write", "writing", "undo"} /\ job.mode # "envOnly" =>
          /\ DOMAIN job.puts \cap Needs(before.yaml) \cap Unshared = {}
          /\ \A r \in Refs \ DOMAIN job.puts : env[r] = before.env[r]
    /\ pc = "undo" => \A r \in DOMAIN job.puts \ left : env[r] = "absent"
    /\ Editing =>
          /\ \A r \in (SecretsOf(job.mem) \cap Unshared) \ left : env[r] # "absent"
          /\ \A r \in (ClientKeysOf(job.mem) \cap Unshared) \ left : env[r] = "value"
          /\ DOMAIN job.mem.models \subseteq prompts
          /\ job.drops \cap Needs(job.mem) \cap Unshared = {}
          /\ job.clears \cap KeyRefs \cap Unshared = {}
          /\ job.forget \cap DOMAIN job.mem.models = {}
    /\ pc = "finish" =>
          /\ left \subseteq job.drops \cup job.clears
          /\ job.drops \cap Needs(yaml) \cap Unshared = {}
          /\ job.clears \cap KeyRefs \cap Unshared = {}
          /\ job.forget \cap DOMAIN yaml.models = {}

\* process.env of a command that will check it is .env but for what the command wrote
\* itself, and that it wrote as the rows need it.
SecretsInv ==
    /\ Editing =>
          /\ job.mode = "full" =>
                /\ SchemaAccepts(job.mem) =>
                      \A p \in Enabled(job.mem) :
                          SecretRef(job.mem, p) \in DOMAIN job.puts =>
                              job.puts[SecretRef(job.mem, p)] = "value"
                /\ pc = "put" => \A r \in Refs \ DOMAIN job.puts : penv[r] = env[r]
          /\ \A r \in DOMAIN job.puts \ left : env[r] = job.puts[r]
    /\ pc \in {"write", "writing"} /\ job.mode = "full" => EffectiveAccepts(job.mem, env, FALSE)

-----------------------------------------------------------------------------
\* Configurations and jobs as records

ProviderSection(f) == DOMAIN f \subseteq Providers /\ f \in [DOMAIN f -> ProviderRow]
ModelSection(f) == DOMAIN f \subseteq Aliases /\ f \in [DOMAIN f -> ModelRow]

\* A configuration by its three sections.
LEMMA ConfigShape ==
    ASSUME NEW c \in GatewayConfig
    PROVE  /\ c = [providers |-> c.providers, models |-> c.models, clients |-> c.clients]
           /\ ProviderSection(c.providers) /\ DOMAIN c.providers \subseteq Providers
           /\ ModelSection(c.models) /\ DOMAIN c.models \subseteq Aliases
           /\ c.clients \subseteq Clients
  BY DEF GatewayConfig, ProviderSection, ModelSection

\* Three sections make a configuration.
LEMMA ConfigBuilt ==
    ASSUME NEW ps, ProviderSection(ps), NEW ms, ModelSection(ms), NEW cl \in SUBSET Clients
    PROVE  [providers |-> ps, models |-> ms, clients |-> cl] \in GatewayConfig
  BY DEF GatewayConfig, ProviderSection, ModelSection

\* A command's changes to the sections of the configuration it has read.
LEMMA RowAdded ==
    ASSUME NEW f, ProviderSection(f), NEW p \in Providers, NEW row \in ProviderRow
    PROVE  ProviderSection(With(f, {p}, row))
  BY DEF ProviderSection, With

\* Rows of providers may go.
LEMMA RowRemoved ==
    ASSUME NEW f, ProviderSection(f), NEW S
    PROVE  ProviderSection(Without(f, S))
  BY DEF ProviderSection, Without

\* Models may be added under any aliases.
LEMMA ModelsAdded ==
    ASSUME NEW f, ModelSection(f), NEW S, S \subseteq Aliases, NEW row \in ModelRow
    PROVE  ModelSection(With(f, S, row))
  BY DEF ModelSection, With

\* Models may go.
LEMMA ModelsRemoved ==
    ASSUME NEW f, ModelSection(f), NEW S
    PROVE  ModelSection(Without(f, S))
  BY DEF ModelSection, Without

\* A truncated file has the shape of a configuration without rows.
LEMMA TruncatedType == Truncated \in GatewayConfig
<1>1. ProviderSection([p \in {} |-> 0]) /\ ModelSection([a \in {} |-> 0])
  BY DEF ProviderSection, ModelSection
<1> QED
  BY <1>1, ConfigBuilt DEF Truncated

\* The jobs of the commands, field by field.
Puts == UNION {[S -> {"empty", "value"}] : S \in SUBSET Refs}

\* A command that sets no variable.
LEMMA NoPutsType == DOMAIN NoPuts = {} /\ NoPuts \in Puts
<1>1. NoPuts \in [{} -> {"empty", "value"}] /\ {} \in SUBSET Refs
  BY DEF NoPuts
<1> QED
  BY <1>1 DEF Puts

JobFields(j, op, mem, mode, retry, confirm, puts, drops, clears, forget) ==
    /\ j.op = op /\ j.mem = mem /\ j.mode = mode /\ (j.retry <=> retry) /\ (j.confirm <=> confirm)
    /\ j.puts = puts /\ j.drops = drops /\ j.clears = clears /\ j.forget = forget

\* No command is running.
LEMMA NoJobType == NoJob \in Job
<1>1. NoPuts \in UNION {[S -> {"empty", "value"}] : S \in SUBSET Refs}
  BY NoPutsType DEF Puts
<1> QED
  BY <1>1, TruncatedType DEF NoJob, Job

\* A command that changes the YAML only.
LEMMA PlainJob ==
    ASSUME NEW op \in {"none", "provider:add", "provider:remove", "provider:edit",
                       "model:add", "model:edit", "model:remove", "client:add",
                       "client:edit", "client:remove", "key"},
           NEW mem \in GatewayConfig, NEW mode \in {"full", "soft", "skip", "envOnly"}
    PROVE  /\ JobOf(op, mem, mode) \in Job
           /\ JobFields(JobOf(op, mem, mode), op, mem, mode, FALSE, FALSE, NoPuts, {}, {}, {})
<1>1. JobOf(op, mem, mode) \in Job
  BY NoJobType, Zenon DEF JobOf, Job
<1>2. JobFields(JobOf(op, mem, mode), op, mem, mode, FALSE, FALSE, NoPuts, {}, {}, {})
  BY DEF JobOf, NoJob, JobFields
<1> QED
  BY <1>1, <1>2

\* A command that sets variables first.
LEMMA JobWithPuts ==
    ASSUME NEW j \in Job, NEW op, NEW mem, NEW mode,
           JobFields(j, op, mem, mode, FALSE, FALSE, NoPuts, {}, {}, {}),
           NEW puts \in Puts
    PROVE  LET k == [j EXCEPT !.puts = puts]
           IN  k \in Job /\ JobFields(k, op, mem, mode, FALSE, FALSE, puts, {}, {}, {})
<1>1. [j EXCEPT !.puts = puts] \in Job
  BY Zenon DEF Job, Puts
<1>2. JobFields([j EXCEPT !.puts = puts], op, mem, mode, FALSE, FALSE, puts, {}, {}, {})
  BY DEF JobFields, Job
<1> QED
  BY <1>1, <1>2

\* A command the operator has confirmed, or not.
LEMMA JobConfirmed ==
    ASSUME NEW j \in Job, NEW op, NEW mem, NEW mode,
           JobFields(j, op, mem, mode, FALSE, FALSE, NoPuts, {}, {}, {}),
           NEW confirm \in BOOLEAN
    PROVE  LET k == [j EXCEPT !.confirm = confirm]
           IN  k \in Job /\ JobFields(k, op, mem, mode, FALSE, confirm, NoPuts, {}, {}, {})
<1>1. [j EXCEPT !.confirm = confirm] \in Job
  BY Zenon DEF Job
<1>2. JobFields([j EXCEPT !.confirm = confirm], op, mem, mode, FALSE, confirm, NoPuts, {}, {}, {})
  BY DEF JobFields, Job
<1> QED
  BY <1>1, <1>2

\* A command that may be retried and drops variables in the end.
LEMMA JobWithRetry ==
    ASSUME NEW j \in Job, NEW op, NEW mem, NEW mode,
           JobFields(j, op, mem, mode, FALSE, FALSE, NoPuts, {}, {}, {}),
           NEW confirm \in BOOLEAN, NEW retry \in BOOLEAN, NEW drops \in SUBSET Refs
    PROVE  LET k == [j EXCEPT !.confirm = confirm, !.retry = retry, !.drops = drops]
           IN  k \in Job /\ JobFields(k, op, mem, mode, retry, confirm, NoPuts, drops, {}, {})
<1>1. [j EXCEPT !.confirm = confirm, !.retry = retry, !.drops = drops] \in Job
  BY Zenon DEF Job
<1>2. JobFields([j EXCEPT !.confirm = confirm, !.retry = retry, !.drops = drops], op, mem, mode, retry, confirm, NoPuts, drops, {}, {})
  BY DEF JobFields, Job
<1> QED
  BY <1>1, <1>2

\* A command that empties variables in the end.
LEMMA JobWithClears ==
    ASSUME NEW j \in Job, NEW op, NEW mem, NEW mode,
           JobFields(j, op, mem, mode, FALSE, FALSE, NoPuts, {}, {}, {}),
           NEW confirm \in BOOLEAN, NEW clears \in SUBSET Refs
    PROVE  LET k == [j EXCEPT !.confirm = confirm, !.clears = clears]
           IN  k \in Job /\ JobFields(k, op, mem, mode, FALSE, confirm, NoPuts, {}, clears, {})
<1>1. [j EXCEPT !.confirm = confirm, !.clears = clears] \in Job
  BY Zenon DEF Job
<1>2. JobFields([j EXCEPT !.confirm = confirm, !.clears = clears], op, mem, mode, FALSE, confirm, NoPuts, {}, clears, {})
  BY DEF JobFields, Job
<1> QED
  BY <1>1, <1>2

\* A command that deletes prompts in the end.
LEMMA JobWithForget ==
    ASSUME NEW j \in Job, NEW op, NEW mem, NEW mode,
           JobFields(j, op, mem, mode, FALSE, FALSE, NoPuts, {}, {}, {}),
           NEW confirm \in BOOLEAN, NEW forget \in SUBSET Aliases
    PROVE  LET k == [j EXCEPT !.confirm = confirm, !.forget = forget]
           IN  k \in Job /\ JobFields(k, op, mem, mode, FALSE, confirm, NoPuts, {}, {}, forget)
<1>1. [j EXCEPT !.confirm = confirm, !.forget = forget] \in Job
  BY Zenon DEF Job
<1>2. JobFields([j EXCEPT !.confirm = confirm, !.forget = forget], op, mem, mode, FALSE, confirm, NoPuts, {}, {}, forget)
  BY DEF JobFields, Job
<1> QED
  BY <1>1, <1>2

\* A command that drops variables in the end.
LEMMA JobWithDrops ==
    ASSUME NEW j \in Job, NEW op, NEW mem, NEW mode,
           JobFields(j, op, mem, mode, FALSE, FALSE, NoPuts, {}, {}, {}),
           NEW confirm \in BOOLEAN, NEW drops \in SUBSET Refs
    PROVE  LET k == [j EXCEPT !.confirm = confirm, !.drops = drops]
           IN  k \in Job /\ JobFields(k, op, mem, mode, FALSE, confirm, NoPuts, drops, {}, {})
<1>1. [j EXCEPT !.confirm = confirm, !.drops = drops] \in Job
  BY Zenon DEF Job
<1>2. JobFields([j EXCEPT !.confirm = confirm, !.drops = drops], op, mem, mode, FALSE, confirm, NoPuts, drops, {}, {})
  BY DEF JobFields, Job
<1> QED
  BY <1>1, <1>2

-----------------------------------------------------------------------------
\* What the manager of each command plans

\* The variables a configuration refers to, row by row.
LEMMA NeedsByRow ==
    ASSUME NEW c \in GatewayConfig
    PROVE  /\ \A r : r \in SecretsOf(c) <=>
                  \E p \in DOMAIN c.providers : r \in RefsOfProvider(p, c.providers[p].type)
           /\ \A r : r \in ClientKeysOf(c) <=> \E k \in c.clients : r = GatewayKeyRef[k]
           /\ SecretsOf(c) \subseteq Refs /\ ClientKeysOf(c) \subseteq Refs
           /\ ClientKeysOf(c) \subseteq KeyRefs
<1>1. \A r : r \in SecretsOf(c) <=>
          \E p \in DOMAIN c.providers : r \in RefsOfProvider(p, c.providers[p].type)
  BY DEF SecretsOf, RefsOfProvider
<1>2. \A r : r \in ClientKeysOf(c) <=> \E k \in c.clients : r = GatewayKeyRef[k]
  BY DEF ClientKeysOf
<1>3. DOMAIN c.providers \subseteq Providers /\ c.clients \subseteq Clients
  BY ConfigShape
<1>4. SecretsOf(c) \subseteq Refs
  BY <1>3, RefsAssumption DEF SecretsOf
<1>5. ClientKeysOf(c) \subseteq Refs /\ ClientKeysOf(c) \subseteq KeyRefs
  BY <1>3, RefsAssumption DEF ClientKeysOf, KeyRefs
<1> QED
  BY <1>1, <1>2, <1>4, <1>5

\* A variable that is not shared is that of one row.
LEMMA RowsApart ==
    ASSUME NEW r \in Unshared
    PROVE  /\ \A p, q \in Providers : \A t, u :
                  r \in RefsOfProvider(p, t) /\ r \in RefsOfProvider(q, u) => p = q
           /\ \A p \in Providers : \A t : r \in RefsOfProvider(p, t) => r \notin KeyRefs
           /\ \A k, l \in Clients : r = GatewayKeyRef[k] /\ r = GatewayKeyRef[l] => k = l
<1> DEFINE ProvidersOf == {p \in Providers : r \in {ApiKeyRef[p], BaseUrlRef[p]}}
           ClientsOf == {k \in Clients : r = GatewayKeyRef[k]}
<1>1. /\ ProvidersOf = {} \/ ClientsOf = {}
      /\ \A p, q \in ProvidersOf : p = q
      /\ \A k, l \in ClientsOf : k = l
  BY DEF Unshared
<1>2. \A p \in Providers : \A t : r \in RefsOfProvider(p, t) => p \in ProvidersOf
  BY DEF RefsOfProvider
<1>3. r \in KeyRefs => ClientsOf # {}
  BY DEF KeyRefs
<1>4. \A k \in Clients : r = GatewayKeyRef[k] => k \in ClientsOf
  OBVIOUS
<1> HIDE DEF ProvidersOf, ClientsOf
<1> QED
  BY <1>1, <1>2, <1>3, <1>4

\* A provider's variables are variables.
LEMMA ProviderRefs ==
    ASSUME NEW p \in Providers, NEW t
    PROVE  RefsOfProvider(p, t) \subseteq Refs
  BY RefsAssumption DEF RefsOfProvider

\* A job that changes .env before the YAML, and one that leaves .env to the end.
LEMMA QuietPlan ==
    ASSUME NEW j \in Job, NEW S \in SUBSET Aliases, TypeOK,
           j.puts = NoPuts, SchemaAccepts(yaml), LightsStayOn(j, yaml),
           SecretsOf(j.mem) \subseteq SecretsOf(yaml),
           ClientKeysOf(j.mem) \subseteq ClientKeysOf(yaml),
           j.drops \cap Needs(j.mem) \cap Unshared = {},
           j.clears \cap KeyRefs \cap Unshared = {},
           DOMAIN j.mem.models \subseteq DOMAIN yaml.models \cup S,
           j.forget \cap DOMAIN j.mem.models = {}
    PROVE  Planned(j, S)
  BY NoPutsType DEF Planned, FitsTheFiles

\* A command for one variable alone: provider:edit, client:edit and key.
LEMMA EnvPlan ==
    ASSUME NEW op \in {"provider:edit", "client:edit", "key"}, NEW r \in Refs,
           NEW v \in {"empty", "value"}, r \in Unshared \cap KeyRefs => v = "value"
    PROVE  Planned(EnvJob(op, r, v), {})
<1> DEFINE base == JobOf(op, Truncated, "envOnly")
           puts == [x \in {r} |-> v]
           j == EnvJob(op, r, v)
<1>1. base \in Job /\ JobFields(base, op, Truncated, "envOnly", FALSE, FALSE, NoPuts, {}, {}, {})
  BY PlainJob, TruncatedType
<1>2. puts \in Puts
  <2>1. puts \in [{r} -> {"empty", "value"}] /\ {r} \in SUBSET Refs
    OBVIOUS
  <2> QED
    BY <2>1 DEF Puts
<1>3. j \in Job /\ JobFields(j, op, Truncated, "envOnly", FALSE, FALSE, puts, {}, {}, {})
  <2> HIDE DEF puts, base
  <2>1. j = [base EXCEPT !.puts = puts]
    BY DEF EnvJob, base, puts
  <2> HIDE DEF j
  <2> QED
    BY <1>1, <1>2, <2>1, JobWithPuts
<1>4. j.mode = "envOnly" /\ j.puts = puts
  BY <1>3 DEF JobFields
<1> HIDE DEF j
<1>5. FitsTheFiles(j, {})
  BY <1>4 DEF FitsTheFiles
<1>6. Planned(j, {})
  BY <1>3, <1>4, <1>5 DEF Planned
<1> QED
  BY <1>6 DEF j

\* provider:add sets variables no row has, and what the new row needs.
LEMMA AddProviderPlans ==
    ASSUME TypeOK, NEW i \in AddProviderInputs, applyAddProvider(i)
    PROVE  \E j, S : Planned(j, S) /\ Start(j, S)
<1> DEFINE prow == [type |-> i.type, enabled |-> i.enabled]
           mrow == [provider |-> i.id, fallback |-> "none"]
           ps == With(yaml.providers, {i.id}, prow)
           ms == With(yaml.models, i.models, mrow)
           c == [yaml EXCEPT !.providers = ps, !.models = ms]
           mode == IF AwaitsSecrets(i) THEN "soft" ELSE "full"
           refs == RefsOfProvider(i.id, i.type)
           puts == [r \in refs |-> IF r = ApiKeyRef[i.id] THEN i.apiKey ELSE i.baseUrl]
           base == JobOf("provider:add", c, mode)
           j == [base EXCEPT !.puts = puts]
<1>1. /\ i.id \in Providers /\ i.type \in {"native", "openai"} /\ i.enabled \in BOOLEAN
      /\ i.apiKey \in {"empty", "value"} /\ i.baseUrl \in {"empty", "value"} /\ i.models \subseteq Aliases
  BY RefsAssumption DEF AddProviderInputs
<1>2. /\ yaml \in GatewayConfig /\ i.id \notin DOMAIN yaml.providers
      /\ SchemaAccepts(yaml) /\ Start(j, i.models)
  BY DEF TypeOK, applyAddProvider, StartLoaded, ProviderIsNew
<1>4. /\ prow \in ProviderRow /\ mrow \in ModelRow
      /\ ProviderSection(yaml.providers) /\ ModelSection(yaml.models)
  <2>1. prow \in ProviderRow /\ mrow \in ModelRow
    BY <1>1 DEF ProviderRow, ModelRow
  <2> QED
    BY <1>2, <2>1, ConfigShape
<1> HIDE DEF prow, mrow
<1>3. /\ DOMAIN ps = DOMAIN yaml.providers \cup {i.id} /\ ps[i.id] = prow
      /\ \A p \in DOMAIN yaml.providers : ps[p] = yaml.providers[p]
      /\ ProviderSection(ps)
  <2>1. /\ DOMAIN ps = DOMAIN yaml.providers \cup {i.id} /\ ps[i.id] = prow
        /\ \A p \in DOMAIN yaml.providers : ps[p] = yaml.providers[p]
    BY <1>2 DEF With
  <2>2. ProviderSection(ps)
    BY <1>1, <1>4, RowAdded
  <2> QED
    BY <2>1, <2>2
<1>5. ModelSection(ms) /\ DOMAIN ms = DOMAIN yaml.models \cup i.models
  <2>1. DOMAIN ms = DOMAIN yaml.models \cup i.models
    BY DEF With
  <2>2. ModelSection(ms)
    BY <1>1, <1>4, ModelsAdded
  <2> QED
    BY <2>1, <2>2
<1> HIDE DEF ps, ms
<1>6. c = [providers |-> ps, models |-> ms, clients |-> yaml.clients]
  <2>1. c = [[yaml EXCEPT !.providers = ps] EXCEPT !.models = ms]
    OBVIOUS
  <2>2. [yaml EXCEPT !.providers = ps] = [providers |-> ps, models |-> yaml.models, clients |-> yaml.clients]
    BY <1>2, ConfigShape
  <2>3. [[providers |-> ps, models |-> yaml.models, clients |-> yaml.clients] EXCEPT !.models = ms]
            = [providers |-> ps, models |-> ms, clients |-> yaml.clients]
    OBVIOUS
  <2> QED
    BY <2>1, <2>2, <2>3, Zenon
<1>7. c \in GatewayConfig
  BY <1>2, <1>3, <1>5, <1>6, ConfigBuilt, ConfigShape
<1>8. c.providers = ps /\ c.models = ms /\ c.clients = yaml.clients
  BY <1>6
<1> HIDE DEF c
<1>9. refs \subseteq Refs /\ puts \in Puts /\ DOMAIN puts = refs
  <2>1. refs \subseteq Refs
    BY <1>1, ProviderRefs
  <2>2. puts \in [refs -> {"empty", "value"}] /\ DOMAIN puts = refs
    BY <1>1
  <2> QED
    BY <2>1, <2>2 DEF Puts
<1>10. mode \in {"soft", "full"} /\ base \in Job
       /\ JobFields(base, "provider:add", c, mode, FALSE, FALSE, NoPuts, {}, {}, {})
  BY <1>7, PlainJob
<1>11. j \in Job /\ JobFields(j, "provider:add", c, mode, FALSE, FALSE, puts, {}, {}, {})
  <2> HIDE DEF base, puts, mode
  <2> QED
    BY <1>9, <1>10, JobWithPuts
<1>12. Enabled(yaml) \subseteq Enabled(c)
  BY <1>2, <1>3, <1>8 DEF Enabled
<1>13. j.mem = c /\ j.puts = puts /\ j.mode = mode /\ j.drops = {} /\ j.clears = {} /\ j.forget = {}
  BY <1>11 DEF JobFields
<1> HIDE DEF j, base
<1>14. LightsStayOn(j, yaml)
  <2>1. ActiveModels(yaml) # {} => Enabled(yaml) # {}
    BY DEF ActiveModels
  <2> QED
    BY <1>12, <1>13, <2>1 DEF LightsStayOn
<1>15. FitsTheFiles(j, i.models)
  <2>1. refs \cap KeyRefs \cap Unshared = {}
    BY <1>1, RowsApart
  <2>2. refs \cap SecretsOf(yaml) \cap Unshared = {}
    <3>1. \A p \in DOMAIN yaml.providers : p \in Providers /\ p # i.id
      BY <1>2, ConfigShape
    <3>2. \A p \in DOMAIN yaml.providers :
              refs \cap RefsOfProvider(p, yaml.providers[p].type) \cap Unshared = {}
      BY <1>1, <3>1, RowsApart
    <3> QED
      BY <1>2, <3>2, NeedsByRow
  <2>3. SecretsOf(c) \subseteq SecretsOf(yaml) \cup refs
    <3> SUFFICES ASSUME NEW r \in SecretsOf(c) PROVE r \in SecretsOf(yaml) \cup refs
      OBVIOUS
    <3>1. PICK p \in DOMAIN c.providers : r \in RefsOfProvider(p, c.providers[p].type)
      BY <1>7, NeedsByRow
    <3>2. CASE p = i.id
      BY <1>3, <1>8, <3>1, <3>2 DEF prow
    <3>3. CASE p \in DOMAIN yaml.providers
      BY <1>2, <1>3, <1>8, <3>1, <3>3, NeedsByRow
    <3> QED
      BY <1>3, <1>8, <3>2, <3>3
  <2>4. ClientKeysOf(c) = ClientKeysOf(yaml) /\ ClientKeysOf(yaml) \subseteq KeyRefs
    BY <1>2, <1>8, NeedsByRow DEF ClientKeysOf
  <2>5. ASSUME mode = "full", SchemaAccepts(c), NEW p \in Enabled(c), SecretRef(c, p) \in refs
        PROVE  puts[SecretRef(c, p)] = "value"
    <3>1. p \in Providers /\ p \in DOMAIN c.providers /\ i.id \in DOMAIN c.providers
      BY <1>3, <1>7, <1>8, ConfigShape DEF Enabled
    <3>2. ~ AwaitsSecrets(i)
      BY <2>5
    <3>3. CASE c.providers[p].type = "openai"
      <4>1. SecretRef(c, p) = BaseUrlRef[p] /\ BaseUrlRef[p] # ApiKeyRef[i.id]
        BY <1>1, <3>1, <3>3, RefsAssumption DEF SecretRef
      <4>2. i.type = "openai"
        BY <2>5, <4>1 DEF RefsOfProvider
      <4>3. i.baseUrl = "value"
        BY <1>1, <3>2, <4>2 DEF AwaitsSecrets
      <4> QED
        BY <2>5, <4>1, <4>3
    <3>4. CASE c.providers[p].type # "openai"
      <4>1. SecretRef(c, p) = ApiKeyRef[p] /\ ApiKeyRef[p] # BaseUrlRef[i.id]
        BY <1>1, <3>1, <3>4, RefsAssumption DEF SecretRef
      <4>2. ApiKeyRef[p] = ApiKeyRef[i.id]
        BY <2>5, <4>1 DEF RefsOfProvider
      <4>3. p = i.id
        BY <2>5, <3>1, <4>2 DEF SchemaAccepts, UniqueApiKeyRefs
      <4>4. i.type # "openai"
        BY <1>3, <1>8, <3>4, <4>3 DEF prow
      <4>5. i.apiKey = "value"
        BY <1>1, <3>2, <4>4 DEF AwaitsSecrets
      <4> QED
        BY <2>5, <4>1, <4>2, <4>5
    <3> QED
      BY <3>3, <3>4
  <2> HIDE DEF puts, mode, refs
  <2> QED
    BY <1>5, <1>8, <1>9, <1>13, <2>1, <2>2, <2>3, <2>4, <2>5 DEF FitsTheFiles, Needs
<1>16. Planned(j, i.models)
  BY <1>1, <1>2, <1>11, <1>14, <1>15 DEF Planned
<1> QED
  BY <1>2, <1>16

\* Rows that are also in another configuration, with their type, need nothing more there.
LEMMA FewerNeeds ==
    ASSUME NEW c \in GatewayConfig, NEW d \in GatewayConfig,
           \A p \in DOMAIN c.providers :
              p \in DOMAIN d.providers /\ c.providers[p].type = d.providers[p].type
    PROVE  SecretsOf(c) \subseteq SecretsOf(d)
  BY NeedsByRow

\* Fewer clients need fewer keys.
LEMMA FewerClients ==
    ASSUME NEW c \in GatewayConfig, NEW d \in GatewayConfig, c.clients \subseteq d.clients
    PROVE  ClientKeysOf(c) \subseteq ClientKeysOf(d)
  BY NeedsByRow

\* provider:remove drops the variables of the row it removes, after the YAML.
LEMMA RemoveProviderPlans ==
    ASSUME TypeOK, NEW p \in Providers, applyRemoveProvider(p)
    PROVE  \E j, S : Planned(j, S) /\ Start(j, S)
<1> DEFINE ps == Without(yaml.providers, {p})
           ms == Without(yaml.models, ModelsOf(yaml, p))
           c == [yaml EXCEPT !.providers = ps, !.models = ms]
           refs == RefsOfProvider(p, yaml.providers[p].type)
           last == (Enabled(yaml) = {p})
           base == JobOf("provider:remove", c, "full")
           j == [base EXCEPT !.confirm = TRUE, !.retry = last, !.drops = refs]
<1>1. /\ yaml \in GatewayConfig /\ SchemaAccepts(yaml) /\ Start(j, {})
  BY DEF TypeOK, applyRemoveProvider, StartLoaded
<1>2. ProviderSection(ps) /\ ModelSection(ms)
  BY <1>1, ConfigShape, RowRemoved, ModelsRemoved
<1>3. /\ DOMAIN ps = DOMAIN yaml.providers \ {p}
      /\ \A q \in DOMAIN ps : ps[q] = yaml.providers[q]
      /\ DOMAIN ms \subseteq DOMAIN yaml.models
  BY DEF Without
<1> HIDE DEF ps, ms
<1>4. c = [providers |-> ps, models |-> ms, clients |-> yaml.clients]
  <2>1. c = [[yaml EXCEPT !.providers = ps] EXCEPT !.models = ms]
    OBVIOUS
  <2>2. [yaml EXCEPT !.providers = ps] = [providers |-> ps, models |-> yaml.models, clients |-> yaml.clients]
    BY <1>1, ConfigShape
  <2>3. [[providers |-> ps, models |-> yaml.models, clients |-> yaml.clients] EXCEPT !.models = ms]
            = [providers |-> ps, models |-> ms, clients |-> yaml.clients]
    OBVIOUS
  <2> QED
    BY <2>1, <2>2, <2>3, Zenon
<1>5. c \in GatewayConfig /\ c.providers = ps /\ c.models = ms /\ c.clients = yaml.clients
  BY <1>1, <1>2, <1>4, ConfigBuilt, ConfigShape
<1> HIDE DEF c
<1>6. refs \in SUBSET Refs /\ last \in BOOLEAN
  BY ProviderRefs
<1>7. base \in Job /\ JobFields(base, "provider:remove", c, "full", FALSE, FALSE, NoPuts, {}, {}, {})
  BY <1>5, PlainJob
<1>8. j \in Job /\ JobFields(j, "provider:remove", c, "full", last, TRUE, NoPuts, refs, {}, {})
  <2> HIDE DEF base, refs, last
  <2> QED
    BY <1>6, <1>7, JobWithRetry
<1>9. /\ j.mem = c /\ j.puts = NoPuts /\ j.drops = refs /\ j.clears = {} /\ j.forget = {}
      /\ j.confirm /\ j.op = "provider:remove"
  BY <1>8 DEF JobFields
<1> HIDE DEF j, base
<1>10. SecretsOf(c) \subseteq SecretsOf(yaml) /\ ClientKeysOf(c) \subseteq ClientKeysOf(yaml)
  <2>1. \A q \in DOMAIN c.providers :
            q \in DOMAIN yaml.providers /\ c.providers[q].type = yaml.providers[q].type
    BY <1>3, <1>5
  <2> QED
    BY <1>1, <1>5, <2>1, FewerNeeds, FewerClients
<1>11. refs \cap Needs(c) \cap Unshared = {}
  <2>1. refs \cap ClientKeysOf(c) \cap Unshared = {}
    BY <1>5, RowsApart, NeedsByRow
  <2>2. \A q \in DOMAIN c.providers : q \in Providers /\ q # p
    BY <1>3, <1>5, ConfigShape
  <2>3. \A q \in DOMAIN c.providers :
            refs \cap RefsOfProvider(q, c.providers[q].type) \cap Unshared = {}
    BY <2>2, RowsApart
  <2> QED
    BY <1>5, <2>1, <2>3, NeedsByRow DEF Needs
<1>12. LightsStayOn(j, yaml)
  BY <1>9 DEF LightsStayOn
<1>13. Planned(j, {})
  BY <1>1, <1>3, <1>5, <1>8, <1>9, <1>10, <1>11, <1>12, QuietPlan
<1> QED
  BY <1>1, <1>13

\* provider:edit keeps the variables of the row or asks before the gateway goes dark.
LEMMA EditProviderPlans ==
    ASSUME TypeOK, NEW i \in EditProviderInputs, applyEditProvider(i)
    PROVE  \E j, S : Planned(j, S) /\ Start(j, S)
<1> DEFINE dark == ~i.enabled /\ activeAfterDisabling(yaml, i.id) = {}
           row == [yaml.providers[i.id] EXCEPT !.enabled = i.enabled]
           ps == [yaml.providers EXCEPT ![i.id] = row]
           c == [yaml EXCEPT !.providers[i.id].enabled = i.enabled]
           mode == IF dark THEN "skip" ELSE "full"
           clears == IF i.rotateSecret THEN {ApiKeyRef[i.id]} ELSE {}
           base == JobOf("provider:edit", c, mode)
           j == [base EXCEPT !.confirm = i.confirmNonBootable, !.clears = clears]
<1>1. /\ i.id \in Providers /\ i.enabled \in BOOLEAN /\ i.confirmNonBootable \in BOOLEAN
      /\ i.rotateSecret \in BOOLEAN
  BY DEF EditProviderInputs
<1>2. /\ yaml \in GatewayConfig /\ i.id \in DOMAIN yaml.providers
      /\ SchemaAccepts(yaml) /\ Start(j, {}) /\ (dark => i.confirmNonBootable)
  BY DEF TypeOK, applyEditProvider, StartLoaded, Consents
<1>3. ProviderSection(yaml.providers) /\ ModelSection(yaml.models)
  BY <1>2, ConfigShape
<1>4. row \in ProviderRow /\ row.type = yaml.providers[i.id].type /\ row.enabled = i.enabled
  BY <1>1, <1>2, <1>3 DEF ProviderSection, ProviderRow
<1>5. c = [providers |-> ps, models |-> yaml.models, clients |-> yaml.clients]
  <2>1. c = [yaml EXCEPT !.providers = ps]
    OBVIOUS
  <2> QED
    BY <1>2, <2>1, ConfigShape
<1> HIDE DEF row
<1>6. /\ DOMAIN ps = DOMAIN yaml.providers /\ ps[i.id] = row /\ ProviderSection(ps)
      /\ \A q \in DOMAIN yaml.providers : q # i.id => ps[q] = yaml.providers[q]
  BY <1>2, <1>3, <1>4 DEF ProviderSection
<1> HIDE DEF ps
<1>7. c \in GatewayConfig /\ c.providers = ps /\ c.models = yaml.models /\ c.clients = yaml.clients
  BY <1>2, <1>3, <1>5, <1>6, ConfigBuilt, ConfigShape
<1> HIDE DEF c
<1>8. mode \in {"skip", "full"} /\ clears \in SUBSET Refs
  BY <1>1, RefsAssumption
<1>9. base \in Job /\ JobFields(base, "provider:edit", c, mode, FALSE, FALSE, NoPuts, {}, {}, {})
  BY <1>7, <1>8, PlainJob
<1>10. j \in Job /\ JobFields(j, "provider:edit", c, mode, FALSE, i.confirmNonBootable, NoPuts, {}, clears, {})
  <2> HIDE DEF base, mode, clears
  <2> QED
    BY <1>1, <1>8, <1>9, JobWithClears
<1>11. /\ j.mem = c /\ j.puts = NoPuts /\ j.drops = {} /\ j.clears = clears /\ j.forget = {}
       /\ (j.confirm <=> i.confirmNonBootable) /\ j.op = "provider:edit"
  BY <1>10 DEF JobFields
<1> HIDE DEF j, base, mode
<1>12. SecretsOf(c) \subseteq SecretsOf(yaml) /\ ClientKeysOf(c) \subseteq ClientKeysOf(yaml)
  <2>1. \A q \in DOMAIN c.providers :
            q \in DOMAIN yaml.providers /\ c.providers[q].type = yaml.providers[q].type
    BY <1>4, <1>6, <1>7
  <2> QED
    BY <1>2, <1>7, <2>1, FewerNeeds, FewerClients
<1>13. clears \cap KeyRefs \cap Unshared = {}
  <2>1. clears \subseteq RefsOfProvider(i.id, "openai")
    BY DEF RefsOfProvider
  <2> QED
    BY <1>1, <2>1, RowsApart
<1> HIDE DEF clears
<1>14. LightsStayOn(j, yaml)
  <2>1. CASE dark
    BY <1>2, <1>11, <2>1 DEF LightsStayOn
  <2>2. CASE i.enabled
    <3>1. i.id \in Enabled(c)
      BY <1>2, <1>4, <1>6, <1>7, <2>2 DEF Enabled
    <3> QED
      BY <1>11, <3>1 DEF LightsStayOn
  <2>3. CASE ~ i.enabled /\ activeAfterDisabling(yaml, i.id) # {}
    <3>1. PICK a \in ActiveModels(yaml) : yaml.models[a].provider # i.id
      BY <2>3 DEF activeAfterDisabling
    <3>2. yaml.models[a].provider \in Enabled(c)
      BY <1>6, <1>7, <3>1 DEF ActiveModels, Enabled
    <3> QED
      BY <1>11, <3>2 DEF LightsStayOn
  <2> QED
    BY <1>1, <2>1, <2>2, <2>3
<1>15. Needs(c) \cap {} = {} /\ DOMAIN c.models = DOMAIN yaml.models
  BY <1>7
<1>16. Planned(j, {})
  BY <1>2, <1>7, <1>10, <1>11, <1>12, <1>13, <1>14, <1>15, QuietPlan
<1> QED
  BY <1>2, <1>16

\* Commands that change no provider row keep the instances that are enabled, and with
\* them the models, once the schema has accepted the result.
LEMMA SameProviders ==
    ASSUME NEW j, j.mem.providers = yaml.providers
    PROVE  LightsStayOn(j, yaml)
  BY DEF LightsStayOn, ActiveModels, Enabled

\* The models of a configuration are replaced.
LEMMA OtherModels ==
    ASSUME NEW c \in GatewayConfig, NEW ms, ModelSection(ms), NEW d,
           d = [providers |-> c.providers, models |-> ms, clients |-> c.clients]
    PROVE  /\ d \in GatewayConfig /\ d.providers = c.providers /\ d.models = ms /\ d.clients = c.clients
           /\ SecretsOf(d) = SecretsOf(c) /\ ClientKeysOf(d) = ClientKeysOf(c)
<1>1. /\ d \in GatewayConfig /\ d.providers = c.providers /\ d.models = ms /\ d.clients = c.clients
  BY ConfigShape, ConfigBuilt
<1> QED
  BY <1>1 DEF SecretsOf, ClientKeysOf

\* model:add writes a prompt for every new alias.
LEMMA AddModelPlans ==
    ASSUME TypeOK, NEW S \in SUBSET Aliases, NEW p \in Providers, applyAddModel(S, p)
    PROVE  \E j, T : Planned(j, T) /\ Start(j, T)
<1> DEFINE row == [provider |-> p, fallback |-> "none"]
           ms == With(yaml.models, S, row)
           c == [yaml EXCEPT !.models = ms]
           j == JobOf("model:add", c, "full")
<1>1. yaml \in GatewayConfig /\ SchemaAccepts(yaml) /\ Start(j, S)
  BY DEF TypeOK, applyAddModel, StartLoaded
<1>2. row \in ModelRow
  BY DEF ModelRow
<1> HIDE DEF row
<1>3. DOMAIN ms = DOMAIN yaml.models \cup S
  BY DEF With
<1>4. ModelSection(ms)
  BY <1>1, <1>2, ConfigShape, ModelsAdded
<1> HIDE DEF ms
<1>5. c = [providers |-> yaml.providers, models |-> ms, clients |-> yaml.clients]
  BY <1>1, ConfigShape
<1> HIDE DEF c
<1>6. /\ c \in GatewayConfig /\ c.providers = yaml.providers /\ c.models = ms
      /\ SecretsOf(c) = SecretsOf(yaml) /\ ClientKeysOf(c) = ClientKeysOf(yaml)
  BY <1>1, <1>4, <1>5, OtherModels
<1>7. j \in Job /\ JobFields(j, "model:add", c, "full", FALSE, FALSE, NoPuts, {}, {}, {})
  BY <1>6, PlainJob
<1>8. j.mem = c /\ j.puts = NoPuts /\ j.drops = {} /\ j.clears = {} /\ j.forget = {}
  BY <1>7 DEF JobFields
<1> HIDE DEF j
<1>9. LightsStayOn(j, yaml)
  BY <1>6, <1>8, SameProviders
<1>10. Planned(j, S)
  BY <1>1, <1>3, <1>6, <1>7, <1>8, <1>9, QuietPlan
<1> QED
  BY <1>1, <1>10

\* model:edit keeps the prompt of the alias it edits.
LEMMA EditModelPlans ==
    ASSUME TypeOK, NEW i \in EditModelInputs, applyEditModel(i)
    PROVE  \E j, S : Planned(j, S) /\ Start(j, S)
<1> DEFINE cur == yaml.models[i.alias]
           to == TargetInstance(i, cur)
           strands == to # cur.provider /\ isLastModelForEnabledProvider(yaml, i.alias)
           fb == IF i.fallback = "keep" THEN cur.fallback ELSE i.fallback
           row == [provider |-> to, fallback |-> fb]
           ms == [yaml.models EXCEPT ![i.alias] = row]
           c == [yaml EXCEPT !.models[i.alias] = row]
           mode == IF strands THEN "skip" ELSE "full"
           base == JobOf("model:edit", c, mode)
           j == [base EXCEPT !.confirm = i.confirmNonBootable]
<1>1. /\ i.alias \in Aliases /\ i.providerInstance \in Providers \cup {"keep"}
      /\ i.fallback \in Aliases \cup {"none", "keep"} /\ i.confirmNonBootable \in BOOLEAN
  BY DEF EditModelInputs
<1>2. /\ yaml \in GatewayConfig /\ i.alias \in DOMAIN yaml.models
      /\ SchemaAccepts(yaml) /\ Start(j, {})
  BY DEF TypeOK, applyEditModel, StartLoaded
<1>3. ModelSection(yaml.models)
  BY <1>2, ConfigShape
<1>4. row \in ModelRow
  <2>1. cur.provider \in Providers /\ cur.fallback \in Aliases \cup {"none"}
    BY <1>2, <1>3 DEF ModelSection, ModelRow
  <2>2. to \in Providers /\ fb \in Aliases \cup {"none"}
    BY <1>1, <2>1 DEF TargetInstance
  <2> HIDE DEF to, fb
  <2> QED
    BY <2>2 DEF ModelRow
<1> HIDE DEF row
<1>5. ModelSection(ms) /\ DOMAIN ms = DOMAIN yaml.models
  BY <1>2, <1>3, <1>4 DEF ModelSection
<1>6. c = [providers |-> yaml.providers, models |-> ms, clients |-> yaml.clients]
  <2>1. c = [yaml EXCEPT !.models = ms]
    OBVIOUS
  <2> QED
    BY <1>2, <2>1, ConfigShape
<1> HIDE DEF c, ms
<1>7. /\ c \in GatewayConfig /\ c.providers = yaml.providers /\ c.models = ms
      /\ SecretsOf(c) = SecretsOf(yaml) /\ ClientKeysOf(c) = ClientKeysOf(yaml)
  BY <1>2, <1>5, <1>6, OtherModels
<1>8. mode \in {"skip", "full"}
  OBVIOUS
<1> HIDE DEF mode
<1>9. base \in Job /\ JobFields(base, "model:edit", c, mode, FALSE, FALSE, NoPuts, {}, {}, {})
  BY <1>7, <1>8, PlainJob
<1> HIDE DEF base
<1>10. j \in Job /\ JobFields(j, "model:edit", c, mode, FALSE, i.confirmNonBootable, NoPuts, {}, {}, {})
  BY <1>1, <1>9, JobConfirmed
<1>11. j.mem = c /\ j.puts = NoPuts /\ j.drops = {} /\ j.clears = {} /\ j.forget = {}
  BY <1>10 DEF JobFields
<1> HIDE DEF j
<1>12. LightsStayOn(j, yaml)
  BY <1>7, <1>11, SameProviders
<1>13. Planned(j, {})
  BY <1>2, <1>5, <1>7, <1>10, <1>11, <1>12, QuietPlan
<1> QED
  BY <1>2, <1>13

\* model:remove deletes the prompt of the alias it removes, after the YAML.
LEMMA RemoveModelPlans ==
    ASSUME TypeOK, NEW a \in Aliases, applyRemoveModel(a)
    PROVE  \E j, S : Planned(j, S) /\ Start(j, S)
<1> DEFINE ms == Without(yaml.models, {a})
           c == [yaml EXCEPT !.models = ms]
           mode == IF isLastModelInConfig(yaml, a) \/ isLastModelForEnabledProvider(yaml, a)
                     THEN "skip" ELSE "full"
           base == JobOf("model:remove", c, mode)
           j == [base EXCEPT !.confirm = TRUE, !.forget = {a}]
<1>1. yaml \in GatewayConfig /\ SchemaAccepts(yaml) /\ Start(j, {})
  BY DEF TypeOK, applyRemoveModel, StartLoaded
<1>2. DOMAIN ms = DOMAIN yaml.models \ {a}
  BY DEF Without
<1>3. ModelSection(ms)
  BY <1>1, ConfigShape, ModelsRemoved
<1> HIDE DEF ms
<1>4. c = [providers |-> yaml.providers, models |-> ms, clients |-> yaml.clients]
  BY <1>1, ConfigShape
<1> HIDE DEF c
<1>5. /\ c \in GatewayConfig /\ c.providers = yaml.providers /\ c.models = ms
      /\ SecretsOf(c) = SecretsOf(yaml) /\ ClientKeysOf(c) = ClientKeysOf(yaml)
  BY <1>1, <1>3, <1>4, OtherModels
<1>6. mode \in {"skip", "full"}
  OBVIOUS
<1> HIDE DEF mode
<1>7. base \in Job /\ JobFields(base, "model:remove", c, mode, FALSE, FALSE, NoPuts, {}, {}, {})
  BY <1>5, <1>6, PlainJob
<1> HIDE DEF base
<1>8. j \in Job /\ JobFields(j, "model:remove", c, mode, FALSE, TRUE, NoPuts, {}, {}, {a})
  BY <1>7, JobWithForget
<1>9. j.mem = c /\ j.puts = NoPuts /\ j.drops = {} /\ j.clears = {} /\ j.forget = {a}
  BY <1>8 DEF JobFields
<1> HIDE DEF j
<1>10. LightsStayOn(j, yaml)
  BY <1>5, <1>9, SameProviders
<1>11. Planned(j, {})
  BY <1>1, <1>2, <1>5, <1>8, <1>9, <1>10, QuietPlan
<1> QED
  BY <1>1, <1>11

\* client:add sets the new client's key first.
LEMMA AddClientPlans ==
    ASSUME TypeOK, NEW k \in Clients, applyAddClient(k)
    PROVE  \E j, S : Planned(j, S) /\ Start(j, S)
<1> DEFINE cl == yaml.clients \cup {k}
           c == [yaml EXCEPT !.clients = cl]
           r == GatewayKeyRef[k]
           puts == [x \in {r} |-> "value"]
           base == JobOf("client:add", c, "full")
           j == [base EXCEPT !.puts = puts]
<1>1. /\ yaml \in GatewayConfig /\ SchemaAccepts(yaml) /\ Start(j, {}) /\ k \notin yaml.clients
  BY DEF TypeOK, applyAddClient, StartLoaded, ClientIsNew
<1>2. cl \in SUBSET Clients
  BY <1>1, ConfigShape
<1> HIDE DEF cl
<1>3. c = [providers |-> yaml.providers, models |-> yaml.models, clients |-> cl]
  BY <1>1, ConfigShape
<1> HIDE DEF c
<1>4. c \in GatewayConfig /\ c.providers = yaml.providers /\ c.models = yaml.models /\ c.clients = cl
  BY <1>1, <1>2, <1>3, ConfigBuilt, ConfigShape
<1>5. r \in Refs /\ r \in KeyRefs
  BY RefsAssumption DEF KeyRefs
<1>6. puts \in Puts /\ DOMAIN puts = {r} /\ puts[r] = "value"
  <2>1. puts \in [{r} -> {"empty", "value"}] /\ {r} \in SUBSET Refs
    BY <1>5
  <2> QED
    BY <2>1 DEF Puts
<1> HIDE DEF puts, r
<1>7. base \in Job /\ JobFields(base, "client:add", c, "full", FALSE, FALSE, NoPuts, {}, {}, {})
  BY <1>4, PlainJob
<1> HIDE DEF base
<1>8. j \in Job /\ JobFields(j, "client:add", c, "full", FALSE, FALSE, puts, {}, {}, {})
  BY <1>6, <1>7, JobWithPuts
<1>9. /\ j.mem = c /\ j.puts = puts /\ j.mode = "full" /\ j.drops = {} /\ j.clears = {} /\ j.forget = {}
  BY <1>8 DEF JobFields
<1> HIDE DEF j
<1>10. LightsStayOn(j, yaml)
  BY <1>4, <1>9, SameProviders
<1>11. FitsTheFiles(j, {})
  <2>1. SecretsOf(c) = SecretsOf(yaml)
    BY <1>4 DEF SecretsOf
  <2>2. ASSUME r \in Unshared PROVE r \notin SecretsOf(yaml)
    <3>1. \A p \in DOMAIN yaml.providers : p \in Providers
      BY <1>1, ConfigShape
    <3>2. \A p \in DOMAIN yaml.providers : r \notin RefsOfProvider(p, yaml.providers[p].type)
      BY <1>5, <2>2, <3>1, RowsApart
    <3> QED
      BY <1>1, <3>2, NeedsByRow
  <2>3. ASSUME r \in Unshared PROVE r \notin ClientKeysOf(yaml)
    <3>1. \A l \in yaml.clients : l \in Clients /\ l # k
      BY <1>1, ConfigShape
    <3>2. \A l \in yaml.clients : r # GatewayKeyRef[l]
      BY <2>3, <3>1, RowsApart DEF r
    <3> QED
      BY <1>1, <3>2, NeedsByRow
  <2>4. ClientKeysOf(c) \subseteq ClientKeysOf(yaml) \cup {r}
    BY <1>4 DEF ClientKeysOf, r, cl
  <2> QED
    BY <1>4, <1>5, <1>6, <1>9, <2>1, <2>2, <2>3, <2>4 DEF FitsTheFiles, Needs
<1>12. Planned(j, {})
  BY <1>1, <1>8, <1>10, <1>11 DEF Planned
<1> QED
  BY <1>1, <1>12

\* client:remove drops the key of the client it removes, after the YAML.
LEMMA RemoveClientPlans ==
    ASSUME TypeOK, NEW k \in Clients, applyRemoveClient(k)
    PROVE  \E j, S : Planned(j, S) /\ Start(j, S)
<1> DEFINE cl == yaml.clients \ {k}
           c == [yaml EXCEPT !.clients = cl]
           r == GatewayKeyRef[k]
           base == JobOf("client:remove", c, "full")
           j == [base EXCEPT !.confirm = TRUE, !.drops = {r}]
<1>1. /\ yaml \in GatewayConfig /\ SchemaAccepts(yaml) /\ Start(j, {})
  BY DEF TypeOK, applyRemoveClient, StartLoaded
<1>2. cl \in SUBSET Clients
  BY <1>1, ConfigShape
<1> HIDE DEF cl
<1>3. c = [providers |-> yaml.providers, models |-> yaml.models, clients |-> cl]
  BY <1>1, ConfigShape
<1> HIDE DEF c
<1>4. c \in GatewayConfig /\ c.providers = yaml.providers /\ c.models = yaml.models /\ c.clients = cl
  BY <1>1, <1>2, <1>3, ConfigBuilt, ConfigShape
<1>5. r \in Refs /\ r \in KeyRefs
  BY RefsAssumption DEF KeyRefs
<1> HIDE DEF r
<1>6. base \in Job /\ JobFields(base, "client:remove", c, "full", FALSE, FALSE, NoPuts, {}, {}, {})
  BY <1>4, PlainJob
<1> HIDE DEF base
<1>7. j \in Job /\ JobFields(j, "client:remove", c, "full", FALSE, TRUE, NoPuts, {r}, {}, {})
  BY <1>5, <1>6, JobWithDrops
<1>8. /\ j.mem = c /\ j.puts = NoPuts /\ j.drops = {r} /\ j.clears = {} /\ j.forget = {}
  BY <1>7 DEF JobFields
<1> HIDE DEF j
<1>9. LightsStayOn(j, yaml)
  BY <1>4, <1>8, SameProviders
<1>10. SecretsOf(c) = SecretsOf(yaml) /\ ClientKeysOf(c) \subseteq ClientKeysOf(yaml)
  BY <1>4 DEF SecretsOf, ClientKeysOf, cl
<1>11. {r} \cap Needs(c) \cap Unshared = {}
  <2> SUFFICES ASSUME r \in Unshared PROVE r \notin Needs(c)
    OBVIOUS
  <2>1. r \notin SecretsOf(c)
    <3>1. \A p \in DOMAIN c.providers : p \in Providers
      BY <1>4, ConfigShape
    <3>2. \A p \in DOMAIN c.providers : r \notin RefsOfProvider(p, c.providers[p].type)
      BY <1>5, <3>1, RowsApart
    <3> QED
      BY <1>4, <3>2, NeedsByRow
  <2>2. r \notin ClientKeysOf(c)
    <3>1. \A l \in c.clients : l \in Clients /\ l # k
      BY <1>4, ConfigShape DEF cl
    <3>2. \A l \in c.clients : r # GatewayKeyRef[l]
      BY <3>1, RowsApart DEF r
    <3> QED
      BY <1>4, <3>2, NeedsByRow
  <2> QED
    BY <2>1, <2>2 DEF Needs
<1>12. Planned(j, {})
  BY <1>1, <1>4, <1>7, <1>8, <1>9, <1>10, <1>11, QuietPlan
<1> QED
  BY <1>1, <1>12

\* client:edit replaces a key by a key.
LEMMA EditClientPlans ==
    ASSUME TypeOK, NEW k \in Clients, NEW rotateKey \in BOOLEAN, applyEditClient(k, rotateKey)
    PROVE  \E j, S : Planned(j, S) /\ Start(j, S)
<1>1. CASE rotateKey
  <2>1. Start(EnvJob("client:edit", GatewayKeyRef[k], "value"), {})
    BY <1>1 DEF applyEditClient, StartLoaded
  <2>2. Planned(EnvJob("client:edit", GatewayKeyRef[k], "value"), {})
    BY EnvPlan, RefsAssumption
  <2> QED
    BY <2>1, <2>2
<1>2. CASE ~ rotateKey
  <2> DEFINE j == JobOf("client:edit", yaml, "full")
  <2>1. yaml \in GatewayConfig /\ SchemaAccepts(yaml) /\ Start(j, {})
    BY <1>2 DEF TypeOK, applyEditClient, StartLoaded
  <2>2. j \in Job /\ JobFields(j, "client:edit", yaml, "full", FALSE, FALSE, NoPuts, {}, {}, {})
    BY <2>1, PlainJob
  <2>3. j.mem = yaml /\ j.puts = NoPuts /\ j.drops = {} /\ j.clears = {} /\ j.forget = {}
    BY <2>2 DEF JobFields
  <2> HIDE DEF j
  <2>4. LightsStayOn(j, yaml)
    BY <2>3, SameProviders
  <2>5. Planned(j, {})
    BY <2>1, <2>2, <2>3, <2>4, QuietPlan
  <2> QED
    BY <2>1, <2>5
<1> QED
  BY <1>1, <1>2

\* Every command of the CLI starts with a plan that fits the files it finds.
LEMMA CommandPlans ==
    ASSUME TypeOK, Command
    PROVE  \E j, S : Planned(j, S) /\ Start(j, S)
<1>1. CASE ProviderAddCommand
  BY <1>1, AddProviderPlans DEF ProviderAddCommand
<1>2. CASE ProviderRemoveCommand
  BY <1>2, RemoveProviderPlans DEF ProviderRemoveCommand
<1>3. CASE ProviderEditCommand
  <2>1. ASSUME NEW i \in EditProviderInputs, applyEditProvider(i)
        PROVE  \E j, S : Planned(j, S) /\ Start(j, S)
    BY <2>1, EditProviderPlans
  <2>2. ASSUME NEW p \in Providers, NEW v \in {"empty", "value"}, RotateApiKey(p, v)
        PROVE  \E j, S : Planned(j, S) /\ Start(j, S)
    <3>1. Start(EnvJob("provider:edit", ApiKeyRef[p], v), {})
      BY <2>2 DEF RotateApiKey, StartLoaded
    <3>2. ApiKeyRef[p] \in Refs /\ ApiKeyRef[p] \notin Unshared \cap KeyRefs
      BY RefsAssumption, RowsApart DEF RefsOfProvider
    <3>3. Planned(EnvJob("provider:edit", ApiKeyRef[p], v), {})
      BY <3>2, EnvPlan
    <3> QED
      BY <3>1, <3>3
  <2> QED
    BY <1>3, <2>1, <2>2 DEF ProviderEditCommand
<1>4. CASE ModelAddCommand
  BY <1>4, AddModelPlans DEF ModelAddCommand
<1>5. CASE ModelEditCommand
  BY <1>5, EditModelPlans DEF ModelEditCommand
<1>6. CASE ModelRemoveCommand
  BY <1>6, RemoveModelPlans DEF ModelRemoveCommand
<1>7. CASE ClientAddCommand
  BY <1>7, AddClientPlans DEF ClientAddCommand
<1>8. CASE ClientRemoveCommand
  BY <1>8, RemoveClientPlans DEF ClientRemoveCommand
<1>9. CASE ClientEditCommand
  BY <1>9, EditClientPlans DEF ClientEditCommand
<1>10. CASE KeyGenerateCommand
  <2>1. PICK k \in Clients : Start(EnvJob("key", GatewayKeyRef[k], "value"), {})
    BY <1>10 DEF KeyGenerateCommand
  <2>2. Planned(EnvJob("key", GatewayKeyRef[k], "value"), {})
    BY EnvPlan, RefsAssumption
  <2> QED
    BY <2>1, <2>2
<1> QED
  BY <1>1, <1>2, <1>3, <1>4, <1>5, <1>6, <1>7, <1>8, <1>9, <1>10 DEF Command

-----------------------------------------------------------------------------
\* The plan is carried out

\* The parts of a command in progress.
LEMMA JobPuts ==
    ASSUME NEW j \in Job
    PROVE  /\ DOMAIN j.puts \subseteq Refs
           /\ \A r \in DOMAIN j.puts : j.puts[r] \in {"empty", "value"}
           /\ j.mem \in GatewayConfig /\ j.drops \subseteq Refs /\ j.clears \subseteq Refs
           /\ j.mode \in {"full", "soft", "skip", "envOnly"}
  BY DEF Job

\* A process that ends leaves no state of its own behind.
LEMMA EndedTypes ==
    ASSUME TypeOK, Ended, env' \in [Refs -> Values], prompts' \subseteq Aliases
    PROVE  TypeOK'
<1>1. penv' \in [Refs -> Values]
  BY DEF Ended, Values
<1>2. before' \in [yaml : GatewayConfig, env : [Refs -> Values]]
  BY <1>1, TruncatedType DEF Ended
<1>3. yaml' \in GatewayConfig /\ backup' \in GatewayConfig
  BY TruncatedType DEF Ended, CopyOfTruncated, TypeOK
<1> QED
  BY <1>1, <1>2, <1>3, NoJobType DEF Ended, TypeOK

\* Every step keeps the types.
LEMMA TypesKept ==
    ASSUME PlanInv, [Next]_vars
    PROVE  TypeOK'
<1>0. TypeOK
  BY DEF PlanInv
<1>1. CASE Command
  <2>1. PICK j, S : Planned(j, S) /\ Start(j, S)
    BY <1>0, <1>1, CommandPlans
  <2>2. j \in Job /\ S \subseteq Aliases /\ DOMAIN j.puts \subseteq Refs
    BY <2>1, JobPuts DEF Planned
  <2> QED
    BY <1>0, <2>1, <2>2 DEF Start, TypeOK
<1>2. CASE PutVar
  <2>1. PICK r \in left : pc = "put" /\ env' = [env EXCEPT ![r] = job.puts[r]] /\ left' = left \ {r}
                           /\ UNCHANGED <<yaml, prompts, backup, pc, job, penv, before>>
    BY <1>2 DEF PutVar, SetVar
  <2>2. job.puts[r] \in Values
    BY <1>0, <2>1, JobPuts DEF PlanInv, TypeOK, Values
  <2>3. env' \in [Refs -> Values]
    BY <1>0, <2>1, <2>2 DEF TypeOK
  <2> QED
    BY <1>0, <2>1, <2>3 DEF TypeOK
<1>3. CASE UndoVar
  BY <1>0, <1>3 DEF UndoVar, SetVar, TypeOK, Values
<1>4. CASE FinishVar
  BY <1>0, <1>4 DEF FinishVar, SetVar, TypeOK, Values
<1>5. CASE EnvWritten \/ Finish \/ Rethrow
  BY <1>0, <1>5, EndedTypes DEF EnvWritten, Finish, Rethrow, TypeOK
<1>6. CASE Crash
  BY <1>0, <1>6, EndedTypes DEF Crash, TypeOK
<1>7. CASE BackupFile \/ PersistThrows \/ WriteFails
  <2>1. penv' \in [Refs -> Values]
    BY <1>0, <1>7 DEF BackupFile, PersistThrows, WriteFails, ReadsEnv, DotenvLoad, TypeOK
  <2>2. job' \in Job
    <3>1. [job EXCEPT !.mode = "skip", !.retry = FALSE] \in Job
      BY <1>0, Zenon DEF TypeOK, Job
    <3> QED
      BY <1>0, <1>7, <3>1 DEF BackupFile, PersistThrows, WriteFails, Caught, TypeOK
  <2>3. left' \subseteq Refs
    BY <1>0, <1>7, JobPuts DEF BackupFile, PersistThrows, WriteFails, Caught, TypeOK
  <2>4. /\ UNCHANGED <<yaml, env, prompts, before>> /\ backup' \in GatewayConfig
        /\ pc' \in {"put", "write", "undo"}
    BY <1>0, <1>7, TruncatedType
    DEF BackupFile, PersistThrows, WriteFails, Caught, CopyOfTruncated, TypeOK
  <2> QED
    BY <1>0, <2>1, <2>2, <2>3, <2>4 DEF TypeOK
<1>8. CASE TruncateYaml
  BY <1>0, <1>8, TruncatedType DEF TruncateYaml, TypeOK
<1>9. CASE WriteYaml
  BY <1>0, <1>9, TruncatedType, JobPuts DEF WriteYaml, TypeOK
<1>10. CASE PasteSecret
  BY <1>0, <1>10 DEF PasteSecret, SetVar, TypeOK, Values
<1>11. CASE RestoreBackup
  BY <1>0, <1>11, TruncatedType DEF RestoreBackup, TypeOK
<1>12. CASE UNCHANGED vars
  BY <1>0, <1>12 DEF vars, TypeOK
<1> QED
  BY <1>1, <1>2, <1>3, <1>4, <1>5, <1>6, <1>7, <1>8, <1>9, <1>10, <1>11, <1>12
  DEF Next, FileStep, Operator

\* No command runs at first.
LEMMA InitPlanInv == Init => PlanInv
<1> SUFFICES ASSUME Init PROVE PlanInv
  OBVIOUS
<1>1. penv \in [Refs -> Values]
  BY DEF Init, Values
<1>2. before \in [yaml : GatewayConfig, env : [Refs -> Values]]
  BY <1>1, TruncatedType DEF Init
<1>3. prompts \subseteq Aliases
  BY ConfigShape DEF Init
<1>4. TypeOK
  BY <1>1, <1>2, <1>3, TruncatedType, NoJobType DEF Init, TypeOK
<1> QED
  BY <1>4, InitLoads DEF Init, PlanInv, Editing

\* Every step carries out what was planned on the file that was read.
LEMMA NextPlanInv == PlanInv /\ [Next]_vars => PlanInv'
<1> SUFFICES ASSUME PlanInv, [Next]_vars PROVE PlanInv'
  OBVIOUS
<1>0. TypeOK' /\ LoadsInv' /\ TypeOK /\ LoadsInv
  BY TypesKept, NextLoads DEF PlanInv
<1>1. CASE Command
  <2>1. PICK j, S : Planned(j, S) /\ Start(j, S)
    BY <1>0, <1>1, CommandPlans
  <2>2. /\ pc' = "put" /\ job' = j /\ left' = DOMAIN j.puts /\ before'.yaml = yaml
        /\ Current' = Current
    BY <2>1 DEF Start, Current
  <2>3. j.mode # "envOnly" => LightsStayOn(j, yaml) /\ Current = yaml
    BY <2>1, LoadingIsCurrent DEF Planned
  <2> QED
    BY <1>0, <2>2, <2>3 DEF PlanInv, Editing
<1>2. CASE PutVar
  <2>1. Current' = Current
    BY <1>2 DEF PutVar, Current
  <2> QED
    BY <1>0, <1>2, <2>1 DEF PutVar, PlanInv, Editing, LightsStayOn
<1>3. CASE UndoVar \/ FinishVar
  <2>1. Current' = Current
    BY <1>3 DEF UndoVar, FinishVar, Current
  <2> QED
    BY <1>0, <1>3, <2>1 DEF UndoVar, FinishVar, PlanInv, Editing
<1>4. CASE EnvWritten \/ Finish \/ Rethrow \/ Crash
  BY <1>0, <1>4 DEF EnvWritten, Finish, Rethrow, Crash, Ended, PlanInv, Editing
<1>5. CASE BackupFile
  <2>1. /\ pc = "put" /\ job.mode # "envOnly" /\ left = {} /\ pc' = "write"
        /\ UNCHANGED <<yaml, job, left, before>>
        /\ backup' = IF yaml = Truncated THEN backup ELSE yaml
    BY <1>5 DEF BackupFile
  <2>2. LightsStayOn(job, before.yaml) /\ Current = before.yaml
    BY <2>1 DEF PlanInv, Editing
  <2>3. Current' = Current
    BY <2>1 DEF Current
  <2> QED
    BY <1>0, <2>1, <2>2, <2>3 DEF PlanInv, Editing
<1>6. CASE PersistThrows \/ WriteFails
  <2>1. /\ pc \in {"put", "write", "writing"} /\ job.mode # "envOnly" /\ UNCHANGED before
        /\ left = {} /\ Caught
    BY <1>6 DEF PersistThrows, WriteFails, PlanInv
  <2>2. LightsStayOn(job, before.yaml) /\ Current = before.yaml /\ Current' = Current
    BY <2>1, CopyKept DEF PlanInv, Editing, Caught
  <2>3. CASE job' = [job EXCEPT !.mode = "skip", !.retry = FALSE] /\ pc' = "put" /\ UNCHANGED left
    <3>1. /\ job'.mode = "skip" /\ job'.mem = job.mem /\ job'.op = job.op /\ job'.confirm = job.confirm
          /\ job'.puts = job.puts
      BY <1>0, <2>3 DEF TypeOK, Job
    <3>2. LightsStayOn(job', before'.yaml)
      BY <2>1, <2>2, <3>1 DEF LightsStayOn
    <3> QED
      BY <1>0, <2>1, <2>2, <2>3, <3>1, <3>2 DEF PlanInv, Editing
  <2>4. CASE pc' = "undo" /\ left' = DOMAIN job.puts /\ UNCHANGED job
    BY <1>0, <2>1, <2>2, <2>4 DEF PlanInv, Editing
  <2> QED
    BY <2>1, <2>3, <2>4 DEF Caught
<1>7. CASE TruncateYaml
  <2>1. /\ pc = "write" /\ yaml' = Truncated /\ pc' = "writing" /\ UNCHANGED <<backup, job, left, before>>
    BY <1>7 DEF TruncateYaml
  <2>2. /\ LightsStayOn(job, before.yaml) /\ Current = before.yaml /\ Current = backup
        /\ left = {} /\ job.mode # "envOnly"
    BY <1>0, <2>1 DEF PlanInv, Editing, LoadsInv
  <2>3. Current' = backup
    BY <2>1 DEF Current, Truncated
  <2> QED
    BY <1>0, <2>1, <2>2, <2>3 DEF PlanInv, Editing
<1>8. CASE WriteYaml
  <2>1. /\ pc = "writing" /\ yaml' = job.mem /\ pc' = "finish" /\ job' = job
    BY <1>8 DEF WriteYaml
  <2>2. SchemaAccepts(job.mem) /\ job.mode # "envOnly"
    BY <1>0, <2>1 DEF PlanInv, LoadsInv
  <2> QED
    BY <1>0, <2>1, <2>2 DEF PlanInv, Editing
<1>9. CASE PasteSecret \/ RestoreBackup
  BY <1>0, <1>9 DEF PasteSecret, RestoreBackup, PlanInv, Editing
<1>10. CASE UNCHANGED vars
  BY <1>0, <1>10 DEF vars, PlanInv, Editing, LightsStayOn, Current
<1> QED
  BY <1>1, <1>2, <1>3, <1>4, <1>5, <1>6, <1>7, <1>8, <1>9, <1>10 DEF Next, FileStep, Operator

\* At every step of every command, the YAML is still the file the command has read
\* (or, once writeYaml has truncated it, its copy is), what is left to set, undo or delete is part of
\* what was planned, and active models are given up only by consent.
THEOREM PlansCarriedOut == Spec => []PlanInv
  BY InitPlanInv, NextPlanInv, PTL DEF Spec

\* The files, the environment and the command in progress are always well formed.
THEOREM CliTyped == Spec => []TypeOK
<1>1. PlanInv => TypeOK
  BY DEF PlanInv
<1> QED
  BY <1>1, PlansCarriedOut, PTL

\* The write of a configuration is the only step that ends in "finish".
LEMMA OnlyWriteFinishes ==
    ASSUME [Next]_vars, pc = "writing", pc' = "finish", PlanInv
    PROVE  WriteYaml
<1>1. ~ Command
  <2> SUFFICES ASSUME Command PROVE FALSE
    OBVIOUS
  <2>1. PICK j, S : Start(j, S)
    BY CommandPlans DEF PlanInv
  <2> QED
    BY <2>1 DEF Start
<1> QED
  BY <1>1 DEF Next, FileStep, Operator, vars, PutVar, EnvWritten, BackupFile, PersistThrows, WriteFails, Caught,
     TruncateYaml, FinishVar, Finish, UndoVar, Rethrow, Crash, Ended, PasteSecret, RestoreBackup

\* A configuration the schema accepts has an active model if it has an enabled instance:
\* so only switching off or removing instances, with consent, ends the service.
THEOREM DarknessNeedsConsent == Spec => GoesDarkOnlyByConsent
<1>1. ASSUME PlanInv, [Next]_vars, pc = "writing", pc' = "finish",
             ActiveModels(backup) # {}, ActiveModels(yaml') = {}
      PROVE  job.confirm /\ job.op \in {"provider:edit", "provider:remove"}
  <2>1. yaml' = job.mem
    BY <1>1, OnlyWriteFinishes DEF WriteYaml
  <2>2. LightsStayOn(job, backup) /\ SchemaAccepts(job.mem)
    BY <1>1 DEF PlanInv, Editing, LoadsInv
  <2>3. Enabled(job.mem) # {} => ActiveModels(job.mem) # {}
    BY <2>2 DEF SchemaAccepts, ModelsAndProvidersAgree, hasModelsForInstance, ModelsOf, ActiveModels
  <2> QED
    BY <1>1, <2>1, <2>2, <2>3 DEF LightsStayOn
<1>2. PlanInv /\ [Next]_vars =>
          [(/\ pc = "writing" /\ pc' = "finish"
            /\ ActiveModels(backup) # {} /\ ActiveModels(yaml') = {})
           => job.confirm /\ job.op \in {"provider:edit", "provider:remove"}]_vars
  BY <1>1
<1> QED
  BY <1>2, PlansCarriedOut, PTL DEF Spec, GoesDarkOnlyByConsent

-----------------------------------------------------------------------------
\* What the rows need, of the variables no two ids derive

\* Rows keep their needs while the files stay.
LEMMA RowsStay ==
    ASSUME RowsKeepTheirNeeds, Current' = Current, env' = env, prompts \subseteq prompts'
    PROVE  RowsKeepTheirNeeds'
  BY DEF RowsKeepTheirNeeds

\* The operator's configuration and its variables.
LEMMA CurrentTyped ==
    ASSUME PlanInv
    PROVE  /\ Current \in GatewayConfig /\ SecretsOf(Current) \subseteq Refs
           /\ ClientKeysOf(Current) \subseteq Refs /\ ClientKeysOf(Current) \subseteq KeyRefs
           /\ env \in [Refs -> Values]
<1>1. Current \in GatewayConfig /\ env \in [Refs -> Values]
  BY DEF PlanInv, TypeOK, Current
<1> QED
  BY <1>1, NeedsByRow

\* A command begins with what it planned.
LEMMA StartNeeds ==
    ASSUME PlanInv, NeedsInv, NEW j, NEW S, Planned(j, S), Start(j, S)
    PROVE  NeedsInv'
<1>1. /\ pc' = "put" /\ job' = j /\ left' = DOMAIN j.puts /\ prompts' = prompts \cup S
      /\ before' = [yaml |-> yaml, env |-> env] /\ UNCHANGED <<yaml, env, backup>>
  BY DEF Start
<1>2. Current' = Current
  BY <1>1 DEF Current
<1>3. RowsKeepTheirNeeds'
  BY <1>1, <1>2, RowsStay DEF NeedsInv
<1>4. FitsTheFiles(j, S) /\ (j.mode # "envOnly" => Current = yaml)
  BY LoadingIsCurrent DEF Planned
<1>5. j.mode # "envOnly" =>
          /\ \A r \in SecretsOf(yaml) \cap Unshared : env[r] # "absent"
          /\ \A r \in ClientKeysOf(yaml) \cap Unshared : env[r] = "value"
          /\ DOMAIN yaml.models \subseteq prompts
  BY <1>4 DEF NeedsInv, RowsKeepTheirNeeds
<1>6. before'.yaml = yaml /\ before'.env = env
  BY <1>1
<1> QED
  BY <1>1, <1>3, <1>4, <1>5, <1>6 DEF NeedsInv, FitsTheFiles, Editing

\* Setting a variable takes none from a saved row.
LEMMA PutNeeds ==
    ASSUME PlanInv, NeedsInv, PutVar
    PROVE  NeedsInv'
<1>1. PICK r \in left : pc = "put" /\ env' = [env EXCEPT ![r] = job.puts[r]] /\ left' = left \ {r}
                         /\ UNCHANGED <<yaml, prompts, backup, pc, job, penv, before>>
  BY DEF PutVar, SetVar
<1>2. /\ r \in DOMAIN job.puts /\ r \in Refs /\ job.puts[r] \in {"empty", "value"}
      /\ (r \in KeyRefs \cap Unshared => job.puts[r] = "value")
  BY <1>1, JobPuts DEF PlanInv, TypeOK, NeedsInv
<1>3. /\ env'[r] # "absent" /\ (r \in KeyRefs \cap Unshared => env'[r] = "value")
      /\ \A x \in Refs : x # r => env'[x] = env[x]
  BY <1>1, <1>2, CurrentTyped
<1>4. Current' = Current
  BY <1>1 DEF Current
<1>5. RowsKeepTheirNeeds'
  <2>1. \A x \in SecretsOf(Current) \cap Unshared : env'[x] # "absent"
    BY <1>3, CurrentTyped DEF NeedsInv, RowsKeepTheirNeeds
  <2>2. \A x \in ClientKeysOf(Current) \cap Unshared : env'[x] = "value"
    BY <1>3, CurrentTyped DEF NeedsInv, RowsKeepTheirNeeds
  <2> QED
    BY <1>1, <1>4, <2>1, <2>2 DEF NeedsInv, RowsKeepTheirNeeds
<1>6. ASSUME job.mode # "envOnly"
      PROVE  /\ \A x \in Refs \ DOMAIN job.puts : env'[x] = before.env[x]
             /\ \A x \in (SecretsOf(job.mem) \cap Unshared) \ left' : env'[x] # "absent"
             /\ \A x \in (ClientKeysOf(job.mem) \cap Unshared) \ left' : env'[x] = "value"
  <2>1. /\ SecretsOf(job.mem) \subseteq Refs /\ ClientKeysOf(job.mem) \subseteq KeyRefs
        /\ ClientKeysOf(job.mem) \subseteq Refs
    BY NeedsByRow, JobPuts DEF PlanInv, TypeOK
  <2>2. \A x \in Refs \ DOMAIN job.puts : env[x] = before.env[x]
    BY <1>1, <1>6 DEF NeedsInv
  <2>3. /\ \A x \in (SecretsOf(job.mem) \cap Unshared) \ left : env[x] # "absent"
        /\ \A x \in (ClientKeysOf(job.mem) \cap Unshared) \ left : env[x] = "value"
    BY <1>1, <1>6 DEF NeedsInv, Editing
  <2> QED
    BY <1>1, <1>2, <1>3, <2>1, <2>2, <2>3
<1> QED
  BY <1>1, <1>5, <1>6 DEF NeedsInv, Editing

\* Undoing one neither.
LEMMA UndoNeeds ==
    ASSUME PlanInv, NeedsInv, UndoVar
    PROVE  NeedsInv'
<1>1. PICK r \in left : pc = "undo" /\ env' = [env EXCEPT ![r] = "absent"] /\ left' = left \ {r}
                         /\ UNCHANGED <<yaml, prompts, backup, pc, job, penv, before>>
  BY DEF UndoVar, SetVar
<1>2. Current = before.yaml /\ Current' = Current /\ job.mode # "envOnly"
  BY <1>1 DEF PlanInv, Current
<1>3. /\ r \in DOMAIN job.puts /\ r \in Refs /\ DOMAIN job.puts \subseteq Refs
      /\ DOMAIN job.puts \cap Needs(before.yaml) \cap Unshared = {}
      /\ \A x \in Refs \ DOMAIN job.puts : env[x] = before.env[x]
      /\ \A x \in DOMAIN job.puts \ left : env[x] = "absent"
  BY <1>1, <1>2, JobPuts DEF NeedsInv, PlanInv, TypeOK
<1>4. env'[r] = "absent" /\ \A x \in Refs : x # r => env'[x] = env[x]
  BY <1>1, <1>3, CurrentTyped
<1>5. \A x \in Needs(Current) \cap Unshared : env'[x] = env[x]
  BY <1>2, <1>3, <1>4, CurrentTyped DEF Needs
<1>6. RowsKeepTheirNeeds'
  BY <1>1, <1>2, <1>5 DEF NeedsInv, RowsKeepTheirNeeds, Needs
<1> QED
  BY <1>1, <1>3, <1>4, <1>6 DEF NeedsInv, Editing

\* What is deleted after the YAML was written no remaining row needs.
LEMMA FinishVarNeeds ==
    ASSUME PlanInv, NeedsInv, FinishVar
    PROVE  NeedsInv'
<1>1. PICK r \in left : /\ pc = "finish" /\ left' = left \ {r}
                         /\ env' = [env EXCEPT ![r] = IF r \in job.drops THEN "absent" ELSE "empty"]
                         /\ UNCHANGED <<yaml, prompts, backup, pc, job, penv, before>>
  BY DEF FinishVar, SetVar
<1>2. Current = yaml /\ Current' = Current
  BY <1>1, LoadingIsCurrent DEF PlanInv, Current
<1>3. r \in job.drops => r \notin Needs(yaml) \cap Unshared
  BY <1>1 DEF NeedsInv
<1>4. r \notin ClientKeysOf(yaml) \cap Unshared
  <2>1. r \in job.clears => r \notin KeyRefs \cap Unshared
    BY <1>1 DEF NeedsInv
  <2> QED
    BY <1>1, <1>2, <1>3, <2>1, CurrentTyped DEF NeedsInv, Needs
<1>5. \A x \in SecretsOf(yaml) \cap Unshared : env'[x] # "absent"
  BY <1>1, <1>2, <1>3, CurrentTyped DEF NeedsInv, RowsKeepTheirNeeds, Needs
<1>6. \A x \in ClientKeysOf(yaml) \cap Unshared : env'[x] = "value"
  BY <1>1, <1>2, <1>4, CurrentTyped DEF NeedsInv, RowsKeepTheirNeeds
<1>7. RowsKeepTheirNeeds'
  BY <1>1, <1>2, <1>5, <1>6 DEF NeedsInv, RowsKeepTheirNeeds
<1> QED
  BY <1>1, <1>7 DEF NeedsInv, Editing

\* Copying, refusing and truncating the YAML leave .env and the prompts alone.
LEMMA PersistNeeds ==
    ASSUME PlanInv, NeedsInv, BackupFile \/ PersistThrows \/ WriteFails \/ TruncateYaml
    PROVE  NeedsInv'
<1>1. CASE BackupFile
  <2>1. /\ pc = "put" /\ pc' = "write" /\ job.mode # "envOnly" /\ left = {}
        /\ UNCHANGED <<yaml, env, prompts, job, left, before>>
        /\ backup' = IF yaml = Truncated THEN backup ELSE yaml
    BY <1>1 DEF BackupFile
  <2>2. Current' = Current
    BY <2>1 DEF Current
  <2>3. RowsKeepTheirNeeds'
    BY <2>1, <2>2, RowsStay DEF NeedsInv
  <2> QED
    BY <2>1, <2>3 DEF NeedsInv, Editing
<1>2. CASE PersistThrows \/ WriteFails
  <2>1. /\ pc \in {"put", "write", "writing"} /\ job.mode # "envOnly" /\ left = {} /\ Caught
        /\ UNCHANGED <<env, prompts, before>>
    BY <1>2 DEF PersistThrows, WriteFails, PlanInv
  <2>2. Current' = Current
    BY <2>1, CopyKept DEF Caught
  <2>3. RowsKeepTheirNeeds'
    BY <2>1, <2>2, RowsStay DEF NeedsInv
  <2>4. CASE job' = [job EXCEPT !.mode = "skip", !.retry = FALSE] /\ pc' = "put" /\ UNCHANGED left
    <3>1. /\ job'.mem = job.mem /\ job'.puts = job.puts /\ job'.drops = job.drops
          /\ job'.clears = job.clears /\ job'.forget = job.forget
      BY <2>4 DEF PlanInv, TypeOK, Job
    <3> QED
      BY <2>1, <2>3, <2>4, <3>1 DEF NeedsInv, Editing
  <2>5. CASE pc' = "undo" /\ left' = DOMAIN job.puts /\ UNCHANGED job
    BY <2>1, <2>3, <2>5 DEF NeedsInv, Editing
  <2> QED
    BY <2>1, <2>4, <2>5 DEF Caught
<1>3. CASE TruncateYaml
  <2>1. /\ pc = "write" /\ yaml' = Truncated /\ pc' = "writing"
        /\ UNCHANGED <<env, prompts, backup, job, left, before>>
    BY <1>3 DEF TruncateYaml
  <2>2. Current' = Current
    BY <2>1 DEF PlanInv, LoadsInv, Current, Truncated
  <2>3. RowsKeepTheirNeeds'
    BY <2>1, <2>2, RowsStay DEF NeedsInv
  <2> QED
    BY <2>1, <2>3 DEF NeedsInv, Editing
<1> QED
  BY <1>1, <1>2, <1>3

\* The new rows find what was set for them.
LEMMA WriteNeeds ==
    ASSUME PlanInv, NeedsInv, WriteYaml
    PROVE  NeedsInv'
<1>1. /\ pc = "writing" /\ yaml' = job.mem /\ pc' = "finish" /\ left' = job.drops \cup job.clears
      /\ UNCHANGED <<env, prompts, job>>
  BY DEF WriteYaml
<1>2. left = {} /\ Editing /\ SchemaAccepts(job.mem)
  BY <1>1 DEF PlanInv, LoadsInv, Editing
<1>3. Current' = job.mem
  BY <1>1, <1>2, TruncatedIsRefused DEF Current
<1>4. RowsKeepTheirNeeds'
  BY <1>1, <1>2, <1>3 DEF NeedsInv, RowsKeepTheirNeeds
<1> QED
  BY <1>1, <1>2, <1>4 DEF NeedsInv, Editing

\* The process ends, well or not, and the operator acts.
LEMMA IdleNeeds ==
    ASSUME PlanInv, NeedsInv,
           EnvWritten \/ Finish \/ Rethrow \/ Crash \/ PasteSecret \/ RestoreBackup
    PROVE  NeedsInv'
<1>1. pc' = "idle"
  BY DEF EnvWritten, Finish, Rethrow, Crash, Ended, PasteSecret, RestoreBackup
<1>2. RowsKeepTheirNeeds'
  <2>1. CASE EnvWritten \/ Rethrow
    <3>1. Current' = Current /\ UNCHANGED <<env, prompts>>
      BY <2>1, CopyKept DEF EnvWritten, Rethrow, Ended
    <3> QED
      BY <3>1, RowsStay DEF NeedsInv
  <2>2. CASE Crash
    <3>1. Current' = Current /\ UNCHANGED <<env, prompts>>
      BY <2>2, CopyKept DEF Crash, Ended
    <3> QED
      BY <3>1, RowsStay DEF NeedsInv
  <2>3. CASE RestoreBackup
    <3>1. Current' = Current /\ UNCHANGED <<env, prompts>>
      BY <2>3 DEF RestoreBackup, Current
    <3> QED
      BY <3>1, RowsStay DEF NeedsInv
  <2>4. CASE Finish
    <3>1. /\ pc = "finish" /\ prompts' \in {prompts, prompts \ job.forget}
          /\ UNCHANGED env /\ Current' = Current
      BY <2>4, CopyKept DEF Finish, Ended
    <3>2. Current = yaml
      BY <3>1, LoadingIsCurrent DEF PlanInv
    <3>3. DOMAIN yaml.models \subseteq prompts'
      BY <3>1, <3>2 DEF NeedsInv, RowsKeepTheirNeeds
    <3> QED
      BY <3>1, <3>2, <3>3 DEF NeedsInv, RowsKeepTheirNeeds
  <2>5. CASE PasteSecret
    <3>1. PICK r \in Refs : /\ env' = [env EXCEPT ![r] = "value"]
                             /\ UNCHANGED <<yaml, prompts, backup>>
      BY <2>5 DEF PasteSecret, SetVar
    <3>2. Current' = Current
      BY <3>1 DEF Current
    <3>3. \A x \in Refs : env'[x] = "value" \/ env'[x] = env[x]
      BY <3>1, CurrentTyped
    <3> QED
      BY <3>1, <3>2, <3>3, CurrentTyped DEF NeedsInv, RowsKeepTheirNeeds
  <2> QED
    BY <2>1, <2>2, <2>3, <2>4, <2>5
<1> QED
  BY <1>1, <1>2 DEF NeedsInv, Editing

\* Every step keeps the needs of the rows.
LEMMA NextNeedsInv ==
    ASSUME PlanInv, NeedsInv, [Next]_vars
    PROVE  NeedsInv'
<1>1. CASE Command
  BY <1>1, CommandPlans, StartNeeds DEF PlanInv
<1>2. CASE UNCHANGED vars
  BY <1>2 DEF vars, NeedsInv, RowsKeepTheirNeeds, Current, Editing
<1> QED
  BY <1>1, <1>2, PutNeeds, UndoNeeds, FinishVarNeeds, PersistNeeds, WriteNeeds, IdleNeeds
  DEF Next, FileStep, Operator

\* The operator's rows have what they need at first.
LEMMA InitNeedsInv == Init => NeedsInv
<1> SUFFICES ASSUME Init PROVE NeedsInv
  OBVIOUS
<1>1. Current = yaml /\ Current \in GatewayConfig
  BY LoadingIsCurrent DEF Init
<1>2. \A r \in SecretsOf(yaml) : r \in Refs /\ env[r] # "absent"
  BY <1>1, NeedsByRow DEF Init
<1>3. \A r \in ClientKeysOf(yaml) : env[r] = "value"
  BY <1>1, NeedsByRow DEF Init
<1> QED
  BY <1>1, <1>2, <1>3 DEF Init, NeedsInv, RowsKeepTheirNeeds, Editing

-----------------------------------------------------------------------------
\* What the check of persistConfig sees

\* The check reads process.env; what it finds there of the rows' secrets is in .env too.
LEMMA CheckSeesEnv ==
    ASSUME PlanInv, SecretsInv, pc = "put", left = {}, job.mode = "full",
           penv' = DotenvLoad, PersistAccepts(job.mem, job.mode, penv')
    PROVE  EffectiveAccepts(job.mem, env, FALSE)
<1>1. EffectiveAccepts(job.mem, penv', FALSE) /\ SchemaAccepts(job.mem) /\ Editing
  BY DEF PersistAccepts, Editing
<1>2. ASSUME NEW p \in Enabled(job.mem) PROVE env[SecretRef(job.mem, p)] = "value"
  <2> DEFINE r == SecretRef(job.mem, p)
  <2>1. r \in Refs
    <3>1. job.mem \in GatewayConfig
      BY JobPuts DEF PlanInv, TypeOK
    <3>2. p \in Providers
      BY <3>1, ConfigShape DEF Enabled
    <3> QED
      BY <3>2, RefsAssumption DEF SecretRef
  <2>2. penv'[r] = "value"
    BY <1>1, <1>2 DEF EffectiveAccepts, SecretsPresent, SecretRef
  <2>3. CASE r \in DOMAIN job.puts
    BY <1>1, <1>2, <2>3 DEF SecretsInv
  <2>4. CASE r \notin DOMAIN job.puts
    <3>1. penv[r] = env[r]
      BY <1>1, <2>1, <2>4 DEF SecretsInv
    <3>2. penv'[r] = env[r]
      BY <2>1, <3>1 DEF DotenvLoad
    <3> QED
      BY <2>2, <3>2
  <2> QED
    BY <2>3, <2>4
<1>3. SecretsPresent(job.mem, env)
  BY <1>2 DEF SecretsPresent, SecretRef
<1> QED
  BY <1>1, <1>3 DEF EffectiveAccepts

\* Every step keeps process.env in line with .env.
LEMMA NextSecretsInv ==
    ASSUME PlanInv, SecretsInv, [Next]_vars
    PROVE  SecretsInv'
<1>0. TypeOK
  BY DEF PlanInv
<1>1. CASE Command
  <2>1. PICK j, S : Planned(j, S) /\ Start(j, S)
    BY <1>0, <1>1, CommandPlans
  <2>2. FitsTheFiles(j, S) /\ pc' = "put" /\ job' = j /\ left' = DOMAIN j.puts /\ penv' = env /\ env' = env
    BY <2>1 DEF Planned, Start
  <2> QED
    BY <2>2 DEF SecretsInv, FitsTheFiles, Editing
<1>2. CASE PutVar
  <2>1. PICK r \in left : pc = "put" /\ env' = [env EXCEPT ![r] = job.puts[r]] /\ left' = left \ {r}
                           /\ UNCHANGED <<pc, job, penv>>
    BY <1>2 DEF PutVar, SetVar
  <2>2. r \in DOMAIN job.puts /\ r \in Refs /\ DOMAIN job.puts \subseteq Refs
    BY <1>0, <2>1, JobPuts DEF PlanInv, TypeOK
  <2>3. env'[r] = job.puts[r] /\ \A x \in Refs : x # r => env'[x] = env[x]
    BY <1>0, <2>1, <2>2 DEF TypeOK
  <2> QED
    BY <2>1, <2>2, <2>3 DEF SecretsInv, Editing
<1>3. CASE BackupFile
  <2>1. /\ pc = "put" /\ left = {} /\ job.mode # "envOnly" /\ pc' = "write"
        /\ PersistAccepts(job.mem, job.mode, penv') /\ UNCHANGED <<env, job, left>>
        /\ job.mode = "full" => penv' = DotenvLoad
    BY <1>3 DEF BackupFile, ReadsEnv
  <2>2. job.mode = "full" => EffectiveAccepts(job.mem, env, FALSE)
    BY <2>1, CheckSeesEnv
  <2> QED
    BY <2>1, <2>2 DEF SecretsInv, Editing
<1>4. CASE PersistThrows \/ WriteFails
  <2>1. /\ pc \in {"put", "write", "writing"} /\ left = {} /\ job.mode # "envOnly"
        /\ UNCHANGED env /\ Caught
    BY <1>4 DEF PersistThrows, WriteFails, PlanInv
  <2>2. CASE job' = [job EXCEPT !.mode = "skip", !.retry = FALSE] /\ pc' = "put" /\ UNCHANGED left
    <3>1. job'.mem = job.mem /\ job'.puts = job.puts /\ job'.mode = "skip"
      BY <1>0, <2>2 DEF TypeOK, Job
    <3> QED
      BY <2>1, <2>2, <3>1 DEF SecretsInv, Editing
  <2>3. CASE pc' = "undo"
    BY <2>3 DEF SecretsInv, Editing
  <2> QED
    BY <2>1, <2>2, <2>3 DEF Caught
<1>5. CASE TruncateYaml
  <2>1. pc = "write" /\ pc' = "writing" /\ UNCHANGED <<env, job, left>>
    BY <1>5 DEF TruncateYaml
  <2> QED
    BY <2>1 DEF SecretsInv, Editing
<1>6. CASE \/ WriteYaml \/ FinishVar \/ UndoVar \/ EnvWritten \/ Finish \/ Rethrow \/ Crash
           \/ PasteSecret \/ RestoreBackup
  <2>1. pc' \in {"finish", "undo", "idle"}
    BY <1>6 DEF WriteYaml, FinishVar, UndoVar, EnvWritten, Finish, Rethrow, Crash, Ended, PasteSecret,
       RestoreBackup
  <2> QED
    BY <2>1 DEF SecretsInv, Editing
<1>7. CASE UNCHANGED vars
  BY <1>7 DEF vars, SecretsInv, Editing
<1> QED
  BY <1>1, <1>2, <1>3, <1>4, <1>5, <1>6, <1>7 DEF Next, FileStep, Operator

-----------------------------------------------------------------------------
\* No row loses its prompt or a variable that is its own, whichever commands run, are
\* refused, fail in the middle of a write or are killed between two, and whatever names
\* other ids share.
THEOREM RowsNeverStarve == Spec => []RowsKeepTheirNeeds
<1>1. PlanInv /\ NeedsInv /\ [Next]_vars => NeedsInv'
  BY NextNeedsInv
<1>2. NeedsInv => RowsKeepTheirNeeds
  BY DEF NeedsInv
<1> QED
  BY <1>1, <1>2, InitNeedsInv, PlansCarriedOut, PTL DEF Spec

\* A command that reports an error leaves the configuration it has read, in the file or
\* in the copy of a file its write has truncated, and every variable but those derived
\* from its own id.
THEOREM RejectionsUndone == Spec => []RejectedIsNoOp
<1>1. PlanInv /\ NeedsInv /\ [Next]_vars => NeedsInv'
  BY NextNeedsInv
<1>2. ASSUME PlanInv, NeedsInv, pc = "undo", left = {}
      PROVE  /\ Current = before.yaml
             /\ \A r \in Refs : env[r] # before.env[r] =>
                    r \in DOMAIN job.puts /\ env[r] = "absent"
             /\ \A r \in Unshared \cap (SecretsOf(before.yaml) \cup ClientKeysOf(before.yaml)) :
                    env[r] = before.env[r]
  <2>1. job.mode # "envOnly" /\ Current = before.yaml
    BY <1>2 DEF PlanInv
  <2>2. /\ DOMAIN job.puts \cap Needs(before.yaml) \cap Unshared = {}
        /\ \A r \in Refs \ DOMAIN job.puts : env[r] = before.env[r]
        /\ \A r \in DOMAIN job.puts : env[r] = "absent"
    BY <1>2, <2>1 DEF NeedsInv
  <2>3. Unshared \subseteq Refs
    BY DEF Unshared
  <2> QED
    BY <2>1, <2>2, <2>3 DEF Needs
<1>3. PlanInv /\ NeedsInv => RejectedIsNoOp
  BY <1>2 DEF RejectedIsNoOp
<1> QED
  BY <1>1, <1>3, InitNeedsInv, PlansCarriedOut, PTL DEF Spec

\* A configuration persistConfig has checked in full boots from the .env that goes with
\* it, though the check looks at the environment of its own process and other rows may
\* share a variable: the schema refuses the one case that matters, two providers with
\* one API key.
THEOREM CheckedConfigurationsBoot == Spec => AcceptedMeansBootable
<1>1. Init => SecretsInv
  BY DEF Init, SecretsInv, Editing
<1>2. PlanInv /\ SecretsInv /\ [Next]_vars => SecretsInv'
  BY NextSecretsInv
<1>3. ASSUME PlanInv, SecretsInv, [Next]_vars, pc = "writing", pc' = "finish", job.mode = "full"
      PROVE  EffectiveAccepts(yaml', env', FALSE)
  <2>1. yaml' = job.mem /\ env' = env
    BY <1>3, OnlyWriteFinishes DEF WriteYaml
  <2>2. EffectiveAccepts(job.mem, env, FALSE)
    BY <1>3 DEF SecretsInv
  <2> QED
    BY <2>1, <2>2
<1>4. PlanInv /\ SecretsInv /\ [Next]_vars =>
          [(pc = "writing" /\ pc' = "finish" /\ job.mode = "full")
           => EffectiveAccepts(yaml', env', FALSE)]_vars
  BY <1>3
<1> QED
  BY <1>1, <1>2, <1>4, PlansCarriedOut, PTL DEF Spec, AcceptedMeansBootable
=============================================================================
