----------------------------- MODULE GatewayCli -----------------------------
\* The configuration commands of the gateway's command line interface
\* (src/cli): provider:add/edit/remove, model:add/edit/remove,
\* client:add/edit/remove and key:generate. They share two files no lock
\* protects: gateway.config.yaml, which names providers, models and clients, and
\* .env, which holds the secrets the rows of the first one refer to. A command
\* loads the YAML, changes its copy in memory, and then writes the two files in
\* several steps, any of which may be the last one the process takes.
EXTENDS FiniteSets

CONSTANTS
    Providers,      \* provider instance ids an operator may type
    Aliases,        \* model aliases
    Clients,        \* client ids
    Types,          \* adapter types on offer, of {"native", "openai"}
    Refs,           \* names of environment variables
    ApiKeyRef,      \* deriveApiKeyRef: provider id -> variable
    BaseUrlRef,     \* deriveBaseUrlRef: provider id -> variable
    GatewayKeyRef   \* deriveGatewayKeyRef: client id -> variable

\* The derived names are names of variables: <SLUG>_API_KEY, <SLUG>_BASE_URL and
\* GATEWAY_KEY_<ID>. The two suffixes differ. Nothing says that two ids have two
\* names: "a-b" and "a_b" have one slug, and the key of client x-api-key is the
\* API key of provider gateway-key-x.
ASSUME RefsAssumption ==
    /\ Types \subseteq {"native", "openai"}
    /\ ApiKeyRef \in [Providers -> Refs]
    /\ BaseUrlRef \in [Providers -> Refs]
    /\ GatewayKeyRef \in [Clients -> Refs]
    /\ \A p, q \in Providers : ApiKeyRef[p] # BaseUrlRef[q]

ASSUME AliasAssumption == "none" \notin Aliases

VARIABLES
    yaml,       \* content of gateway.config.yaml
    env,        \* content of .env: "absent", "empty" or "value" per variable
    prompts,    \* aliases that have a file under system-prompt/models
    backup,     \* the copy in backup/ of the file being written
    pc,         \* where the running command is, "idle" when there is none
    job,        \* what the running command is still to do
    left,       \* variables the current phase of the command has to write
    penv,       \* process.env of the running command
    before      \* .env and YAML as they were when the command started

vars == <<yaml, env, prompts, backup, pc, job, left, penv, before>>

-----------------------------------------------------------------------------
\* Configurations

ProviderRow == [type : {"native", "openai"}, enabled : BOOLEAN]
ModelRow == [provider : Providers, fallback : Aliases \cup {"none"}]

\* A record of the YAML: a function is a section, its domain the ids it holds.
GatewayConfig ==
    [providers : UNION {[S -> ProviderRow] : S \in SUBSET Providers},
     models    : UNION {[S -> ModelRow] : S \in SUBSET Aliases},
     clients   : SUBSET Clients]

\* A file that was truncated and not yet written holds nothing.
Truncated == [providers |-> [p \in {} |-> 0], models |-> [a \in {} |-> 0],
              clients |-> {}]

Values == {"absent", "empty", "value"}

With(f, S, v) == [x \in DOMAIN f \cup S |-> IF x \in S THEN v ELSE f[x]]
Without(f, S) == [x \in DOMAIN f \ S |-> f[x]]

Enabled(c) == {p \in DOMAIN c.providers : c.providers[p].enabled}
ModelsOf(c, p) == {a \in DOMAIN c.models : c.models[a].provider = p}
ActiveModels(c) ==
    {a \in DOMAIN c.models : c.models[a].provider \in Enabled(c)}

hasModelsForInstance(c, p) == ModelsOf(c, p) # {}

\* The models that would be left active if p were disabled.
activeAfterDisabling(c, p) ==
    {a \in ActiveModels(c) : c.models[a].provider # p}

isLastModelInConfig(c, a) == DOMAIN c.models = {a}

isLastModelForEnabledProvider(c, a) ==
    LET p == c.models[a].provider
    IN  p \in Enabled(c) /\ ModelsOf(c, p) = {a}

UniqueApiKeyRefs(c) ==
    \A p, q \in DOMAIN c.providers :
        p # q => ApiKeyRef[p] # ApiKeyRef[q]

FallbacksResolve(c) ==
    \A a \in DOMAIN c.models :
        LET f == c.models[a].fallback
        IN  f # "none" => /\ f # a
                          /\ f \in DOMAIN c.models
                          /\ c.models[f].fallback # a

ModelsAndProvidersAgree(c) ==
    /\ \A a \in DOMAIN c.models : c.models[a].provider \in DOMAIN c.providers
    /\ DOMAIN c.models # {}
    /\ \A p \in Enabled(c) : hasModelsForInstance(c, p)

\* What GatewayConfigSchema.safeParse accepts.
SchemaAccepts(c) ==
    /\ UniqueApiKeyRefs(c)
    /\ FallbacksResolve(c)
    /\ ModelsAndProvidersAgree(c)

\* The secrets of the enabled providers are there: an OpenAI type needs its base
\* URL and no key, every other type its key.
SecretsPresent(c, e) ==
    \A p \in Enabled(c) :
        IF c.providers[p].type = "openai"
        THEN e[BaseUrlRef[p]] = "value"
        ELSE e[ApiKeyRef[p]] = "value"

\* buildEffectiveGatewayConfig does not throw; soft skips the secrets.
EffectiveAccepts(c, e, soft) ==
    /\ ActiveModels(c) # {}
    /\ \A p \in Enabled(c) : \E a \in ActiveModels(c) : c.models[a].provider = p
    /\ soft \/ SecretsPresent(c, e)

\* Fault: a variable that is there counts as filled in.
FaultDotenvLoadPresence ==
    [r \in Refs |-> IF env[r] = "absent" THEN "absent" ELSE "value"]

\* dotenv adds what process.env does not have, an empty variable included, and
\* overrides nothing.
DotenvLoad == [r \in Refs |-> IF penv[r] = "absent" THEN env[r] ELSE penv[r]]

\* Fault: skipEffectiveCheck skips the schema too.
FaultPersistUnchecked(c, mode, e) ==
    mode = "skip" \/ (SchemaAccepts(c) /\ EffectiveAccepts(c, e, mode = "soft"))

\* The checks of persistConfig.
PersistAccepts(c, mode, e) ==
    /\ SchemaAccepts(c)
    /\ mode = "skip" \/ EffectiveAccepts(c, e, mode = "soft")

-----------------------------------------------------------------------------
\* What a command is to do. puts are written to .env before the YAML is, and
\* removed again if the YAML is refused; drops and clears are removed or emptied
\* after it; forget is the prompt to delete then.

NoPuts == [r \in {} |-> "empty"]

Job == [op : {"none", "provider:add", "provider:remove", "provider:edit",
              "model:add", "model:edit", "model:remove", "client:add",
              "client:edit", "client:remove", "key"},
        mem : GatewayConfig,
        mode : {"full", "soft", "skip", "envOnly"},
        retry : BOOLEAN,
        confirm : BOOLEAN,
        puts : UNION {[S -> {"empty", "value"}] : S \in SUBSET Refs},
        drops : SUBSET Refs,
        clears : SUBSET Refs,
        forget : SUBSET Aliases]

NoJob == [op |-> "none", mem |-> Truncated, mode |-> "full", retry |-> FALSE,
          confirm |-> FALSE, puts |-> NoPuts, drops |-> {}, clears |-> {},
          forget |-> {}]

JobOf(op, mem, mode) == [NoJob EXCEPT !.op = op, !.mem = mem, !.mode = mode]

\* gateway config:init wrote the files: every row has its variables, a provider
\* key or URL may still wait for its operator, and at least one model is active.
SecretsOf(c) ==
    {ApiKeyRef[p] : p \in DOMAIN c.providers}
        \cup {BaseUrlRef[p] : p \in {q \in DOMAIN c.providers :
                                        c.providers[q].type = "openai"}}
ClientKeysOf(c) == {GatewayKeyRef[k] : k \in c.clients}

Init ==
    /\ yaml \in GatewayConfig
    /\ SchemaAccepts(yaml)
    /\ ActiveModels(yaml) # {}
    /\ env \in [Refs -> Values]
    /\ \A r \in Refs :
           IF r \in ClientKeysOf(yaml) THEN env[r] = "value"
           ELSE IF r \in SecretsOf(yaml) THEN env[r] # "absent"
           ELSE env[r] = "absent"
    /\ prompts = DOMAIN yaml.models
    /\ backup = Truncated
    /\ pc = "idle"
    /\ job = NoJob
    /\ left = {}
    /\ penv = [r \in Refs |-> "absent"]
    /\ before = [yaml |-> Truncated, env |-> penv]

-----------------------------------------------------------------------------
\* Starting and ending a command

\* A process starts: its environment is what .env holds (bin/gateway-cli.ts loads
\* it first), and the job is what the manager's checks let through. A command
\* those checks refuse ends without having touched a file.
Start(j, newPrompts) ==
    /\ pc = "idle"
    /\ job' = j
    /\ left' = DOMAIN j.puts
    /\ pc' = "put"
    /\ prompts' = prompts \cup newPrompts
    /\ penv' = env
    /\ before' = [yaml |-> yaml, env |-> env]
    /\ UNCHANGED <<yaml, env, backup>>

\* A command of the managers first loads the YAML through the schema.
StartLoaded(j, newPrompts) == SchemaAccepts(yaml) /\ Start(j, newPrompts)

\* The copy of a truncated file stays in backup/; copies of whole files are left
\* out, unless the file is being written.
CopyOfTruncated ==
    /\ backup' = IF yaml = Truncated THEN backup ELSE Truncated
    /\ UNCHANGED yaml

\* What a process leaves behind when it ends: nothing in memory.
Ended ==
    /\ pc' = "idle"
    /\ job' = NoJob
    /\ left' = {}
    /\ penv' = [r \in Refs |-> "absent"]
    /\ before' = [yaml |-> Truncated, env |-> penv']
    /\ CopyOfTruncated

-----------------------------------------------------------------------------
\* The commands: the inputs their prompts or answer files let through, and the
\* job the manager makes of one

\* A native adapter asks for a key, an OpenAI one for a base URL and perhaps a
\* key; deferring leaves both empty. Answer files always defer.
AddProviderInputs ==
    {i \in [id : Providers, type : Types, enabled : BOOLEAN,
            apiKey : {"empty", "value"}, baseUrl : {"empty", "value"},
            models : SUBSET Aliases] :
        \/ i.baseUrl = "empty" /\ (i.apiKey = "empty" \/ i.type = "native")
        \/ i.baseUrl = "value" /\ i.type = "openai"}

\* collectAddProviderPendingSecrets finds something the operator is to paste.
AwaitsSecrets(i) ==
    IF i.type = "openai" THEN i.baseUrl = "empty" ELSE i.apiKey = "empty"

\* The variables a provider row of this type refers to.
RefsOfProvider(p, type) ==
    {ApiKeyRef[p]} \cup (IF type = "openai" THEN {BaseUrlRef[p]} ELSE {})

ProviderIsNew(p) == p \notin DOMAIN yaml.providers

applyAddProvider(i) ==
    /\ ProviderIsNew(i.id)
    /\ hasModelsForInstance(yaml, i.id) \/ i.models # {}
    /\ i.models \cap DOMAIN yaml.models = {}
    /\ LET c == [yaml EXCEPT
                    !.providers = With(@, {i.id}, [type |-> i.type,
                                                   enabled |-> i.enabled]),
                    !.models = With(@, i.models, [provider |-> i.id,
                                                  fallback |-> "none"])]
           mode == IF AwaitsSecrets(i) THEN "soft" ELSE "full"
       IN  StartLoaded(
               [JobOf("provider:add", c, mode) EXCEPT
                   !.puts = [r \in RefsOfProvider(i.id, i.type) |->
                                IF r = ApiKeyRef[i.id] THEN i.apiKey
                                                       ELSE i.baseUrl]],
               i.models)

ProviderAddCommand == \E i \in AddProviderInputs : applyAddProvider(i)

\* Removing takes the linked models along. When p is the only active instance a
\* refusal is answered by a second, unchecked write.
applyRemoveProvider(p) ==
    /\ p \in DOMAIN yaml.providers
    /\ LET c == [yaml EXCEPT !.providers = Without(@, {p}),
                            !.models = Without(@, ModelsOf(yaml, p))]
       IN  StartLoaded(
               [JobOf("provider:remove", c, "full") EXCEPT
                   !.confirm = TRUE,
                   !.retry = (Enabled(yaml) = {p}),
                   !.drops = RefsOfProvider(p, yaml.providers[p].type)],
               {})

ProviderRemoveCommand == \E p \in Providers : applyRemoveProvider(p)

\* Answer files may ask to switch an instance and to clear its key at once.
EditProviderInputs ==
    [id : Providers, action : {"enabled"}, enabled : BOOLEAN,
     confirmNonBootable : BOOLEAN, rotateSecret : BOOLEAN]

\* Fault: nobody is asked.
FaultConsents(dark, i) == TRUE

Consents(dark, i) == dark => i.confirmNonBootable

applyEditProvider(i) ==
    /\ i.id \in DOMAIN yaml.providers
    /\ i.enabled => hasModelsForInstance(yaml, i.id)
    /\ LET dark == ~i.enabled /\ activeAfterDisabling(yaml, i.id) = {}
           c == [yaml EXCEPT !.providers[i.id].enabled = i.enabled]
       IN  /\ Consents(dark, i)
           /\ StartLoaded(
                  [JobOf("provider:edit", c, IF dark THEN "skip" ELSE "full")
                   EXCEPT !.confirm = i.confirmNonBootable,
                          !.clears = IF i.rotateSecret THEN {ApiKeyRef[i.id]}
                                                       ELSE {}],
                  {})

\* A job that only writes one variable.
EnvJob(op, r, v) ==
    [JobOf(op, Truncated, "envOnly") EXCEPT !.puts = [x \in {r} |-> v]]

\* Actions "apiKey" and "clearApiKey" write .env and nothing else.
RotateApiKey(p, v) ==
    /\ p \in DOMAIN yaml.providers
    /\ StartLoaded(EnvJob("provider:edit", ApiKeyRef[p], v), {})

ProviderEditCommand ==
    \/ \E i \in EditProviderInputs : applyEditProvider(i)
    \/ \E p \in Providers, v \in {"empty", "value"} : RotateApiKey(p, v)

\* The prompt files are written while the models are added in memory, before
\* anything is checked.
applyAddModel(S, p) ==
    /\ p \in DOMAIN yaml.providers
    /\ S \cap DOMAIN yaml.models = {}
    /\ StartLoaded(
           JobOf("model:add",
                 [yaml EXCEPT !.models = With(@, S, [provider |-> p,
                                                     fallback |-> "none"])],
                 "full"),
           S)

ModelAddCommand ==
    \E S \in (SUBSET Aliases) \ {{}}, p \in Providers : applyAddModel(S, p)

\* "keep" leaves a field alone; the fields that are not modelled (model id,
\* streaming, policy) are an edit that keeps both.
EditModelInputs ==
    [alias : Aliases, providerInstance : Providers \cup {"keep"},
     fallback : Aliases \cup {"none", "keep"}, confirmNonBootable : BOOLEAN]

TargetInstance(i, cur) ==
    IF i.providerInstance = "keep" THEN cur.provider ELSE i.providerInstance

applyEditModel(i) ==
    /\ i.alias \in DOMAIN yaml.models
    /\ LET cur == yaml.models[i.alias]
           to == TargetInstance(i, cur)
           strands == to # cur.provider
                        /\ isLastModelForEnabledProvider(yaml, i.alias)
           fb == IF i.fallback = "keep" THEN cur.fallback ELSE i.fallback
           c == [yaml EXCEPT !.models[i.alias] = [provider |-> to,
                                                  fallback |-> fb]]
       IN  /\ strands => i.confirmNonBootable
           /\ i.fallback \in Aliases =>
                  /\ i.fallback # i.alias
                  /\ i.fallback \in DOMAIN yaml.models
                  /\ yaml.models[i.fallback].fallback # i.alias
           /\ StartLoaded(
                  [JobOf("model:edit", c, IF strands THEN "skip" ELSE "full")
                   EXCEPT !.confirm = i.confirmNonBootable],
                  {})

ModelEditCommand == \E i \in EditModelInputs : applyEditModel(i)

applyRemoveModel(a) ==
    /\ a \in DOMAIN yaml.models
    /\ LET last == isLastModelInConfig(yaml, a)
                     \/ isLastModelForEnabledProvider(yaml, a)
       IN  StartLoaded(
               [JobOf("model:remove", [yaml EXCEPT !.models = Without(@, {a})],
                      IF last THEN "skip" ELSE "full")
                EXCEPT !.confirm = TRUE, !.forget = {a}],
               {})

ModelRemoveCommand == \E a \in Aliases : applyRemoveModel(a)

\* Fault: a client that exists is added again.
FaultClientIsNew(k) == TRUE

ClientIsNew(k) == k \notin yaml.clients

applyAddClient(k) ==
    /\ ClientIsNew(k)
    /\ StartLoaded(
           [JobOf("client:add", [yaml EXCEPT !.clients = @ \cup {k}], "full")
            EXCEPT !.puts = [r \in {GatewayKeyRef[k]} |-> "value"]],
           {})

ClientAddCommand == \E k \in Clients : applyAddClient(k)

applyRemoveClient(k) ==
    /\ k \in yaml.clients
    /\ StartLoaded(
           [JobOf("client:remove", [yaml EXCEPT !.clients = @ \ {k}], "full")
            EXCEPT !.confirm = TRUE, !.drops = {GatewayKeyRef[k]}],
           {})

ClientRemoveCommand == \E k \in Clients : applyRemoveClient(k)

\* Name, type and rate limit are not modelled: such an edit writes the rows it
\* read. Rotating the key writes .env only.
applyEditClient(k, rotateKey) ==
    /\ k \in yaml.clients
    /\ StartLoaded(IF rotateKey
                   THEN EnvJob("client:edit", GatewayKeyRef[k], "value")
                   ELSE JobOf("client:edit", yaml, "full"), {})

ClientEditCommand ==
    \E k \in Clients, rotateKey \in BOOLEAN : applyEditClient(k, rotateKey)

\* key:generate --write-env does not load the YAML: the id need not be a client.
KeyGenerateCommand ==
    \E k \in Clients : Start(EnvJob("key", GatewayKeyRef[k], "value"), {})

-----------------------------------------------------------------------------
\* The steps a command takes on the files

\* Of the variables of one phase the API key comes before the base URL.
InOrder(r) ==
    LET keys == left \cap {ApiKeyRef[p] : p \in Providers}
    IN  r \in left /\ (r \in keys \/ keys = {})

SetVar(r, v) == env' = [env EXCEPT ![r] = v]

\* EnvPatchService.setVar, before the YAML is persisted.
PutVar ==
    \E r \in left :
        /\ pc = "put" /\ InOrder(r)
        /\ SetVar(r, job.puts[r])
        /\ left' = left \ {r}
        /\ UNCHANGED <<yaml, prompts, backup, pc, job, penv, before>>

\* A command that only writes .env is done.
EnvWritten ==
    /\ pc = "put" /\ left = {} /\ job.mode = "envOnly"
    /\ Ended
    /\ UNCHANGED <<env, prompts>>

ReadsEnv == penv' = IF job.mode = "skip" THEN penv ELSE DotenvLoad

\* persistConfig: the checks pass and the file is copied to backup/. The copy of a
\* file the first attempt left truncated has a time, and a name, of its own.
BackupFile ==
    /\ pc = "put" /\ left = {} /\ job.mode # "envOnly"
    /\ ReadsEnv
    /\ PersistAccepts(job.mem, job.mode, penv')
    /\ backup' = IF yaml = Truncated THEN backup ELSE yaml
    /\ pc' = "write"
    /\ UNCHANGED <<yaml, env, prompts, job, left, before>>

\* Fault: the error of an add reaches its command without the catch block.
FaultNotUndone ==
    /\ CopyOfTruncated
    /\ \/ /\ job.retry
          /\ job' = [job EXCEPT !.mode = "skip", !.retry = FALSE]
          /\ pc' = "put"
          /\ UNCHANGED left
       \/ /\ ~job.retry
          /\ pc' = "undo"
          /\ left' = {}
          /\ UNCHANGED job

\* The manager's answer to an error of persistConfig: provider:remove of the only
\* active instance tries again unchecked, any other command gives up, the two
\* that wrote .env first after they have rolled it back.
Caught ==
    /\ CopyOfTruncated
    /\ \/ /\ job.retry
          /\ job' = [job EXCEPT !.mode = "skip", !.retry = FALSE]
          /\ pc' = "put"
          /\ UNCHANGED left
       \/ /\ ~job.retry
          /\ pc' = "undo"
          /\ left' = DOMAIN job.puts
          /\ UNCHANGED job

\* persistConfig throws before it touches the file, because a check refuses or
\* because the copy cannot be made (any configuration).
PersistThrows ==
    /\ pc = "put" /\ left = {} /\ job.mode # "envOnly"
    /\ ReadsEnv
    /\ Caught
    /\ UNCHANGED <<env, prompts, before>>

\* fs.writeFile truncates the file before it writes it.
TruncateYaml ==
    /\ pc = "write"
    /\ yaml' = Truncated
    /\ pc' = "writing"
    /\ UNCHANGED <<env, prompts, backup, job, left, penv, before>>

\* fs.writeFile rejects: the file could not be opened, or it was and is truncated.
WriteFails ==
    /\ pc \in {"write", "writing"}
    /\ Caught
    /\ UNCHANGED <<env, prompts, penv, before>>

\* The file is whole, its copy no longer needed.
WriteYaml ==
    /\ pc = "writing"
    /\ yaml' = job.mem
    /\ backup' = Truncated
    /\ pc' = "finish"
    /\ left' = job.drops \cup job.clears
    /\ UNCHANGED <<env, prompts, job, penv, before>>

\* removeVar of a removed row's variables, setVar('') of a key to be replaced.
FinishVar ==
    \E r \in left :
        /\ pc = "finish" /\ InOrder(r)
        /\ SetVar(r, IF r \in job.drops THEN "absent" ELSE "empty")
        /\ left' = left \ {r}
        /\ UNCHANGED <<yaml, prompts, backup, pc, job, penv, before>>

\* deleteModelPrompt swallows its errors; then the command reports success.
Finish ==
    /\ pc = "finish" /\ left = {}
    /\ prompts' \in {prompts, prompts \ job.forget}
    /\ Ended
    /\ UNCHANGED env

\* The catch block of applyAddProvider and of applyAddClient.
UndoVar ==
    \E r \in left :
        /\ pc = "undo" /\ InOrder(r)
        /\ SetVar(r, "absent")
        /\ left' = left \ {r}
        /\ UNCHANGED <<yaml, prompts, backup, pc, job, penv, before>>

\* The error reaches the command's catch block, which reports it and exits.
Rethrow ==
    /\ pc = "undo" /\ left = {}
    /\ Ended
    /\ UNCHANGED <<env, prompts>>

\* The process is killed between two steps, or inside the write of the YAML.
Crash ==
    /\ pc # "idle"
    /\ Ended
    /\ UNCHANGED <<env, prompts>>

\* The operator fills in a variable that was left empty for them.
PasteSecret ==
    \E r \in Refs :
        /\ pc = "idle" /\ env[r] = "empty"
        /\ SetVar(r, "value")
        /\ UNCHANGED <<yaml, prompts, backup, pc, job, left, penv, before>>

\* The operator copies the backup over a file a kill or an error left truncated.
RestoreBackup ==
    /\ pc = "idle" /\ yaml = Truncated
    /\ yaml' = backup
    /\ backup' = Truncated
    /\ UNCHANGED <<env, prompts, pc, job, left, penv, before>>

Command ==
    \/ ProviderAddCommand \/ ProviderRemoveCommand \/ ProviderEditCommand
    \/ ModelAddCommand \/ ModelEditCommand \/ ModelRemoveCommand
    \/ ClientAddCommand \/ ClientRemoveCommand \/ ClientEditCommand
    \/ KeyGenerateCommand

FileStep ==
    \/ PutVar \/ EnvWritten \/ BackupFile \/ PersistThrows \/ TruncateYaml
    \/ WriteFails \/ WriteYaml \/ FinishVar \/ Finish \/ UndoVar \/ Rethrow

Operator == PasteSecret \/ RestoreBackup

Next == Command \/ FileStep \/ Crash \/ Operator

Spec == Init /\ [][Next]_vars

-----------------------------------------------------------------------------
\* Properties

\* Type correctness of the files and of the running command (cli/services).
TypeOK ==
    /\ yaml \in GatewayConfig /\ backup \in GatewayConfig
    /\ env \in [Refs -> Values] /\ penv \in [Refs -> Values]
    /\ prompts \subseteq Aliases
    /\ pc \in {"idle", "put", "write", "writing", "finish", "undo"}
    /\ job \in Job
    /\ left \subseteq Refs
    /\ before \in [yaml : GatewayConfig, env : [Refs -> Values]]

\* The variables one id at most derives. The schema refuses two providers with one
\* API key, and nothing else (gateway-config.schema.ts).
Unshared ==
    {r \in Refs :
        LET ProvidersOf == {p \in Providers : r \in {ApiKeyRef[p], BaseUrlRef[p]}}
            ClientsOf == {k \in Clients : r = GatewayKeyRef[k]}
        IN  /\ ProvidersOf = {} \/ ClientsOf = {}
            /\ \A p, q \in ProvidersOf : p = q
            /\ \A k, l \in ClientsOf : k = l}

\* The configuration the operator has: the file, or its backup after a write that
\* was cut short.
Current == IF yaml = Truncated THEN backup ELSE yaml

\* Whatever command ran, failed or was killed where, there is a configuration the
\* next command and the server can load: the file passes the schema, and a
\* truncated file has a backup that does (persistConfig, backupFile).
AlwaysLoads == SchemaAccepts(Current)

\* A row never loses a variable only its id derives, nor its prompt, not even
\* between the writes of several files: add writes .env and the prompt first,
\* remove deletes them last and only after a removal that was saved
\* (applyAddProvider, applyRemoveClient, deleteModelPrompt ...). A variable two
\* ids derive a row can lose: the refused add of the other id deletes it.
RowsKeepTheirNeeds ==
    /\ \A r \in SecretsOf(Current) \cap Unshared : env[r] # "absent"
    /\ \A r \in ClientKeysOf(Current) \cap Unshared : env[r] = "value"
    /\ DOMAIN Current.models \subseteq prompts

\* A configuration with active models is replaced by one without any only by a
\* provider command the operator confirmed; the confirmations of model:edit and
\* model:remove can never have that effect.
GoesDarkOnlyByConsent ==
    [][(/\ pc = "writing" /\ pc' = "finish"
        /\ ActiveModels(backup) # {} /\ ActiveModels(yaml') = {})
       => job.confirm /\ job.op \in {"provider:edit", "provider:remove"}]_vars

\* A configuration that was checked in full is one the server boots with from the
\* .env of that moment, although the check read the environment of its own
\* process, loaded before the command wrote .env and never overridden
\* (persistConfig). A key that provider:edit clears afterwards is another matter.
AcceptedMeansBootable ==
    [][(pc = "writing" /\ pc' = "finish" /\ job.mode = "full")
       => EffectiveAccepts(yaml', env', FALSE)]_vars

\* A command about to report an error, of a check, of the copy or of the write, has
\* changed no configuration (a write that failed half way leaves it in the backup)
\* and no variable but those named after its own id, which its catch block has
\* deleted; of the rows' variables these are none, unless two ids derive one.
RejectedIsNoOp ==
    pc = "undo" /\ left = {} =>
        /\ Current = before.yaml
        /\ \A r \in Refs : env[r] # before.env[r] =>
               r \in DOMAIN job.puts /\ env[r] = "absent"
        /\ \A r \in Unshared \cap (SecretsOf(before.yaml)
                                   \cup ClientKeysOf(before.yaml)) :
               env[r] = before.env[r]
=============================================================================
