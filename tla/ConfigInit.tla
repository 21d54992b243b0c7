----------------------------- MODULE ConfigInit -----------------------------
\* gateway config:init (src/cli/commands/config/config-init.command.ts): the
\* interactive wizard and the agent mode that answers it from a file. A session
\* collects five answers, saving its progress after each of them, and then
\* writes gateway.config.yaml, .env.example, .env and the prompt files. The
\* process may be killed between two steps and inside every write; a write may
\* also fail; the next run finds whatever is on the disk. The environment of a
\* process is fixed when it starts: what the shell exports, then what .env holds.
EXTENDS Naturals, Sequences, SequencesExt

CONSTANTS
    Absent, Torn, Mine, Boilerplate,    \* contents of a file, see Content
    Types,          \* adapter types, in the order of the selection list
    OpenAi,         \* isOpenAiProviderType: they need a base URL, the others a key
    Ids,            \* provider instance ids an operator may type
    ApiKeyRef,      \* deriveApiKeyRef: id -> variable
    BaseUrlRef,     \* deriveBaseUrlRef: id -> variable
    Aliases,        \* model aliases
    Clients,        \* client ids
    OptionalKeys,   \* whether the optional key of an OpenAI type is typed: a set
    ServerChoices,  \* answers to the server step: sets of what is switched on
    AgentAnswers,   \* the answers files in use
    Operators,      \* what a shell may export and a .env of their own may hold
    OwnPrompts,     \* which prompt files the operator has written: sets of them
    MaxSessions,    \* bound on the sessions started
    MaxCrashes,     \* bound on killed processes and failed writes
    MaxAttempts     \* maxAttempts of validateAndFixConfig

\* Variables of the environment other than the secrets of the providers: the
\* switches that call for Redis (CACHE_ENABLED, CACHE_BACKEND,
\* RATE_LIMIT_SMART_ENABLED, SEMANTIC_CACHE_ENABLED), the master key, and one of
\* the numbers validateEnvironment reads always and one it reads for Redis only.
Switches == {"cache", "redis", "smart", "semantic"}
Settings == Switches \cup {"MASTER_KEY", "CACHE_TTL", "REDIS_PORT"}
Secrets == {ApiKeyRef[i] : i \in Ids} \cup {BaseUrlRef[i] : i \in Ids}

\* An environment: the variables that are set, and those among them whose value
\* is of use: a secret that is not empty, a number that is one, a switch that is on.
Env == {e \in [names : SUBSET (Settings \cup Secrets),
               good : SUBSET (Settings \cup Secrets)] : e.good \subseteq e.names}

\* Both variables of a provider come from one slug of its id, "a-b" and "a_b"
\* have the same. The names of the files and of the master prompt are no aliases:
\* the prompt of an alias is a path of its own, models/<alias>.md.
ASSUME InitAssumption ==
    /\ DOMAIN ApiKeyRef = Ids /\ DOMAIN BaseUrlRef = Ids
    /\ \A i, j \in Ids : BaseUrlRef[i] = BaseUrlRef[j] => ApiKeyRef[i] = ApiKeyRef[j]
    /\ \A i, j \in Ids : ApiKeyRef[i] # BaseUrlRef[j]
    /\ Settings \cap Secrets = {}
    /\ Types \in Seq(ToSet(Types))
    /\ OptionalKeys \subseteq BOOLEAN
    /\ Operators \subseteq [shell : Env, own : Env]
    /\ Absent \notin {Torn, Mine, Boilerplate}
    /\ Torn \notin {Mine, Boilerplate} /\ Mine # Boilerplate
    /\ {Absent, Torn, Mine, Boilerplate} \cap Nat = {}
    /\ \A c \in ServerChoices : c \subseteq {"cache", "redis", "smart"}
    /\ Aliases \cap {"master", "yaml", "example", "env"} = {}
    /\ MaxSessions \in Nat /\ MaxCrashes \in Nat /\ MaxAttempts \in Nat \ {0}

VARIABLES
    disk,       \* gateway.config.yaml, .env.example and .env
    prompts,    \* the prompt files: the master's and one per alias
    backups,    \* copies under backup/, never removed
    saved,      \* .gateway-wizard-state.json
    wiz,        \* the running process's WizardState
    pc,         \* where the running process is
    job,        \* flags of the running process
    attempts,   \* validations made by validateAndFixConfig
    last,       \* sessions started so far
    made,       \* the answers each session wrote to the disk
    fixed,      \* sessions whose YAML the operator repaired by hand
    finished,   \* configurations that were reported usable
    report,     \* how the last process ended
    crashes,    \* killed processes and failed writes so far
    operator,   \* the shell config:init runs in and the .env found at first
    penv        \* process.env of the running process

vars == <<disk, prompts, backups, saved, wiz, pc, job, attempts, last, made,
          fixed, finished, report, crashes, operator, penv>>

-----------------------------------------------------------------------------
\* What is on the disk. A file holds the operator's own content, what a session
\* wrote (its number), or what a write that was cut short left of it.

Files == {"yaml", "example", "env"}
PromptFiles == {"master"} \cup Aliases
Sessions == 1 .. MaxSessions

\* The steps of the wizard, in order.
WIZARD_INIT_STEPS ==
    <<"master-key", "providers", "models", "clients", "server-config">>
Steps == ToSet(WIZARD_INIT_STEPS)

\* A provider of the answers, with the variables its operator typed a value for.
Provider ==
    [type : ToSet(Types), id : Ids, enabled : BOOLEAN, typed : SUBSET Secrets]
Model == [alias : Aliases, provider : Ids]

\* The variables .env has for a provider, and the one it cannot do without.
Refs(p) ==
    {ApiKeyRef[p.id]} \cup (IF p.type \in OpenAi THEN {BaseUrlRef[p.id]} ELSE {})
Needs(p) == IF p.type \in OpenAi THEN BaseUrlRef[p.id] ELSE ApiKeyRef[p.id]

\* WizardState.data: an answer that was not given yet is empty.
NoData == [masterKey |-> FALSE, providers |-> <<>>, models |-> <<>>, clients |-> {},
           server |-> {}]
NoFiles == [created |-> {}, backedUp |-> {}]
NoWizard == [id |-> 0, completed |-> {}, data |-> NoData, files |-> NoFiles]
NewWizard(s) == [NoWizard EXCEPT !.id = s]

\* What a step leaves in data.
Answered(d, step) ==
    CASE step = "master-key"    -> d.masterKey
      [] step = "providers"     -> d.providers # <<>>
      [] step = "models"        -> d.models # <<>>
      [] step = "clients"       -> d.clients # {}
      [] step = "server-config" -> d.server # {}

\* Object.fromEntries keeps one row per id and per alias, the last one.
Rows(d) ==
    {d.providers[i] : i \in {k \in DOMAIN d.providers :
        \A j \in DOMAIN d.providers : d.providers[j].id = d.providers[k].id => j <= k}}
ModelRows(d) ==
    {d.models[i] : i \in {k \in DOMAIN d.models :
        \A j \in DOMAIN d.models : d.models[j].alias = d.models[k].alias => j <= k}}
Enabled(d) == {p \in Rows(d) : p.enabled}

\* isRedisRequired.
RedisRequired(on) ==
    \/ {"cache", "redis"} \subseteq on
    \/ "smart" \in on
    \/ "semantic" \in on
WritesRedis(d) == RedisRequired(d.server)

\* generateEnvTemplate: of two providers with one variable the later one sets it,
\* to nothing if nothing was typed. SEMANTIC_CACHE_ENABLED is not written.
EnvOf(d) ==
    LET numbers == {"MASTER_KEY", "CACHE_TTL"}
                       \cup (IF WritesRedis(d) THEN {"REDIS_PORT"} ELSE {})
        written == Switches \ {"semantic"}
        P == d.providers
    IN  [names |-> numbers \cup written \cup UNION {Refs(P[i]) : i \in DOMAIN P},
         good |-> numbers \cup (d.server \cap written)
                    \cup UNION {{v \in P[i].typed \cap Refs(P[i]) :
                                    \A j \in DOMAIN P : i < j => v \notin Refs(P[j])} :
                                i \in DOMAIN P}]

\* dotenv without override: a variable that is set keeps its value, an empty one
\* too.
Merge(env, file) ==
    [names |-> env.names \cup file.names,
     good |-> env.good \cup (file.good \ env.names)]

\* validateGatewayConfig up to the environment: the schema (one variable per
\* provider, every model of a known provider), an active model, and one for every
\* enabled provider.
Structured(d) ==
    /\ \A p, q \in ToSet(d.providers) :
           ApiKeyRef[p.id] = ApiKeyRef[q.id] => p.id = q.id
    /\ \A m \in ModelRows(d) : \E p \in Rows(d) : p.id = m.provider
    /\ \A p \in Enabled(d) : \E m \in ModelRows(d) : m.provider = p.id
    /\ \E m \in ModelRows(d) : \E p \in Enabled(d) : p.id = m.provider

\* validateEnvironment: a number that is set is one.
EnvironmentValid(env) ==
    /\ "CACHE_TTL" \in env.names => "CACHE_TTL" \in env.good
    /\ RedisRequired(env.good) /\ "REDIS_PORT" \in env.names => "REDIS_PORT" \in env.good

\* CliGatewayValidatorService.validate in the environment env; the agent does not
\* ask for the secrets of the providers (allowMissingProviderSecrets).
Validates(d, env, allowMissing) ==
    /\ Structured(d)
    /\ "MASTER_KEY" \in env.good
    /\ allowMissing \/ \A p \in Enabled(d) : Needs(p) \in env.good
    /\ EnvironmentValid(env)

-----------------------------------------------------------------------------
\* Running and ending

NoEnv == [names |-> {}, good |-> {}]
NoJob == [agent |-> FALSE, force |-> FALSE, answers |-> NoData]

Init ==
    /\ \/ \E y \in {Absent, Boilerplate}, e \in {Absent, Mine} :
              disk = [yaml |-> y, example |-> Absent, env |-> e]
       \/ disk = [yaml |-> Mine, example |-> Absent, env |-> Mine]
    /\ \E own \in OwnPrompts :
           prompts = [f \in PromptFiles |-> IF f \in own THEN Mine ELSE Absent]
    /\ backups = {}
    /\ saved = NoWizard
    /\ wiz = NoWizard
    /\ pc = "idle"
    /\ job = NoJob
    /\ attempts = 0
    /\ last = 0
    /\ made = [s \in Sessions |-> NoData]
    /\ fixed = {}
    /\ finished = IF disk.yaml = Mine THEN {Mine} ELSE {}
    /\ report = "none"
    /\ crashes = 0
    /\ operator \in Operators
    /\ penv = NoEnv

\* What a process leaves behind in memory when it ends.
Ended(how) ==
    /\ pc' = "idle"
    /\ wiz' = NoWizard
    /\ job' = NoJob
    /\ attempts' = 0
    /\ penv' = NoEnv
    /\ report' = how

\* What a process may find in .env: the operator's own, what a session wrote, or
\* that with every secret pasted in since.
FileEnvs ==
    CASE disk.env = Mine -> {operator.own}
      [] disk.env \in Sessions ->
            LET e == EnvOf(made[disk.env])
            IN  {e, [e EXCEPT !.good = @ \cup (e.names \cap Secrets)]}
      [] OTHER -> {NoEnv}

\* import 'dotenv/config': before anything else of the process.
LoadEnv == penv' \in {Merge(operator.shell, e) : e \in FileEnvs}
SemanticOn(env) == {"semantic"} \cap env.good

configured == disk.yaml \notin {Absent, Boilerplate}

\* runInteractiveInit, up to the backup.
StartInteractive ==
    /\ pc = "idle"
    /\ job' = NoJob
    /\ \/ /\ pc' = IF configured THEN "backupYaml" ELSE "load"
          /\ report' = "running"
          /\ LoadEnv
       \/ /\ configured
          /\ report' = "cancelled"
          /\ UNCHANGED <<pc, penv>>
    /\ UNCHANGED <<disk, prompts, backups, saved, wiz, attempts, last, made,
                   fixed, finished, crashes, operator>>

\* InitAnswersSchema: at least one provider, model and client, no secret, and
\* models of providers the file names. Ids, slugs, types and aliases may repeat.
InitAnswers ==
    {d \in [masterKey : {TRUE}, providers : Seq({p \in Provider : p.typed = {}}),
            models : Seq(Model), clients : SUBSET Clients,
            server : {{"port"} \cup c : c \in ServerChoices}] :
        /\ d.providers # <<>> /\ d.models # <<>> /\ d.clients # {}
        /\ \A m \in ToSet(d.models) : \E p \in ToSet(d.providers) : p.id = m.provider}

\* runAgentInit, up to the backup; an answers file that overwrites says so
\* itself or leaves it to --force. mapServerConfigFromAnswers takes the semantic
\* cache from the environment.
StartAgent(answers, force, overwrite) ==
    /\ pc = "idle"
    /\ IF configured /\ ~overwrite /\ ~force
       THEN /\ report' = "refused"
            /\ UNCHANGED <<job, pc, penv>>
       ELSE /\ report' = "running"
            /\ LoadEnv
            /\ job' = [agent |-> TRUE, force |-> force,
                       answers |-> [answers EXCEPT !.server = @ \cup SemanticOn(penv')]]
            /\ pc' = IF configured THEN "backupYaml" ELSE "load"
    /\ UNCHANGED <<disk, prompts, backups, saved, wiz, attempts, last, made,
                   fixed, finished, crashes, operator>>

\* Fault: only the YAML is copied.
FaultBackupYamlOnly ==
    /\ pc = "backupYaml"
    /\ backups' = backups \cup {<<"yaml", disk.yaml>>}
    /\ pc' = "load"
    /\ UNCHANGED <<disk, prompts, saved, wiz, job, attempts, last, made, fixed,
                   finished, report, crashes, operator, penv>>

BackupYaml ==
    /\ pc = "backupYaml"
    /\ backups' = backups \cup {<<"yaml", disk.yaml>>}
    /\ pc' = IF disk.env # Absent THEN "backupEnv" ELSE "load"
    /\ UNCHANGED <<disk, prompts, saved, wiz, job, attempts, last, made, fixed,
                   finished, report, crashes, operator, penv>>

BackupEnv ==
    /\ pc = "backupEnv"
    /\ backups' = backups \cup {<<"env", disk.env>>}
    /\ pc' = "load"
    /\ UNCHANGED <<disk, prompts, saved, wiz, job, attempts, last, made, fixed,
                   finished, report, crashes, operator, penv>>

-----------------------------------------------------------------------------
\* The session: a saved one is resumed or given up, otherwise a new one begins

\* rollback: the files the state names are removed, the backups it names copied
\* back, and the state file goes. Backups under the names of the files.
Unlinked(f, w) == f \in w.files.created
RollbackDisk(w) ==
    [f \in Files |->
        IF \E b \in w.files.backedUp : b[1] = f
        THEN (CHOOSE b \in w.files.backedUp : b[1] = f)[2]
        ELSE IF Unlinked(f, w) THEN Absent ELSE disk[f]]
RollbackPrompts(w) ==
    [f \in PromptFiles |-> IF Unlinked(f, w) THEN Absent ELSE prompts[f]]

\* A state file cut short is no JSON: loadState throws, whatever the flags say.
LoadTornState ==
    /\ pc = "load"
    /\ saved = [NoWizard EXCEPT !.id = Torn]
    /\ Ended("unreadable state")
    /\ UNCHANGED <<disk, prompts, backups, saved, last, made, fixed, finished,
                   crashes, operator>>

\* A new session; the agent's answers are all there at once and never saved.
NewSession(s) ==
    IF job.agent
    THEN [NewWizard(s) EXCEPT !.completed = Steps, !.data = job.answers]
    ELSE NewWizard(s)

LoadNoState ==
    /\ pc = "load"
    /\ saved = NoWizard
    /\ last < MaxSessions
    /\ last' = last + 1
    /\ wiz' = NewSession(last + 1)
    /\ pc' = IF job.agent THEN "writeYaml" ELSE "step"
    /\ UNCHANGED <<disk, prompts, backups, saved, job, attempts, made, fixed,
                   finished, report, crashes, operator, penv>>

ResumeSession ==
    /\ pc = "load"
    /\ ~job.agent
    /\ saved.id \in Sessions
    /\ wiz' = saved
    /\ pc' = "step"
    /\ UNCHANGED <<disk, prompts, backups, saved, job, attempts, last, made,
                   fixed, finished, report, crashes, operator, penv>>

\* The operator rejects the resume, or an agent comes with --force.
RejectSession ==
    /\ pc = "load"
    /\ job.agent => job.force
    /\ saved.id \in Sessions
    /\ disk' = RollbackDisk(saved)
    /\ prompts' = RollbackPrompts(saved)
    /\ saved' = NoWizard
    /\ UNCHANGED <<backups, wiz, pc, job, attempts, last, made, fixed,
                   finished, report, crashes, operator, penv>>

\* An agent without --force leaves the session to its operator.
RefuseSession ==
    /\ pc = "load"
    /\ job.agent /\ ~job.force
    /\ saved.id \in Sessions
    /\ Ended("refused")
    /\ UNCHANGED <<disk, prompts, backups, saved, last, made, fixed, finished,
                   crashes, operator>>

-----------------------------------------------------------------------------
\* The steps of the wizard

\* The first step that is not completed.
Pending(w) ==
    {WIZARD_INIT_STEPS[i] : i \in
        {j \in DOMAIN WIZARD_INIT_STEPS :
            /\ WIZARD_INIT_STEPS[j] \notin w.completed
            /\ \A k \in 1 .. j - 1 : WIZARD_INIT_STEPS[k] \in w.completed}}

\* promptProviders: at least one type, in the order of the list; for each an id
\* and the secret it needs, for the OpenAI types the key as well if there is one.
Position(p) == CHOOSE i \in DOMAIN Types : Types[i] = p.type
PromptedProviders ==
    {p \in Provider :
        /\ p.enabled
        /\ \E key \in OptionalKeys : p.typed = IF key THEN Refs(p) ELSE {Needs(p)}}
ProviderAnswers ==
    {s \in SeqOf(PromptedProviders, Len(Types)) :
        /\ s # <<>>
        /\ \A i, j \in DOMAIN s : i < j => Position(s[i]) < Position(s[j])}

\* promptModels: per provider a model or none, under an alias of its own.
ModelAnswers(providers) ==
    {s \in SeqOf(Model, Len(providers)) :
        /\ s # <<>>
        /\ \A i, j \in DOMAIN s : s[i].alias = s[j].alias => i = j
        /\ \E of \in [DOMAIN s -> DOMAIN providers] :
               /\ \A i \in DOMAIN s : s[i].provider = providers[of[i]].id
               /\ \A i, j \in DOMAIN s : i < j => of[i] < of[j]}

\* promptServerConfig: a cache that is off has no backend, and the semantic cache
\* is what process.env says.
ServerAnswers ==
    {{"port"} \cup (IF "cache" \in c THEN c ELSE c \ {"redis"})
              \cup SemanticOn(penv) :
        c \in ServerChoices}

StepAnswers(step, d) ==
    CASE step = "master-key"    -> {[d EXCEPT !.masterKey = TRUE]}
      [] step = "providers"     -> {[d EXCEPT !.providers = p] : p \in ProviderAnswers}
      [] step = "models"        -> {[d EXCEPT !.models = m] :
                                       m \in ModelAnswers(d.providers)}
      [] step = "clients"       -> {[d EXCEPT !.clients = k] :
                                       k \in (SUBSET Clients) \ {{}}}
      [] step = "server-config" -> {[d EXCEPT !.server = v] : v \in ServerAnswers}

\* Fault: a step counts as completed when it starts.
FaultCompletedBeforeAnswer ==
    /\ pc = "step"
    /\ \E step \in Pending(wiz) :
           \E d \in StepAnswers(step, wiz.data) \cup {wiz.data} :
               wiz' = [wiz EXCEPT !.data = d, !.completed = @ \cup {step}]
    /\ pc' = "save"
    /\ UNCHANGED <<disk, prompts, backups, saved, job, attempts, last, made,
                   fixed, finished, report, crashes, operator, penv>>

\* executeStep, up to saveState.
ExecuteStep ==
    /\ pc = "step"
    /\ \E step \in Pending(wiz) :
           \E d \in StepAnswers(step, wiz.data) :
               wiz' = [wiz EXCEPT !.data = d, !.completed = @ \cup {step}]
    /\ pc' = "save"
    /\ UNCHANGED <<disk, prompts, backups, saved, job, attempts, last, made,
                   fixed, finished, report, crashes, operator, penv>>

\* A prompt throws: no model was added, or a number is not one. The progress is
\* saved before the process ends.
StepThrows ==
    /\ pc = "step"
    /\ Pending(wiz) \cap {"models", "clients", "server-config"} # {}
    /\ pc' = "saveFailed"
    /\ UNCHANGED <<disk, prompts, backups, saved, wiz, job, attempts, last,
                   made, fixed, finished, report, crashes, operator, penv>>

SaveState ==
    /\ pc = "save"
    /\ saved' = wiz
    /\ pc' = "step"
    /\ UNCHANGED <<disk, prompts, backups, wiz, job, attempts, last, made,
                   fixed, finished, report, crashes, operator, penv>>

SaveFailedState ==
    /\ pc = "saveFailed"
    /\ saved' = wiz
    /\ Ended("progress saved")
    /\ UNCHANGED <<disk, prompts, backups, last, made, fixed, finished,
                   crashes, operator>>

\* buildResult.
BuildResult ==
    /\ pc = "step"
    /\ Pending(wiz) = {}
    /\ pc' = "writeYaml"
    /\ UNCHANGED <<disk, prompts, backups, saved, wiz, job, attempts, last,
                   made, fixed, finished, report, crashes, operator, penv>>

-----------------------------------------------------------------------------
\* generateFullConfig: existing files are not backed up (backupExisting: false),
\* and a file is noted as created after it was written

WriteYaml ==
    /\ pc = "writeYaml"
    /\ disk' = [disk EXCEPT !.yaml = wiz.id]
    /\ made' = [made EXCEPT ![wiz.id] = wiz.data]
    /\ wiz' = [wiz EXCEPT !.files.created = @ \cup {"yaml"}]
    /\ pc' = "writeExample"
    /\ UNCHANGED <<prompts, backups, saved, job, attempts, last, fixed,
                   finished, report, crashes, operator, penv>>

WriteExample ==
    /\ pc = "writeExample"
    /\ disk' = [disk EXCEPT !.example = wiz.id]
    /\ pc' = "writeEnv"
    /\ UNCHANGED <<prompts, backups, saved, wiz, job, attempts, last, made,
                   fixed, finished, report, crashes, operator, penv>>

WriteEnv ==
    /\ pc = "writeEnv"
    /\ disk' = [disk EXCEPT !.env = wiz.id]
    /\ wiz' = [wiz EXCEPT !.files.created = @ \cup {"example", "env"}]
    /\ pc' = "writePrompts"
    /\ UNCHANGED <<prompts, backups, saved, job, attempts, last, made, fixed,
                   finished, report, crashes, operator, penv>>

\* The master prompt first, then one per model.
WantedPrompts(d) == {"master"} \cup {m.alias : m \in ToSet(d.models)}
MissingPrompts ==
    {f \in WantedPrompts(wiz.data) : prompts[f] = Absent}
PromptTurn(f) == f \in MissingPrompts /\ ("master" \in MissingPrompts => f = "master")

\* Fault: an alias's prompt is rewritten although it exists.
FaultRewritesPrompt(f) ==
    /\ pc = "writePrompts"
    /\ f \in WantedPrompts(wiz.data)
    /\ f \notin wiz.files.created
    /\ prompts' = [prompts EXCEPT ![f] = wiz.id]
    /\ wiz' = [wiz EXCEPT !.files.created = @ \cup {f}]
    /\ UNCHANGED <<disk, backups, saved, pc, job, attempts, last, made, fixed,
                   finished, report, crashes, operator, penv>>

WritePrompt(f) ==
    /\ pc = "writePrompts"
    /\ PromptTurn(f)
    /\ prompts' = [prompts EXCEPT ![f] = wiz.id]
    /\ wiz' = [wiz EXCEPT !.files.created = @ \cup {f}]
    /\ UNCHANGED <<disk, backups, saved, pc, job, attempts, last, made, fixed,
                   finished, report, crashes, operator, penv>>

\* Fault: only the master prompt is waited for.
FaultOnlyMasterPrompt ==
    /\ pc = "writePrompts"
    /\ "master" \notin MissingPrompts
    /\ pc' = "validate"
    /\ UNCHANGED <<disk, prompts, backups, saved, wiz, job, attempts, last,
                   made, fixed, finished, report, crashes, operator, penv>>

PromptsWritten ==
    /\ pc = "writePrompts"
    /\ MissingPrompts = {}
    /\ pc' = "validate"
    /\ UNCHANGED <<disk, prompts, backups, saved, wiz, job, attempts, last,
                   made, fixed, finished, report, crashes, operator, penv>>

-----------------------------------------------------------------------------
\* The end: validation, repair by hand, success or rollback

\* Editing by hand can mend the YAML; a value that process.env has stays, so
\* nothing mends an environment that validateEnvironment refuses.
usable ==
    LET env == Merge(penv, EnvOf(made[wiz.id]))
    IN  /\ EnvironmentValid(env)
        /\ wiz.id \in fixed \/ Validates(made[wiz.id], env, job.agent)

ValidateOk ==
    /\ pc = "validate"
    /\ usable
    /\ attempts < MaxAttempts
    /\ pc' = "clear"
    /\ UNCHANGED <<disk, prompts, backups, saved, wiz, job, attempts, last,
                   made, fixed, finished, report, crashes, operator, penv>>

\* The operator edits the files and presses Enter: they are repaired or not.
FixByHand ==
    /\ pc = "validate"
    /\ ~usable
    /\ ~job.agent
    /\ attempts < MaxAttempts
    /\ attempts' = attempts + 1
    /\ fixed' \in {fixed, fixed \cup {wiz.id}}
    /\ UNCHANGED <<disk, prompts, backups, saved, wiz, pc, job, last, made,
                   finished, report, crashes, operator, penv>>

\* The operator aborts, the attempts are used up, or an agent's answers do not
\* validate.
GiveUp ==
    /\ pc = "validate"
    /\ ~usable \/ attempts = MaxAttempts
    /\ pc' = "rollback"
    /\ UNCHANGED <<disk, prompts, backups, saved, wiz, job, attempts, last,
                   made, fixed, finished, report, crashes, operator, penv>>

Rollback ==
    /\ pc = "rollback"
    /\ disk' = RollbackDisk(wiz)
    /\ prompts' = RollbackPrompts(wiz)
    /\ saved' = NoWizard
    /\ Ended("rolled back")
    /\ UNCHANGED <<backups, last, made, fixed, finished, crashes, operator>>

ClearState ==
    /\ pc = "clear"
    /\ saved' = NoWizard
    /\ finished' = finished \cup {wiz.id}
    /\ Ended("success")
    /\ UNCHANGED <<disk, prompts, backups, last, made, fixed, crashes,
                   operator>>

-----------------------------------------------------------------------------
\* Failures

FileAt == [writeYaml |-> "yaml", writeExample |-> "example", writeEnv |-> "env"]

\* What is left of the file a process was writing: nothing was done to it yet, or
\* it was emptied and not filled.
LeavesTorn ==
    \/ UNCHANGED <<disk, prompts, saved>>
    \/ /\ pc \in DOMAIN FileAt
       /\ disk' = [disk EXCEPT ![FileAt[pc]] = Torn]
       /\ UNCHANGED <<prompts, saved>>
    \/ /\ pc = "writePrompts"
       /\ \E f \in PromptFiles :
              PromptTurn(f) /\ prompts' = [prompts EXCEPT ![f] = Torn]
       /\ UNCHANGED <<disk, saved>>
    \/ /\ pc \in {"save", "saveFailed"}
       /\ saved' = [NoWizard EXCEPT !.id = Torn]
       /\ UNCHANGED <<disk, prompts>>

\* The process is killed.
Crash ==
    /\ pc # "idle"
    /\ crashes < MaxCrashes
    /\ crashes' = crashes + 1
    /\ LeavesTorn
    /\ Ended("killed")
    /\ UNCHANGED <<backups, last, made, fixed, finished, operator>>

\* A write of generateFullConfig throws: the wizard rolls back what it noted, the
\* agent ends with what it has written so far.
WriteFails ==
    /\ pc \in DOMAIN FileAt \cup {"writePrompts"}
    /\ crashes < MaxCrashes
    /\ crashes' = crashes + 1
    /\ LeavesTorn
    /\ IF job.agent
       THEN Ended("failed")
       ELSE pc' = "rollback" /\ UNCHANGED <<wiz, job, attempts, report, penv>>
    /\ UNCHANGED <<backups, last, made, fixed, finished, operator>>

Run ==
    \/ BackupYaml \/ BackupEnv
    \/ LoadTornState \/ LoadNoState \/ ResumeSession \/ RejectSession
    \/ RefuseSession
    \/ ExecuteStep \/ StepThrows \/ SaveState \/ SaveFailedState \/ BuildResult
    \/ WriteYaml \/ WriteExample \/ WriteEnv
    \/ \E f \in PromptFiles : WritePrompt(f)
    \/ PromptsWritten
    \/ ValidateOk \/ FixByHand \/ GiveUp \/ Rollback \/ ClearState

Next ==
    \/ StartInteractive
    \/ \E d \in AgentAnswers \cap InitAnswers, force, overwrite \in BOOLEAN :
           StartAgent(d, force, overwrite)
    \/ Run
    \/ Crash
    \/ WriteFails

Spec == Init /\ [][Next]_vars

-----------------------------------------------------------------------------
\* Properties

Content == {Absent, Torn, Mine, Boilerplate} \cup Sessions
ServerFlags == {"port", "cache", "redis", "smart", "semantic"}
WizardData ==
    [masterKey : BOOLEAN, providers : Seq(Provider), models : Seq(Model),
     clients : SUBSET Clients, server : SUBSET ServerFlags]
WizardState ==
    [id : {0, Torn} \cup Sessions, completed : SUBSET Steps, data : WizardData,
     files : [created : SUBSET (Files \cup PromptFiles), backedUp : {{}}]]
Writing == {"writeYaml", "writeExample", "writeEnv", "writePrompts"}

TypeOK ==
    /\ disk \in [Files -> Content]
    /\ prompts \in [PromptFiles -> Content]
    /\ backups \subseteq Files \X Content
    /\ saved \in WizardState
    /\ wiz \in WizardState
    /\ pc \in {"idle", "backupYaml", "backupEnv", "load", "step", "save",
               "saveFailed", "validate", "clear", "rollback"} \cup Writing
    /\ attempts \in 0 .. MaxAttempts
    /\ last \in 0 .. MaxSessions
    /\ finished \subseteq {Mine} \cup Sessions
    /\ crashes \in 0 .. MaxCrashes
    /\ made \in [Sessions -> WizardData]
    /\ operator \in Operators
    /\ penv \in Env

\* A configuration that was in use, the operator's own or one config:init
\* reported as usable, is never lost: its YAML and its .env are in their place
\* or under backup/, whatever later runs, aborts, rollbacks and kills do.
FinishedConfigKept ==
    \A s \in finished : \A f \in {"yaml", "env"} :
        disk[f] = s \/ <<f, s>> \in backups

\* What the gateway, started in the operator's shell, finds in the files a session
\* wrote: a structure it accepts, the master key, every secret that was typed, an
\* environment it accepts, and a Redis group if the .env or the semantic cache of
\* the shell asks for Redis. A REDIS_PORT of the shell that is no number is found
\* out only if Redis was called for before the new .env did so.
Boots(d) ==
    LET shell == operator.shell
        env == Merge(shell, EnvOf(d))
    IN  /\ Structured(d)
        /\ "MASTER_KEY" \in env.good
        /\ \A p \in Enabled(d) : Needs(p) \in p.typed => Needs(p) \in env.good
        /\ EnvironmentValid(env) \/ "REDIS_PORT" \in shell.names \ shell.good
        /\ RedisRequired(EnvOf(d).good \cup SemanticOn(shell)) => WritesRedis(d)

\* A run that reports success has put the files of one session in place, all of
\* them, and the gateway boots from them although they were checked against the
\* environment of an earlier .env; or the operator repaired them by hand. Every
\* prompt is there, the master prompt is empty only if a write of it was cut
\* short, and no unfinished session is left to resume.
SuccessIsComplete ==
    report = "success" =>
        /\ disk.yaml \in Sessions
        /\ \A f \in Files : disk[f] = disk.yaml
        /\ disk.yaml \in fixed \/ Boots(made[disk.yaml])
        /\ \A f \in WantedPrompts(made[disk.yaml]) : prompts[f] # Absent
        /\ prompts["master"] = Torn => crashes > 0
        /\ saved = NoWizard

\* A session can be resumed from what it saved: every completed step has its
\* answer, the steps were completed in order, and every model belongs to a
\* provider of the session, so buildResult and the template find what they need.
Resumable(w) ==
    /\ \A s \in w.completed : Answered(w.data, s)
    /\ \A i, j \in DOMAIN WIZARD_INIT_STEPS :
           i < j /\ WIZARD_INIT_STEPS[j] \in w.completed
               => WIZARD_INIT_STEPS[i] \in w.completed
    /\ \A m \in ToSet(w.data.models) :
           \E p \in ToSet(w.data.providers) : p.id = m.provider
SessionsResumable == Resumable(saved) /\ Resumable(wiz)

\* The operator's own prompts and those of other sessions stay as they are,
\* whatever is run, rejected, rolled back or killed: a step changes a prompt only
\* if it is missing or cut short, or belongs to the session that runs or to the
\* unfinished one that waits to be resumed.
PromptsUntouched ==
    [][\A f \in PromptFiles :
           prompts[f] \in ({Mine} \cup Sessions) \ {wiz.id, saved.id}
               => prompts'[f] = prompts[f]]_vars

\* docs/command_line_interface.md:250, "Rejecting resume -> rollback of created
\* files and backups from the session": no file holds what the rejected session
\* wrote. The code saves the state before generateFullConfig notes its first
\* file, so the state that rollback is given names none of them.
RejectRemovesFiles ==
    [][RejectSession =>
           /\ \A f \in Files : disk'[f] # saved.id
           /\ \A f \in PromptFiles : prompts'[f] # saved.id]_vars

=============================================================================
