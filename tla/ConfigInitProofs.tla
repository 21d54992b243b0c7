-------------------------- MODULE ConfigInitProofs --------------------------
\* config:init for any providers, models, clients and answers files, and any
\* number of sessions and killed processes: configurations that were in use are
\* kept, and a saved session can always be resumed.
EXTENDS ConfigInit, TLAPS

\* The four contents that are no session differ from each other and from every
\* session.
LEMMA Contents ==
    /\ Absent # Torn /\ Absent # Mine /\ Absent # Boilerplate
    /\ Torn # Mine /\ Torn # Boilerplate /\ Mine # Boilerplate
    /\ \A s \in Sessions : s # Absent /\ s # Torn /\ s # Mine /\ s # Boilerplate /\ s # 0
    /\ Torn # 0
<1>1. /\ Absent \notin Nat /\ Torn \notin Nat /\ Mine \notin Nat /\ Boilerplate \notin Nat
  BY InitAssumption
<1> QED
  BY <1>1, InitAssumption DEF Sessions

-----------------------------------------------------------------------------
\* Types

\* The answers of an agent are complete before its session begins.
ModelsOwned(d) ==
    \A m \in ToSet(d.models) : \E p \in ToSet(d.providers) : p.id = m.provider
Deferred(d) == \A i \in DOMAIN d.providers : d.providers[i].typed = {}
AgentReady ==
    job.agent => /\ job.answers \in WizardData
                 /\ \A s \in Steps : Answered(job.answers, s)
                 /\ ModelsOwned(job.answers)
                 /\ Deferred(job.answers)

\* The five steps of the wizard by their names.
LEMMA StepNames ==
    /\ DOMAIN WIZARD_INIT_STEPS = 1 .. 5
    /\ Steps = {"master-key", "providers", "models", "clients", "server-config"}
<1>1. DOMAIN WIZARD_INIT_STEPS = 1 .. 5
  BY DEF WIZARD_INIT_STEPS
<1>2. Steps = {WIZARD_INIT_STEPS[i] : i \in 1 .. 5}
  BY <1>1 DEF Steps, ToSet
<1>3. /\ WIZARD_INIT_STEPS[1] = "master-key" /\ WIZARD_INIT_STEPS[2] = "providers"
      /\ WIZARD_INIT_STEPS[3] = "models" /\ WIZARD_INIT_STEPS[4] = "clients"
      /\ WIZARD_INIT_STEPS[5] = "server-config"
  BY DEF WIZARD_INIT_STEPS
<1>4. 1 .. 5 = {1, 2, 3, 4, 5}
  OBVIOUS
<1> QED
  BY <1>1, <1>2, <1>3, <1>4

\* A session without answers is a session.
LEMMA NothingTyped ==
    /\ NoData \in WizardData
    /\ NoWizard \in WizardState
    /\ \A s \in {0, Torn} \cup Sessions : NewWizard(s) \in WizardState
<1>1. <<>> \in Seq(Provider) /\ <<>> \in Seq(Model)
  OBVIOUS
<1>2. NoData \in WizardData
  BY <1>1 DEF NoData, WizardData
<1> QED
  BY <1>2 DEF NoWizard, WizardState, NewWizard, NoFiles

\* A process runs with the answers file it was started with, or with none.
LEMMA ReadyStep == AgentReady /\ [Next]_vars => AgentReady'
<1> SUFFICES ASSUME AgentReady, [Next]_vars PROVE AgentReady'
  OBVIOUS
<1>1. ASSUME job' = job PROVE AgentReady'
  BY <1>1 DEF AgentReady
<1>2. ASSUME job' = NoJob PROVE AgentReady'
  BY <1>2 DEF AgentReady, NoJob
<1>3. ASSUME NEW d \in AgentAnswers \cap InitAnswers, NEW force \in BOOLEAN,
             NEW overwrite \in BOOLEAN, StartAgent(d, force, overwrite)
      PROVE  AgentReady'
  <2>0. PICK sem : sem = SemanticOn(penv')
    OBVIOUS
  <2> DEFINE e == [d EXCEPT !.server = @ \cup sem]
  <2>1. job' = job \/ job'.answers = e
    <3>1. \/ job' = job
          \/ job' = [agent |-> TRUE, force |-> force,
                     answers |-> [d EXCEPT !.server = @ \cup SemanticOn(penv')]]
      BY <1>3 DEF StartAgent
    <3>2. CASE job' = job
      BY <3>2
    <3>3. CASE job' = [agent |-> TRUE, force |-> force,
                       answers |-> [d EXCEPT !.server = @ \cup SemanticOn(penv')]]
      <4>1. job'.answers = [d EXCEPT !.server = @ \cup SemanticOn(penv')]
        BY <3>3
      <4> QED
        BY <2>0, <4>1, Zenon
    <3> QED
      BY <3>1, <3>2, <3>3
  <2>2. /\ d.masterKey = TRUE /\ d.providers # <<>> /\ d.models # <<>> /\ d.clients # {}
        /\ d.providers \in Seq(Provider) /\ d.models \in Seq(Model) /\ d.clients \subseteq Clients
        /\ d.server \subseteq ServerFlags /\ "port" \in d.server
        /\ ModelsOwned(d)
        /\ d = [masterKey |-> TRUE, providers |-> d.providers, models |-> d.models,
                clients |-> d.clients, server |-> d.server]
    <3>1. PICK c \in ServerChoices : d.server = {"port"} \cup c
      BY DEF InitAnswers
    <3>2. d.server \subseteq ServerFlags /\ "port" \in d.server
      BY <3>1, InitAssumption DEF ServerFlags
    <3>3. d.masterKey = TRUE
      BY DEF InitAnswers
    <3>4. d.providers \in Seq({p \in Provider : p.typed = {}}) /\ d.models \in Seq(Model)
      BY DEF InitAnswers
    <3>5. d.providers \in Seq(Provider)
      BY <3>4
    <3>6. ModelsOwned(d)
      BY DEF InitAnswers, ModelsOwned
    <3>7. /\ d.providers # <<>> /\ d.models # <<>> /\ d.clients # {} /\ d.clients \subseteq Clients
          /\ d = [masterKey |-> TRUE, providers |-> d.providers, models |-> d.models,
                  clients |-> d.clients, server |-> d.server]
      BY <3>3 DEF InitAnswers
    <3> QED
      BY <3>2, <3>3, <3>4, <3>5, <3>6, <3>7
  <2>3. /\ e.masterKey = TRUE /\ e.providers = d.providers /\ e.models = d.models
        /\ e.clients = d.clients /\ e.server \subseteq ServerFlags /\ "port" \in e.server
    BY <2>0, <2>2 DEF ServerFlags, SemanticOn
  <2>4. e \in WizardData
    BY <2>2, <2>3 DEF WizardData
  <2>5. \A s \in Steps : Answered(e, s)
    BY <2>2, <2>3, StepNames DEF Answered
  <2>6. ModelsOwned(e)
    BY <2>2, <2>3 DEF ModelsOwned
  <2>7. Deferred(e)
    <3>1. d.providers \in Seq({p \in Provider : p.typed = {}})
      BY DEF InitAnswers
    <3> QED
      BY <2>3, <3>1 DEF Deferred
  <2> HIDE DEF e
  <2> QED
    BY <2>1, <2>4, <2>5, <2>6, <2>7 DEF AgentReady
<1>4. CASE StartInteractive
  BY <1>4, <1>1, <1>2 DEF StartInteractive
<1>5. CASE Run
  BY <1>5, <1>1, <1>2 DEF Run, Ended, BackupYaml, BackupEnv, LoadTornState, LoadNoState,
     ResumeSession, RejectSession, RefuseSession, ExecuteStep, StepThrows, SaveState,
     SaveFailedState, BuildResult, WriteYaml, WriteExample, WriteEnv, WritePrompt,
     PromptsWritten, ValidateOk, FixByHand, GiveUp, Rollback, ClearState
<1>6. CASE Crash \/ WriteFails \/ UNCHANGED vars
  BY <1>6, <1>1, <1>2 DEF Crash, WriteFails, Ended, vars
<1> QED
  BY <1>3, <1>4, <1>5, <1>6 DEF Next

\* The answers a step may be given.
LEMMA AnswersTyped ==
    ASSUME NEW d \in WizardData, NEW step \in Steps, NEW e \in StepAnswers(step, d)
    PROVE  e \in WizardData /\ Answered(e, step)
<1>1. CASE step = "master-key"
  BY <1>1 DEF StepAnswers, WizardData, Answered
<1>2. CASE step = "providers"
  <2>1. PICK p \in ProviderAnswers : e = [d EXCEPT !.providers = p]
    BY <1>2 DEF StepAnswers
  <2>2. p # <<>> /\ p \in SeqOf(PromptedProviders, Len(Types))
    BY <2>1 DEF ProviderAnswers
  <2>3. p \in Seq(Provider)
    <3>1. PICK n \in 0 .. Len(Types) : p \in [1 .. n -> PromptedProviders]
      BY <2>2 DEF SeqOf
    <3>2. PromptedProviders \subseteq Provider
      BY DEF PromptedProviders
    <3>3. p \in [1 .. n -> Provider]
      BY <3>1, <3>2
    <3>4. n \in Nat
      BY InitAssumption
    <3> QED
      BY <3>3, <3>4
  <2> QED
    BY <1>2, <2>1, <2>2, <2>3 DEF WizardData, Answered
<1>3. CASE step = "models"
  <2>1. PICK m \in ModelAnswers(d.providers) : e = [d EXCEPT !.models = m]
    BY <1>3 DEF StepAnswers
  <2>2. m # <<>> /\ m \in SeqOf(Model, Len(d.providers))
    BY <2>1 DEF ModelAnswers
  <2>3. m \in Seq(Model)
    BY <2>2 DEF SeqOf
  <2> QED
    BY <1>3, <2>1, <2>2, <2>3 DEF WizardData, Answered
<1>4. CASE step = "clients"
  BY <1>4 DEF StepAnswers, WizardData, Answered
<1>5. CASE step = "server-config"
  <2>1. PICK v \in ServerAnswers : e = [d EXCEPT !.server = v]
    BY <1>5 DEF StepAnswers
  <2>2. PICK c \in ServerChoices :
            v = {"port"} \cup (IF "cache" \in c THEN c ELSE c \ {"redis"})
                         \cup SemanticOn(penv)
    BY <2>1 DEF ServerAnswers
  <2>3. v \subseteq ServerFlags /\ v # {}
    BY <2>2, InitAssumption DEF ServerFlags, SemanticOn
  <2> QED
    BY <1>5, <2>1, <2>3 DEF WizardData, Answered
<1> QED
  BY <1>1, <1>2, <1>3, <1>4, <1>5, StepNames

\* What the executing process holds is a session whenever it is past the load.
InSession ==
    pc \in {"step", "save", "saveFailed", "validate", "clear", "rollback"} \cup Writing
        => wiz.id \in Sessions

\* A rollback leaves files there are contents for.
LEMMA RollbackTyped ==
    ASSUME TypeOK, NEW w \in WizardState
    PROVE  /\ RollbackDisk(w) \in [Files -> Content]
           /\ RollbackPrompts(w) \in [PromptFiles -> Content]
  BY DEF TypeOK, WizardState, RollbackDisk, RollbackPrompts, Content

\* So does a write that was cut short.
LEMMA TornTyped ==
    ASSUME TypeOK, LeavesTorn
    PROVE  /\ disk' \in [Files -> Content] /\ prompts' \in [PromptFiles -> Content]
           /\ saved' \in WizardState
<1>1. [NoWizard EXCEPT !.id = Torn] \in WizardState
  BY NothingTyped DEF WizardState
<1> QED
  BY <1>1 DEF TypeOK, LeavesTorn, Content, FileAt, Files

\* A process that ends leaves nothing in memory.
LEMMA EndedTyped ==
    ASSUME NEW how, Ended(how)
    PROVE  /\ pc' = "idle" /\ wiz' \in WizardState /\ attempts' \in 0 .. MaxAttempts
           /\ penv' \in Env
  BY NothingTyped, InitAssumption DEF Ended, NoEnv, Env

\* The variables of a provider are secrets.
LEMMA RefsTyped == \A p \in Provider : Refs(p) \subseteq Secrets /\ Needs(p) \in Refs(p)
  BY DEF Provider, Refs, Needs, Secrets

\* The .env made from answers is an environment.
LEMMA EnvOfTyped ==
    ASSUME NEW d \in WizardData
    PROVE  EnvOf(d) \in Env
<1>1. \A i \in DOMAIN d.providers : d.providers[i] \in Provider
  BY DEF WizardData
<1> DEFINE written == Switches \ {"semantic"}
           numbers == {"MASTER_KEY", "CACHE_TTL"}
                         \cup (IF WritesRedis(d) THEN {"REDIS_PORT"} ELSE {})
           refs == UNION {Refs(d.providers[i]) : i \in DOMAIN d.providers}
           vals == UNION {{v \in d.providers[i].typed \cap Refs(d.providers[i]) :
                              \A j \in DOMAIN d.providers :
                                  i < j => v \notin Refs(d.providers[j])} :
                          i \in DOMAIN d.providers}
<1>2. refs \subseteq Secrets
  BY <1>1, RefsTyped
<1>3. vals \subseteq refs
  OBVIOUS
<1>4. numbers \cup written \subseteq Settings
  BY DEF Settings, Switches
<1>5. EnvOf(d) = [names |-> numbers \cup written \cup refs,
                  good |-> numbers \cup (d.server \cap written) \cup vals]
  BY DEF EnvOf
<1> HIDE DEF written, numbers, refs, vals
<1> QED
  BY <1>2, <1>3, <1>4, <1>5 DEF Env

\* An environment completed from another.
LEMMA MergeTyped ==
    ASSUME NEW e \in Env, NEW f \in Env
    PROVE  /\ Merge(e, f) \in Env
           /\ e.names \subseteq Merge(e, f).names
           /\ Merge(e, f).good \cap e.names = e.good
  BY DEF Merge, Env

\* A process starts with the shell's variables as the shell has them.
Started == /\ operator.shell.names \subseteq penv.names
           /\ penv.good \cap operator.shell.names = operator.shell.good

\* Whatever .env holds by then.
LEMMA LoadTyped ==
    ASSUME TypeOK, LoadEnv, operator' = operator
    PROVE  penv' \in Env /\ Started'
<1>1. operator.shell \in Env /\ operator.own \in Env
  BY InitAssumption DEF TypeOK
<1>2. FileEnvs \subseteq Env
  <2>1. NoEnv \in Env
    BY DEF NoEnv, Env
  <2>2. ASSUME disk.env \in Sessions PROVE EnvOf(made[disk.env]) \in Env
    BY <2>2, EnvOfTyped DEF TypeOK
  <2>3. ASSUME NEW e \in Env PROVE [e EXCEPT !.good = @ \cup (e.names \cap Secrets)] \in Env
    BY DEF Env
  <2> QED
    BY <1>1, <2>1, <2>2, <2>3 DEF FileEnvs
<1>3. PICK e \in FileEnvs : penv' = Merge(operator.shell, e)
  BY DEF LoadEnv
<1>4. e \in Env
  BY <1>2
<1>5. /\ Merge(operator.shell, e) \in Env
      /\ operator.shell.names \subseteq Merge(operator.shell, e).names
      /\ Merge(operator.shell, e).good \cap operator.shell.names = operator.shell.good
  BY <1>1, <1>4, MergeTyped
<1> QED
  BY <1>3, <1>5 DEF Started

\* Every step keeps the types, and a process past the load in its session.
LEMMA TypeStep == TypeOK /\ InSession /\ AgentReady /\ [Next]_vars => TypeOK' /\ InSession'
<1> SUFFICES ASSUME TypeOK, InSession, AgentReady, [Next]_vars PROVE TypeOK' /\ InSession'
  OBVIOUS
<1> USE DEF TypeOK, InSession, Writing
<1>1. CASE StartInteractive
  <2>1. penv' \in Env
    BY <1>1, LoadTyped DEF StartInteractive
  <2> QED
    BY <1>1, <2>1 DEF StartInteractive
<1>2. ASSUME NEW d \in AgentAnswers \cap InitAnswers, NEW force \in BOOLEAN,
             NEW overwrite \in BOOLEAN, StartAgent(d, force, overwrite)
      PROVE  TypeOK' /\ InSession'
  <2>1. penv' \in Env
    BY <1>2, LoadTyped DEF StartAgent
  <2> QED
    BY <1>2, <2>1 DEF StartAgent
<1>3. CASE BackupYaml \/ BackupEnv
  BY <1>3 DEF BackupYaml, BackupEnv, Files, Content
<1>4. CASE LoadTornState \/ RefuseSession
  <2>1. /\ pc' = "idle" /\ wiz' \in WizardState /\ attempts' \in 0 .. MaxAttempts
        /\ penv' \in Env
    BY <1>4, EndedTyped DEF LoadTornState, RefuseSession
  <2>2. UNCHANGED <<disk, prompts, backups, saved, last, made, fixed, finished, crashes,
                    operator>>
    BY <1>4 DEF LoadTornState, RefuseSession
  <2> QED
    BY <2>1, <2>2
<1>5. CASE LoadNoState
  <2>1. last + 1 \in Sessions
    BY <1>5, InitAssumption DEF LoadNoState, Sessions
  <2>2. NewWizard(last + 1) \in WizardState /\ NewWizard(last + 1).id = last + 1
    BY <2>1, NothingTyped DEF NewWizard, NoWizard
  <2>3. NewSession(last + 1) \in WizardState /\ NewSession(last + 1).id = last + 1
    BY <2>1, <2>2 DEF NewSession, AgentReady, WizardState
  <2> QED
    BY <1>5, <2>1, <2>3 DEF LoadNoState, Sessions
<1>6. CASE ResumeSession
  BY <1>6 DEF ResumeSession
<1>7. CASE RejectSession
  BY <1>7, RollbackTyped, NothingTyped DEF RejectSession
<1>8. CASE ExecuteStep
  <2>0. PICK step \in Pending(wiz) : \E d \in StepAnswers(step, wiz.data) :
            wiz' = [wiz EXCEPT !.data = d, !.completed = @ \cup {step}]
    BY <1>8 DEF ExecuteStep
  <2>1. PICK d \in StepAnswers(step, wiz.data) :
            wiz' = [wiz EXCEPT !.data = d, !.completed = @ \cup {step}]
    BY <2>0
  <2>2. step \in Steps
    BY <2>0 DEF Pending, Steps, ToSet
  <2>3. d \in WizardData
    BY <2>1, <2>2, AnswersTyped DEF WizardState
  <2> QED
    BY <1>8, <2>1, <2>2, <2>3 DEF ExecuteStep, WizardState
<1>9. CASE StepThrows \/ SaveState \/ BuildResult
  BY <1>9 DEF StepThrows, SaveState, BuildResult
<1>10. CASE SaveFailedState
  <2>1. /\ pc' = "idle" /\ wiz' \in WizardState /\ attempts' \in 0 .. MaxAttempts
        /\ penv' \in Env
    BY <1>10, EndedTyped DEF SaveFailedState
  <2>2. /\ saved' = wiz
        /\ UNCHANGED <<disk, prompts, backups, last, made, fixed, finished, crashes,
                       operator>>
    BY <1>10 DEF SaveFailedState
  <2> QED
    BY <2>1, <2>2
<1>11. CASE WriteYaml \/ WriteExample \/ WriteEnv
  BY <1>11 DEF WriteYaml, WriteExample, WriteEnv, WizardState, Files, Content
<1>12. ASSUME NEW f \in PromptFiles, WritePrompt(f) PROVE TypeOK' /\ InSession'
  BY <1>12 DEF WritePrompt, WizardState, Content
<1>13. CASE PromptsWritten \/ ValidateOk \/ FixByHand \/ GiveUp
  BY <1>13, InitAssumption DEF PromptsWritten, ValidateOk, FixByHand, GiveUp
<1>14. CASE Rollback
  <2>1. /\ pc' = "idle" /\ wiz' \in WizardState /\ attempts' \in 0 .. MaxAttempts
        /\ penv' \in Env
    BY <1>14, EndedTyped DEF Rollback
  <2>2. /\ disk' = RollbackDisk(wiz) /\ prompts' = RollbackPrompts(wiz) /\ saved' = NoWizard
        /\ UNCHANGED <<backups, last, made, fixed, finished, crashes, operator>>
    BY <1>14 DEF Rollback
  <2> QED
    BY <2>1, <2>2, RollbackTyped, NothingTyped
<1>15. CASE ClearState
  BY <1>15, NothingTyped, EndedTyped, InitAssumption DEF ClearState
<1>16. CASE Crash
  BY <1>16, NothingTyped, TornTyped, EndedTyped, InitAssumption DEF Crash
<1>17. CASE WriteFails
  BY <1>17, NothingTyped, TornTyped, EndedTyped, InitAssumption DEF WriteFails, FileAt
<1>18. CASE UNCHANGED vars
  BY <1>18 DEF vars
<1> HIDE DEF TypeOK, InSession, Writing
<1> QED
  BY <1>1, <1>2, <1>3, <1>4, <1>5, <1>6, <1>7, <1>8, <1>9, <1>10, <1>11, <1>12, <1>13,
     <1>14, <1>15, <1>16, <1>17, <1>18 DEF Next, Run

\* A running process has the environment it started with.
EnvStarted == pc # "idle" => Started

\* Only a start changes the environment, and it takes the shell's as it is.
LEMMA StartedStep == TypeOK /\ EnvStarted /\ [Next]_vars => EnvStarted'
<1> SUFFICES ASSUME TypeOK, EnvStarted, [Next]_vars PROVE EnvStarted'
  OBVIOUS
<1>1. ASSUME UNCHANGED <<penv, operator>>, pc' # "idle" => pc # "idle" PROVE EnvStarted'
  BY <1>1 DEF EnvStarted, Started
<1>2. ASSUME pc' = "idle" PROVE EnvStarted'
  BY <1>2 DEF EnvStarted
<1>3. CASE StartInteractive
  BY <1>2, <1>3, LoadTyped DEF StartInteractive, EnvStarted
<1>4. ASSUME NEW d \in AgentAnswers \cap InitAnswers, NEW force \in BOOLEAN,
             NEW overwrite \in BOOLEAN, StartAgent(d, force, overwrite)
      PROVE  EnvStarted'
  BY <1>2, <1>4, LoadTyped DEF StartAgent, EnvStarted
<1>5. CASE LoadTornState \/ RefuseSession \/ SaveFailedState \/ Rollback \/ ClearState \/ Crash
  BY <1>2, <1>5 DEF LoadTornState, RefuseSession, SaveFailedState, Rollback, ClearState,
     Crash, Ended
<1>6. CASE BackupYaml \/ BackupEnv \/ LoadNoState \/ ResumeSession \/ RejectSession
           \/ ExecuteStep \/ StepThrows \/ SaveState \/ BuildResult \/ WriteYaml
           \/ WriteExample \/ WriteEnv \/ PromptsWritten \/ ValidateOk \/ FixByHand \/ GiveUp
           \/ \E f \in PromptFiles : WritePrompt(f)
  BY <1>1, <1>6 DEF BackupYaml, BackupEnv, LoadNoState, ResumeSession, RejectSession,
     ExecuteStep, StepThrows, SaveState, BuildResult, WriteYaml, WriteExample, WriteEnv,
     WritePrompt, PromptsWritten, ValidateOk, FixByHand, GiveUp
<1>7. CASE WriteFails
  BY <1>1, <1>2, <1>7 DEF WriteFails, FileAt, Ended
<1>8. CASE UNCHANGED vars
  BY <1>1, <1>8 DEF vars
<1> QED
  BY <1>3, <1>4, <1>5, <1>6, <1>7, <1>8 DEF Next, Run

-----------------------------------------------------------------------------
\* Configurations are kept

Safe(s) == <<"yaml", s>> \in backups /\ <<"env", s>> \in backups

\* A configuration in use is in its place only until a run is past its backups.
Kept ==
    \A s \in finished :
        \/ Safe(s)
        \/ /\ pc \in {"idle", "backupYaml", "backupEnv"}
           /\ disk.yaml = s /\ disk.env = s
           /\ pc = "backupEnv" => <<"yaml", s>> \in backups

\* How far generateFullConfig has come.
Placed ==
    /\ pc \in {"writeExample", "writeEnv"} => disk.yaml = wiz.id
    /\ pc \in {"writePrompts", "validate", "clear"} => disk.yaml = wiz.id /\ disk.env = wiz.id

Base == TypeOK /\ InSession /\ AgentReady /\ EnvStarted

\* A configuration that is kept is in its place or in backup/.
LEMMA KeptImplies == Base /\ Kept => FinishedConfigKept
  BY DEF Base, Kept, Safe, FinishedConfigKept

\* Every step keeps the files of the session as generateFullConfig wrote them.
LEMMA PlacedStep == Base /\ Placed /\ [Next]_vars => Placed'
<1> SUFFICES ASSUME Base, Placed, [Next]_vars PROVE Placed'
  OBVIOUS
<1>0. disk \in [Files -> Content] /\ wiz \in WizardState
  BY DEF Base, TypeOK
<1> USE DEF Placed
<1>1. CASE StartInteractive \/ BackupYaml \/ BackupEnv
  BY <1>1 DEF StartInteractive, BackupYaml, BackupEnv
<1>2. ASSUME NEW d \in AgentAnswers \cap InitAnswers, NEW force \in BOOLEAN,
             NEW overwrite \in BOOLEAN, StartAgent(d, force, overwrite)
      PROVE  Placed'
  BY <1>2 DEF StartAgent
<1>3. CASE \/ LoadTornState \/ LoadNoState \/ ResumeSession \/ RejectSession
           \/ RefuseSession \/ ExecuteStep \/ StepThrows \/ SaveState \/ SaveFailedState
           \/ BuildResult \/ GiveUp \/ Rollback \/ ClearState \/ Crash \/ WriteFails
  BY <1>3 DEF LoadTornState, LoadNoState, ResumeSession, RejectSession, RefuseSession,
     ExecuteStep, StepThrows, SaveState, SaveFailedState, BuildResult, GiveUp, Rollback,
     ClearState, Crash, WriteFails, Ended
<1>4. CASE WriteYaml
  BY <1>0, <1>4 DEF WriteYaml, Files, WizardState
<1>5. CASE WriteExample \/ WriteEnv
  BY <1>0, <1>5 DEF WriteExample, WriteEnv, Files, WizardState
<1>6. ASSUME NEW f \in PromptFiles, WritePrompt(f) PROVE Placed'
  BY <1>0, <1>6 DEF WritePrompt, WizardState
<1>7. CASE PromptsWritten \/ ValidateOk \/ FixByHand
  BY <1>7 DEF PromptsWritten, ValidateOk, FixByHand
<1>8. CASE UNCHANGED vars
  BY <1>8 DEF vars
<1> HIDE DEF Placed
<1> QED
  BY <1>1, <1>2, <1>3, <1>4, <1>5, <1>6, <1>7, <1>8 DEF Next, Run

\* Every step keeps the configurations that were in use.
LEMMA KeptStep == Base /\ Placed /\ Kept /\ [Next]_vars => Kept'
<1> SUFFICES ASSUME Base, Placed, Kept, [Next]_vars PROVE Kept'
  OBVIOUS
<1>0. /\ disk \in [Files -> Content] /\ finished \subseteq {Mine} \cup Sessions
      /\ \A s \in finished : s # Absent /\ s # Boilerplate
  BY Contents DEF Base, TypeOK
\* Past the backups every configuration in use is safe, and stays so.
<1>1. ASSUME pc \notin {"idle", "backupYaml", "backupEnv"}, backups \subseteq backups',
             finished' = finished
      PROVE  Kept'
  BY <1>1 DEF Kept, Safe
<1>2. CASE StartInteractive
  BY <1>0, <1>2 DEF StartInteractive, Kept, Safe, configured
<1>3. ASSUME NEW d \in AgentAnswers \cap InitAnswers, NEW force \in BOOLEAN,
             NEW overwrite \in BOOLEAN, StartAgent(d, force, overwrite)
      PROVE  Kept'
  <2>1. /\ pc = "idle" /\ UNCHANGED <<disk, backups, finished>>
        /\ pc' \in {"idle", "backupYaml"} \/ (pc' = "load" /\ ~configured)
    BY <1>3 DEF StartAgent
  <2> QED
    BY <1>0, <2>1 DEF Kept, Safe, configured
<1>4. CASE BackupYaml
  <2>1. /\ pc = "backupYaml" /\ UNCHANGED <<disk, finished>>
        /\ backups' = backups \cup {<<"yaml", disk.yaml>>}
        /\ pc' = IF disk.env # Absent THEN "backupEnv" ELSE "load"
    BY <1>4 DEF BackupYaml
  <2> QED
    BY <1>0, <2>1 DEF Kept, Safe
<1>5. CASE BackupEnv
  <2>1. /\ pc = "backupEnv" /\ UNCHANGED <<disk, finished>>
        /\ backups' = backups \cup {<<"env", disk.env>>}
        /\ pc' = "load"
    BY <1>5 DEF BackupEnv
  <2> QED
    BY <1>0, <2>1 DEF Kept, Safe
<1>6. CASE \/ LoadTornState \/ LoadNoState \/ ResumeSession \/ RejectSession
           \/ RefuseSession \/ ExecuteStep \/ StepThrows \/ SaveState \/ SaveFailedState
           \/ BuildResult \/ WriteYaml \/ WriteExample \/ WriteEnv \/ PromptsWritten
           \/ ValidateOk \/ FixByHand \/ GiveUp \/ Rollback
           \/ \E f \in PromptFiles : WritePrompt(f)
  <2>1. /\ pc \notin {"idle", "backupYaml", "backupEnv"}
        /\ backups' = backups /\ finished' = finished
    BY <1>6 DEF LoadTornState, LoadNoState, ResumeSession, RejectSession, RefuseSession,
       ExecuteStep, StepThrows, SaveState, SaveFailedState, BuildResult, WriteYaml,
       WriteExample, WriteEnv, WritePrompt, PromptsWritten, ValidateOk, FixByHand, GiveUp,
       Rollback
  <2> QED
    BY <1>1, <2>1
<1>7. CASE ClearState
  <2>1. /\ pc = "clear" /\ pc' = "idle" /\ UNCHANGED <<disk, backups>>
        /\ finished' = finished \cup {wiz.id}
    BY <1>7 DEF ClearState, Ended
  <2>2. disk.yaml = wiz.id /\ disk.env = wiz.id
    BY <2>1 DEF Placed
  <2> QED
    BY <2>1, <2>2 DEF Kept, Safe
<1>8. CASE Crash
  <2>1. pc' = "idle" /\ UNCHANGED <<backups, finished>> /\ pc # "idle"
    BY <1>8 DEF Crash, Ended
  <2>2. CASE pc \in {"backupYaml", "backupEnv"}
    <3>1. disk' = disk
      BY <1>8, <2>2 DEF Crash, LeavesTorn, FileAt
    <3> QED
      BY <2>1, <2>2, <3>1 DEF Kept, Safe
  <2> QED
    BY <1>1, <2>1, <2>2
<1>9. CASE WriteFails
  <2>1. /\ pc \notin {"idle", "backupYaml", "backupEnv"}
        /\ backups' = backups /\ finished' = finished
    BY <1>9 DEF WriteFails, FileAt
  <2> QED
    BY <1>1, <2>1
<1>10. CASE UNCHANGED vars
  BY <1>10 DEF vars, Kept, Safe
<1> QED
  BY <1>2, <1>3, <1>4, <1>5, <1>6, <1>7, <1>8, <1>9, <1>10 DEF Next, Run

\* Before the first run: the operator has both files in use, or neither.
LEMMA InitBase == Init => Base /\ Kept /\ Placed
<1> SUFFICES ASSUME Init PROVE Base /\ Kept /\ Placed
  OBVIOUS
<1>1. disk \in [Files -> Content] /\ prompts \in [PromptFiles -> Content]
  BY DEF Init, Files, Content
<1>2. TypeOK
  BY <1>1, NothingTyped, InitAssumption DEF Init, TypeOK, NoEnv, Env
<1>3. disk.yaml = Mine => disk.env = Mine
  BY InitAssumption DEF Init
<1> QED
  BY <1>2, <1>3 DEF Init, Base, InSession, AgentReady, EnvStarted, NoJob, Kept, Placed, Writing

\* The three invariants hold together.
LEMMA AlwaysKept == Spec => [](Base /\ Kept /\ Placed)
<1>1. Base /\ Kept /\ Placed /\ [Next]_vars => (Base /\ Kept /\ Placed)'
  BY TypeStep, ReadyStep, StartedStep, PlacedStep, KeptStep DEF Base
<1> QED
  BY <1>1, InitBase, PTL DEF Spec

\* The disk, the saved session and the running one are always well formed.
THEOREM TypeCorrect == Spec => []TypeOK
<1>1. Base => TypeOK
  BY DEF Base
<1> QED
  BY <1>1, AlwaysKept, PTL

\* No run of config:init, wherever it is killed, rejected, aborted or rolled back,
\* loses a configuration that was in use: runInteractiveInit and runAgentInit copy
\* both files before anything is written.
THEOREM ConfigurationsKept == Spec => []FinishedConfigKept
  BY AlwaysKept, KeptImplies, PTL

-----------------------------------------------------------------------------
\* Sessions can be resumed

\* Models are asked for after providers, so no model outlives its provider.
Fresh(w) == "models" \notin w.completed => w.data.models = <<>>
Sound(w) == Resumable(w) /\ Fresh(w)
Resumes == Sound(saved) /\ Sound(wiz)

\* A session without answers can be resumed.
LEMMA NothingSound ==
    \A s : Sound(NewWizard(s)) /\ Sound(NoWizard)
  BY StepNames DEF Sound, Resumable, Fresh, NewWizard, NoWizard, NoData, ToSet

\* A step answered in its turn.
LEMMA StepSound ==
    ASSUME NEW w \in WizardState, Sound(w), NEW step \in Pending(w),
           NEW d \in StepAnswers(step, w.data)
    PROVE  Sound([w EXCEPT !.data = d, !.completed = @ \cup {step}])
<1> DEFINE v == [w EXCEPT !.data = d, !.completed = @ \cup {step}]
<1>1. /\ v.data = d /\ v.completed = w.completed \cup {step}
      /\ w.data \in WizardData
  BY DEF WizardState
<1>2. PICK i \in 1 .. 5 : /\ step = WIZARD_INIT_STEPS[i]
                          /\ step \notin w.completed
                          /\ \A k \in 1 .. i - 1 : WIZARD_INIT_STEPS[k] \in w.completed
  BY StepNames DEF Pending
<1>3. step \in Steps /\ w.completed \subseteq Steps
  BY <1>2, StepNames DEF Steps, ToSet, WizardState
<1>4. d \in WizardData /\ Answered(d, step)
  BY <1>1, <1>3, AnswersTyped
<1>5. \A s \in v.completed : Answered(v.data, s)
  <2> SUFFICES ASSUME NEW s \in w.completed, s # step PROVE Answered(d, s)
    BY <1>1, <1>4
  <2>1. Answered(w.data, s)
    BY DEF Sound, Resumable
  <2>2. CASE step = "master-key"
    <3>1. \E x : d = [w.data EXCEPT !.masterKey = x]
      BY <2>2 DEF StepAnswers
    <3>2. d.providers = w.data.providers /\ d.models = w.data.models /\ d.clients = w.data.clients /\ d.server = w.data.server
      BY <1>1, <3>1 DEF WizardData
    <3> QED
      BY <1>3, <2>1, <2>2, <3>2, StepNames DEF Answered
  <2>3. CASE step = "providers"
    <3>1. \E x : d = [w.data EXCEPT !.providers = x]
      BY <2>3 DEF StepAnswers
    <3>2. d.masterKey = w.data.masterKey /\ d.models = w.data.models /\ d.clients = w.data.clients /\ d.server = w.data.server
      BY <1>1, <3>1 DEF WizardData
    <3> QED
      BY <1>3, <2>1, <2>3, <3>2, StepNames DEF Answered
  <2>4. CASE step = "models"
    <3>1. \E x : d = [w.data EXCEPT !.models = x]
      BY <2>4 DEF StepAnswers
    <3>2. d.masterKey = w.data.masterKey /\ d.providers = w.data.providers /\ d.clients = w.data.clients /\ d.server = w.data.server
      BY <1>1, <3>1 DEF WizardData
    <3> QED
      BY <1>3, <2>1, <2>4, <3>2, StepNames DEF Answered
  <2>5. CASE step = "clients"
    <3>1. \E x : d = [w.data EXCEPT !.clients = x]
      BY <2>5 DEF StepAnswers
    <3>2. d.masterKey = w.data.masterKey /\ d.providers = w.data.providers /\ d.models = w.data.models /\ d.server = w.data.server
      BY <1>1, <3>1 DEF WizardData
    <3> QED
      BY <1>3, <2>1, <2>5, <3>2, StepNames DEF Answered
  <2>6. CASE step = "server-config"
    <3>1. \E x : d = [w.data EXCEPT !.server = x]
      BY <2>6 DEF StepAnswers
    <3>2. d.masterKey = w.data.masterKey /\ d.providers = w.data.providers /\ d.models = w.data.models /\ d.clients = w.data.clients
      BY <1>1, <3>1 DEF WizardData
    <3> QED
      BY <1>3, <2>1, <2>6, <3>2, StepNames DEF Answered
  <2> QED
    BY <1>3, <2>2, <2>3, <2>4, <2>5, <2>6, StepNames
<1>6. \A a, b \in 1 .. 5 : a < b /\ WIZARD_INIT_STEPS[b] \in v.completed
                               => WIZARD_INIT_STEPS[a] \in v.completed
  <2> SUFFICES ASSUME NEW a \in 1 .. 5, NEW b \in 1 .. 5, a < b,
                      WIZARD_INIT_STEPS[b] \in w.completed \cup {step}
               PROVE  WIZARD_INIT_STEPS[a] \in w.completed
    BY <1>1
  <2>1. CASE WIZARD_INIT_STEPS[b] \in w.completed
    BY <2>1, StepNames DEF Sound, Resumable
  <2>2. CASE WIZARD_INIT_STEPS[b] = step
    <3>1. b = i
      BY <1>2, <2>2 DEF WIZARD_INIT_STEPS
    <3> QED
      BY <1>2, <3>1
  <2> QED
    BY <2>1, <2>2
<1>7. Fresh(v) /\ ModelsOwned(v.data)
  <2>1. CASE step = "models"
    <3>1. PICK m \in ModelAnswers(w.data.providers) : d = [w.data EXCEPT !.models = m]
      BY <2>1 DEF StepAnswers
    <3>2. d.models = m /\ d.providers = w.data.providers
      BY <1>1, <3>1 DEF WizardData
    <3>3. PICK of \in [DOMAIN m -> DOMAIN w.data.providers] :
              \A k \in DOMAIN m : m[k].provider = w.data.providers[of[k]].id
      BY <3>1 DEF ModelAnswers
    <3> QED
      BY <1>1, <2>1, <3>2, <3>3 DEF Fresh, ModelsOwned, ToSet
  <2>2. CASE step = "providers"
    <3>1. i = 2
      BY <1>2, <2>2 DEF WIZARD_INIT_STEPS
    <3>2. "models" \notin w.completed
      BY <1>2, <2>2, <3>1, StepNames DEF Sound, Resumable, WIZARD_INIT_STEPS
    <3>3. w.data.models = <<>>
      BY <3>2 DEF Sound, Fresh
    <3>4. d.models = <<>>
      BY <1>1, <2>2, <3>3 DEF StepAnswers, WizardData
    <3> QED
      BY <1>1, <3>4 DEF Fresh, ModelsOwned, ToSet
  <2>3. CASE step \in {"master-key", "clients", "server-config"}
    <3>1. d.models = w.data.models /\ d.providers = w.data.providers
      BY <1>1, <2>3 DEF StepAnswers, WizardData
    <3> QED
      BY <1>1, <2>3, <3>1 DEF Fresh, ModelsOwned, Sound, Resumable
  <2> QED
    BY <1>3, <2>1, <2>2, <2>3, StepNames
<1> QED
  BY <1>5, <1>6, <1>7, StepNames DEF Sound, Resumable, ModelsOwned

\* Every step leaves both states resumable.
LEMMA ResumesStep == Base /\ Resumes /\ [Next]_vars => Resumes'
<1> SUFFICES ASSUME Base, Resumes, [Next]_vars PROVE Resumes'
  OBVIOUS
<1>0. wiz \in WizardState /\ saved \in WizardState /\ Sound(wiz) /\ Sound(saved)
  BY DEF Base, TypeOK, Resumes
\* Everything but a new session and a step copies one of the two states, or
\* forgets it, or notes a file in it.
<1>1. ASSUME NEW c PROVE Sound([wiz EXCEPT !.files.created = c])
  <2>1. /\ [wiz EXCEPT !.files.created = c].completed = wiz.completed
        /\ [wiz EXCEPT !.files.created = c].data = wiz.data
    BY <1>0 DEF WizardState
  <2> HIDE <1>0
  <2> QED
    BY <1>0, <2>1 DEF Sound, Resumable, Fresh
<1>2. Sound([NoWizard EXCEPT !.id = Torn])
  BY NothingSound DEF NewWizard
<1>3. ASSUME wiz' \in {wiz, saved, NoWizard}, saved' \in {wiz, saved, NoWizard} PROVE Resumes'
  BY <1>0, <1>3, NothingSound DEF Resumes
<1>4. CASE StartInteractive \/ BackupYaml \/ BackupEnv
  BY <1>3, <1>4 DEF StartInteractive, BackupYaml, BackupEnv
<1>5. ASSUME NEW d \in AgentAnswers \cap InitAnswers, NEW force \in BOOLEAN,
             NEW overwrite \in BOOLEAN, StartAgent(d, force, overwrite)
      PROVE  Resumes'
  BY <1>3, <1>5 DEF StartAgent
<1>6. CASE \/ LoadTornState \/ ResumeSession \/ RejectSession
           \/ RefuseSession \/ StepThrows \/ SaveState \/ SaveFailedState
           \/ BuildResult \/ WriteExample \/ PromptsWritten
           \/ ValidateOk \/ FixByHand \/ GiveUp \/ Rollback \/ ClearState
  BY <1>3, <1>6 DEF LoadTornState, ResumeSession, RejectSession, RefuseSession, StepThrows,
     SaveState, SaveFailedState, BuildResult, WriteExample, PromptsWritten, ValidateOk,
     FixByHand, GiveUp, Rollback, ClearState, Ended
<1>7. CASE LoadNoState
  <2>1. wiz' = NewSession(last + 1) /\ saved' = saved
    BY <1>7 DEF LoadNoState
  <2>2. CASE job.agent
    <3> DEFINE n == NewWizard(last + 1)
    <3>1. wiz' = [n EXCEPT !.completed = Steps, !.data = job.answers]
      BY <2>1, <2>2 DEF NewSession
    <3>2. wiz'.completed = Steps /\ wiz'.data = job.answers
      BY <3>1 DEF NewWizard, NoWizard
    <3>3. \A s \in Steps : Answered(job.answers, s) /\ ModelsOwned(job.answers)
      BY <2>2 DEF Base, AgentReady
    <3>4. "models" \in Steps /\ \A i \in DOMAIN WIZARD_INIT_STEPS : WIZARD_INIT_STEPS[i] \in Steps
      BY StepNames DEF Steps, ToSet
    <3> QED
      BY <1>0, <2>1, <3>2, <3>3, <3>4 DEF Resumes, Sound, Resumable, Fresh, ModelsOwned
  <2>3. CASE ~job.agent
    BY <1>0, <2>1, <2>3, NothingSound DEF NewSession, Resumes
  <2> QED
    BY <2>2, <2>3
<1>8. CASE ExecuteStep
  <2>1. PICK step \in Pending(wiz) : \E d \in StepAnswers(step, wiz.data) :
            wiz' = [wiz EXCEPT !.data = d, !.completed = @ \cup {step}]
    BY <1>8 DEF ExecuteStep
  <2>2. saved' = saved
    BY <1>8 DEF ExecuteStep
  <2> QED
    BY <1>0, <2>1, <2>2, StepSound DEF Resumes
<1>9. CASE WriteYaml \/ WriteEnv \/ \E f \in PromptFiles : WritePrompt(f)
  <2>1. saved' = saved /\ \E c : wiz' = [wiz EXCEPT !.files.created = c]
    BY <1>9 DEF WriteYaml, WriteEnv, WritePrompt
  <2> QED
    BY <1>0, <1>1, <2>1 DEF Resumes
<1>10. CASE Crash \/ WriteFails
  <2>1. wiz' \in {wiz, NoWizard} /\ saved' \in {saved, [NoWizard EXCEPT !.id = Torn]}
    BY <1>10 DEF Crash, WriteFails, LeavesTorn, Ended
  <2> QED
    BY <1>0, <1>2, <2>1, NothingSound DEF Resumes
<1>11. CASE UNCHANGED vars
  BY <1>3, <1>11 DEF vars
<1> QED
  BY <1>4, <1>5, <1>6, <1>7, <1>8, <1>9, <1>10, <1>11 DEF Next, Run

\* A session killed or failed at any point leaves a state file that executeStep
\* and buildResult can go on from: no answer is missing and none dangles.
THEOREM Resumability == Spec => []SessionsResumable
<1>1. Init => Resumes
  BY NothingSound DEF Init, Resumes
<1>2. Resumes => SessionsResumable
  BY DEF Resumes, Sound, SessionsResumable
<1> QED
  BY <1>1, <1>2, ResumesStep, AlwaysKept, PTL DEF Spec

-----------------------------------------------------------------------------
\* Prompts are left alone

\* Nothing is noted as created before the files are written, and no state file
\* notes any; what is noted of the prompts is the running session's own.
Before == {"idle", "backupYaml", "backupEnv", "load", "step", "save", "saveFailed"}
NothingNoted == /\ saved.files.created = {}
                /\ pc \in Before => wiz.files.created = {}
NotedOwn == \A f \in PromptFiles : f \in wiz.files.created => prompts[f] = wiz.id
Noted == NothingNoted /\ NotedOwn

\* A state that notes no file rolls nothing of the prompts back.
LEMMA NothingRolledBack ==
    ASSUME Base, NEW w \in WizardState, w.files.created = {}
    PROVE  RollbackPrompts(w) = prompts
<1>1. prompts \in [PromptFiles -> Content]
  BY DEF Base, TypeOK
<1> QED
  BY <1>1 DEF RollbackPrompts, Unlinked

\* A prompt in its turn is missing, so the session has not noted it.
LEMMA TurnsAreMissing ==
    ASSUME NEW f, PromptTurn(f)
    PROVE  prompts[f] = Absent
  BY DEF PromptTurn, MissingPrompts

\* Every step keeps what is noted the session's own.
LEMMA NotedStep == Base /\ Noted /\ [Next]_vars => Noted'
<1> SUFFICES ASSUME Base, Noted, [Next]_vars PROVE Noted'
  OBVIOUS
<1>0. /\ wiz \in WizardState /\ saved \in WizardState
      /\ prompts \in [PromptFiles -> Content]
  BY DEF Base, TypeOK
<1>1. /\ NoWizard.files.created = {} /\ [NoWizard EXCEPT !.id = Torn].files.created = {}
      /\ \A s : NewWizard(s).files.created = {} /\ NewSession(s).files.created = {}
  BY DEF NoWizard, NoFiles, NewWizard, NewSession
\* A process that holds no noted file, wherever it is.
<1>2. ASSUME wiz'.files.created = {}, saved'.files.created = {} PROVE Noted'
  BY <1>2 DEF Noted, NothingNoted, NotedOwn
<1>3. CASE StartInteractive \/ BackupYaml \/ BackupEnv \/ ResumeSession \/ RejectSession
           \/ LoadNoState
  <2>1. pc \in Before
    BY <1>3 DEF Before, StartInteractive, BackupYaml, BackupEnv, ResumeSession,
       RejectSession, LoadNoState
  <2>2. wiz' \in {wiz, saved, NewSession(last + 1)} /\ saved' \in {saved, NoWizard}
    BY <1>3 DEF StartInteractive, BackupYaml, BackupEnv, ResumeSession,
       RejectSession, LoadNoState
  <2> QED
    BY <1>1, <1>2, <2>1, <2>2 DEF Noted, NothingNoted
<1>4. ASSUME NEW d \in AgentAnswers \cap InitAnswers, NEW force \in BOOLEAN,
             NEW overwrite \in BOOLEAN, StartAgent(d, force, overwrite)
      PROVE  Noted'
  <2>1. pc \in Before /\ wiz' = wiz /\ saved' = saved
    BY <1>4 DEF Before, StartAgent
  <2> QED
    BY <1>2, <2>1 DEF Noted, NothingNoted
<1>5. CASE LoadTornState \/ RefuseSession \/ SaveFailedState \/ Rollback \/ ClearState
  <2>1. wiz' = NoWizard
    BY <1>5 DEF LoadTornState, RefuseSession, SaveFailedState, Rollback, ClearState, Ended
  <2>2. saved'.files.created = {}
    BY <1>1, <1>5 DEF LoadTornState, RefuseSession, SaveFailedState, Rollback, ClearState,
       Noted, NothingNoted, Before
  <2> QED
    BY <1>1, <1>2, <2>1, <2>2
<1>6. CASE ExecuteStep
  <2>1. /\ pc \in Before /\ saved' = saved
        /\ \E d, c : wiz' = [wiz EXCEPT !.data = d, !.completed = c]
    BY <1>6 DEF ExecuteStep, Before
  <2>2. wiz'.files = wiz.files
    BY <1>0, <2>1 DEF WizardState
  <2> QED
    BY <1>2, <2>1, <2>2 DEF Noted, NothingNoted
<1>7. CASE StepThrows \/ SaveState \/ BuildResult
  <2>1. pc \in Before /\ wiz' = wiz /\ saved' \in {wiz, saved}
    BY <1>7 DEF StepThrows, SaveState, BuildResult, Before
  <2> QED
    BY <1>2, <2>1 DEF Noted, NothingNoted
<1>8. CASE WriteYaml \/ WriteEnv
  <2>1. /\ pc' \notin Before /\ saved' = saved /\ prompts' = prompts
        /\ \E C \in SUBSET Files : wiz' = [wiz EXCEPT !.files.created = @ \cup C]
    BY <1>8 DEF WriteYaml, WriteEnv, Before, Files
  <2>2. PICK C \in SUBSET Files : wiz' = [wiz EXCEPT !.files.created = @ \cup C]
    BY <2>1
  <2>3. wiz'.files.created = wiz.files.created \cup C /\ wiz'.id = wiz.id
    BY <1>0, <2>2 DEF WizardState
  <2>4. \A f \in PromptFiles : f \notin C
    BY InitAssumption DEF PromptFiles, Files
  <2> QED
    BY <2>1, <2>3, <2>4 DEF Noted, NothingNoted, NotedOwn
<1>9. ASSUME NEW f \in PromptFiles, WritePrompt(f) PROVE Noted'
  <2>1. /\ pc' \notin Before /\ saved' = saved
        /\ prompts' = [prompts EXCEPT ![f] = wiz.id]
        /\ wiz' = [wiz EXCEPT !.files.created = @ \cup {f}]
    BY <1>9 DEF WritePrompt, Before
  <2>2. wiz'.files.created = wiz.files.created \cup {f} /\ wiz'.id = wiz.id
    BY <1>0, <2>1 DEF WizardState
  <2> QED
    BY <1>0, <2>1, <2>2 DEF Noted, NothingNoted, NotedOwn
<1>10. CASE WriteExample \/ PromptsWritten \/ ValidateOk \/ FixByHand \/ GiveUp
  <2>1. /\ pc' \notin Before /\ UNCHANGED <<wiz, saved, prompts>>
    BY <1>10 DEF WriteExample, PromptsWritten, ValidateOk, FixByHand, GiveUp, Before
  <2> QED
    BY <2>1 DEF Noted, NothingNoted, NotedOwn
<1>11. CASE Crash \/ WriteFails
  <2>1. saved'.files.created = {}
    BY <1>1, <1>11 DEF Crash, WriteFails, LeavesTorn, Noted, NothingNoted
  <2>2. CASE wiz' = NoWizard
    BY <1>1, <1>2, <2>1, <2>2
  <2>3. CASE wiz' # NoWizard
    <3>1. WriteFails /\ pc' = "rollback" /\ wiz' = wiz
      BY <1>11, <2>3 DEF Crash, WriteFails, Ended
    <3>2. wiz.id \in Sessions
      BY <3>1 DEF WriteFails, FileAt, Base, InSession, Writing
    <3>3. \/ prompts' = prompts
          \/ \E f \in PromptFiles : PromptTurn(f) /\ prompts' = [prompts EXCEPT ![f] = Torn]
      BY <3>1 DEF WriteFails, LeavesTorn
    <3>4. \A g \in PromptFiles : g \in wiz.files.created => prompts'[g] = wiz.id
      BY <1>0, <3>2, <3>3, TurnsAreMissing, Contents DEF Noted, NotedOwn
    <3> QED
      BY <2>1, <3>1, <3>4 DEF Noted, NothingNoted, NotedOwn, Before
  <2> QED
    BY <2>2, <2>3
<1>12. CASE UNCHANGED vars
  BY <1>12 DEF vars, Noted, NothingNoted, NotedOwn
<1> QED
  BY <1>3, <1>4, <1>5, <1>6, <1>7, <1>8, <1>9, <1>10, <1>11, <1>12 DEF Next, Run

\* Under that invariant a step changes a prompt only when it was missing or was
\* the running session's own.
LEMMA PromptStep ==
    Base /\ Noted /\ [Next]_vars
        => \A f \in PromptFiles : prompts[f] \notin {Absent, wiz.id} => prompts'[f] = prompts[f]
<1> SUFFICES ASSUME Base, Noted, [Next]_vars, NEW f \in PromptFiles,
                    prompts[f] \notin {Absent, wiz.id}
             PROVE  prompts'[f] = prompts[f]
  OBVIOUS
<1>0. /\ wiz \in WizardState /\ saved \in WizardState
      /\ prompts \in [PromptFiles -> Content]
  BY DEF Base, TypeOK
<1>1. CASE RejectSession
  BY <1>0, <1>1, NothingRolledBack DEF RejectSession, Noted, NothingNoted
<1>2. CASE Rollback
  BY <1>0, <1>2 DEF Rollback, RollbackPrompts, Unlinked, Noted, NotedOwn
<1>3. ASSUME NEW g \in PromptFiles, WritePrompt(g) PROVE prompts'[f] = prompts[f]
  BY <1>0, <1>3, TurnsAreMissing DEF WritePrompt
<1>4. CASE Crash \/ WriteFails
  <2>1. \/ prompts' = prompts
        \/ \E g \in PromptFiles : PromptTurn(g) /\ prompts' = [prompts EXCEPT ![g] = Torn]
    BY <1>4 DEF Crash, WriteFails, LeavesTorn
  <2> QED
    BY <1>0, <2>1, TurnsAreMissing
<1>5. CASE StartInteractive \/ BackupYaml \/ BackupEnv \/ LoadTornState \/ LoadNoState
           \/ ResumeSession \/ RefuseSession \/ ExecuteStep \/ StepThrows \/ SaveState
           \/ SaveFailedState \/ BuildResult \/ WriteYaml \/ WriteExample \/ WriteEnv
           \/ PromptsWritten \/ ValidateOk \/ FixByHand \/ GiveUp \/ ClearState
           \/ UNCHANGED vars
  BY <1>5 DEF StartInteractive, BackupYaml, BackupEnv, LoadTornState, LoadNoState,
     ResumeSession, RefuseSession, ExecuteStep, StepThrows, SaveState, SaveFailedState,
     BuildResult, WriteYaml, WriteExample, WriteEnv, PromptsWritten, ValidateOk, FixByHand,
     GiveUp, ClearState, vars
<1>6. ASSUME NEW d \in AgentAnswers \cap InitAnswers, NEW force \in BOOLEAN,
             NEW overwrite \in BOOLEAN, StartAgent(d, force, overwrite)
      PROVE  prompts'[f] = prompts[f]
  BY <1>6 DEF StartAgent
<1> QED
  BY <1>1, <1>2, <1>3, <1>4, <1>5, <1>6 DEF Next, Run

\* No run, rejection, rollback or killed process changes or removes one of the
\* operator's own prompts or one of a session that is over (generateModelPrompt
\* returns on a file that exists, and rollback unlinks only what
\* state.files.created names).
THEOREM PromptsLeftAlone == Spec => PromptsUntouched
<1>1. Init => Noted
  BY DEF Init, Noted, NothingNoted, NotedOwn, NoWizard, NoFiles
<1>2. Spec => []Noted
  BY <1>1, NotedStep, AlwaysKept, PTL DEF Spec
<1>3. Base /\ Noted /\ [Next]_vars
        => [\A f \in PromptFiles :
                prompts[f] \in ({Mine} \cup Sessions) \ {wiz.id, saved.id}
                    => prompts'[f] = prompts[f]]_vars
  BY PromptStep, Contents
<1> QED
  BY <1>2, <1>3, AlwaysKept, PTL DEF Spec, PromptsUntouched

-----------------------------------------------------------------------------
\* Success is complete

\* The server answers of a session say so when the semantic cache is on.
Told(d) ==
    "semantic" \in operator.shell.good /\ d.server # {} => "semantic" \in d.server
AnswersTold == Told(saved.data) /\ Told(wiz.data) /\ (job.agent => Told(job.answers))

\* How far a session's files are when it comes to report success.
Written == {"writeExample", "writeEnv", "writePrompts", "validate", "clear"}
Progress ==
    /\ DOMAIN made = Sessions
    /\ report = "success" => pc = "idle"
    /\ pc \in Writing \cup Written => "server-config" \in wiz.completed
    /\ pc \in Written => disk.yaml = wiz.id /\ made[wiz.id] = wiz.data
    /\ pc \in Written \ {"writeExample"} => disk.example = wiz.id
    /\ pc \in Written \ {"writeExample", "writeEnv"} => disk.env = wiz.id
    /\ pc \in {"validate", "clear"} =>
           \A f \in WantedPrompts(wiz.data) : prompts[f] # Absent
    /\ pc = "clear" => usable

\* The shell stays as it is.
LEMMA OperatorFixed == [Next]_vars => operator' = operator
  BY DEF Next, Run, vars, StartInteractive, StartAgent, BackupYaml, BackupEnv, LoadTornState,
     LoadNoState, ResumeSession, RejectSession, RefuseSession, ExecuteStep, StepThrows,
     SaveState, SaveFailedState, BuildResult, WriteYaml, WriteExample, WriteEnv, WritePrompt,
     PromptsWritten, ValidateOk, FixByHand, GiveUp, Rollback, ClearState, Crash, WriteFails

\* A new process knows of no answer, and an answers file was completed when its
\* process began.
LEMMA ToldStep == Base /\ AnswersTold /\ [Next]_vars => AnswersTold'
<1> SUFFICES ASSUME Base, AnswersTold, [Next]_vars PROVE AnswersTold'
  OBVIOUS
<1>0. wiz \in WizardState /\ saved \in WizardState
  BY DEF Base, TypeOK
<1>1. /\ Told(NoWizard.data) /\ Told([NoWizard EXCEPT !.id = Torn].data)
      /\ \A s : NewWizard(s).data = NoData
  BY DEF Told, NoWizard, NoData, NewWizard
<1>o. operator' = operator
  BY OperatorFixed
<1>2. ASSUME Told(wiz'.data), Told(saved'.data), job' \in {job, NoJob} PROVE AnswersTold'
  BY <1>o, <1>2 DEF AnswersTold, Told, NoJob
<1>3. ASSUME wiz'.data \in {wiz.data, saved.data, NoWizard.data},
             saved'.data \in {wiz.data, saved.data, NoWizard.data,
                              [NoWizard EXCEPT !.id = Torn].data},
             job' \in {job, NoJob}
      PROVE  AnswersTold'
  BY <1>1, <1>2, <1>3 DEF AnswersTold
<1>4. ASSUME NEW d \in AgentAnswers \cap InitAnswers, NEW force \in BOOLEAN,
             NEW overwrite \in BOOLEAN, StartAgent(d, force, overwrite)
      PROVE  AnswersTold'
  <2>0. PICK sem : sem = SemanticOn(penv')
    OBVIOUS
  <2> DEFINE e == [d EXCEPT !.server = @ \cup sem]
  <2>1. /\ wiz' = wiz /\ saved' = saved
        /\ job' = job \/ (LoadEnv /\ job'.answers = e)
    <3>1. /\ wiz' = wiz /\ saved' = saved
          /\ \/ job' = job
             \/ LoadEnv /\ job' = [agent |-> TRUE, force |-> force,
                     answers |-> [d EXCEPT !.server = @ \cup SemanticOn(penv')]]
      BY <1>4 DEF StartAgent
    <3> QED
      BY <2>0, <3>1
  <2>2. ASSUME LoadEnv PROVE Told(e)
    <3>1. penv'.good \cap operator'.shell.names = operator'.shell.good
      BY <1>o, <2>2, LoadTyped DEF Base, Started
    <3>2. "semantic" \in operator.shell.good => "semantic" \in sem
      BY <1>o, <2>0, <3>1 DEF SemanticOn
    <3>3. e.server = d.server \cup sem
      BY DEF InitAnswers
    <3> HIDE DEF e
    <3> QED
      BY <3>2, <3>3 DEF Told
  <2> HIDE DEF e
  <2> QED
    BY <1>o, <2>1, <2>2 DEF AnswersTold, Told
<1>5. CASE StartInteractive \/ BackupYaml \/ BackupEnv \/ LoadTornState \/ ResumeSession
           \/ RejectSession \/ RefuseSession \/ StepThrows \/ SaveState \/ SaveFailedState
           \/ BuildResult \/ WriteExample \/ PromptsWritten \/ ValidateOk \/ FixByHand
           \/ GiveUp \/ Rollback \/ ClearState \/ UNCHANGED vars
  BY <1>3, <1>5 DEF StartInteractive, BackupYaml, BackupEnv, LoadTornState, ResumeSession,
     RejectSession, RefuseSession, StepThrows, SaveState, SaveFailedState, BuildResult,
     WriteExample, PromptsWritten, ValidateOk, FixByHand, GiveUp, Rollback, ClearState,
     Ended, vars
<1>6. CASE LoadNoState
  <2>1. wiz' = NewSession(last + 1) /\ saved' = saved /\ job' = job
    BY <1>6 DEF LoadNoState
  <2>2. wiz'.data = IF job.agent THEN job.answers ELSE NoData
    BY <2>1 DEF NewSession, NewWizard, NoWizard
  <2> QED
    BY <1>o, <2>1, <2>2 DEF AnswersTold, Told, NoData
<1>7. CASE ExecuteStep
  <2>1. /\ saved' = saved /\ job' = job
        /\ \E step \in Pending(wiz) : \E d \in StepAnswers(step, wiz.data) :
               wiz' = [wiz EXCEPT !.data = d, !.completed = @ \cup {step}]
    BY <1>7 DEF ExecuteStep
  <2>2. PICK step \in Pending(wiz) : \E d \in StepAnswers(step, wiz.data) :
               wiz' = [wiz EXCEPT !.data = d, !.completed = @ \cup {step}]
    BY <2>1
  <2>3. PICK d \in StepAnswers(step, wiz.data) :
               wiz' = [wiz EXCEPT !.data = d, !.completed = @ \cup {step}]
    BY <2>2
  <2>4. wiz'.data = d /\ wiz.data \in WizardData /\ step \in Steps
    BY <1>0, <2>2, <2>3 DEF WizardState, Pending, Steps, ToSet
  <2>5. CASE step = "server-config"
    <3>1. PICK v \in ServerAnswers : d = [wiz.data EXCEPT !.server = v]
      BY <2>3, <2>5 DEF StepAnswers
    <3>2. "semantic" \in operator.shell.good => "semantic" \in v
      <4>1. penv.good \cap operator.shell.names = operator.shell.good
        BY <1>7 DEF ExecuteStep, Base, EnvStarted, Started
      <4>2. "semantic" \in operator.shell.good => "semantic" \in SemanticOn(penv)
        BY <4>1 DEF SemanticOn
      <4> QED
        BY <3>1, <4>2 DEF ServerAnswers
    <3>3. d.server = v
      BY <2>4, <3>1 DEF WizardData
    <3> QED
      BY <1>o, <2>1, <2>4, <3>2, <3>3 DEF AnswersTold, Told
  <2>6. CASE step # "server-config"
    <3>1. d.server = wiz.data.server
      BY <2>3, <2>4, <2>6, StepNames DEF StepAnswers, WizardData
    <3> QED
      BY <1>o, <2>1, <2>4, <3>1 DEF AnswersTold, Told
  <2> QED
    BY <2>5, <2>6
<1>8. CASE WriteYaml \/ WriteEnv \/ \E f \in PromptFiles : WritePrompt(f)
  <2>1. saved' = saved /\ job' = job /\ \E c : wiz' = [wiz EXCEPT !.files.created = c]
    BY <1>8 DEF WriteYaml, WriteEnv, WritePrompt
  <2>2. wiz'.data = wiz.data
    BY <1>0, <2>1 DEF WizardState
  <2> QED
    BY <1>3, <2>1, <2>2
<1>9. CASE Crash \/ WriteFails
  <2>1. /\ wiz' \in {wiz, NoWizard} /\ saved' \in {saved, [NoWizard EXCEPT !.id = Torn]}
        /\ job' \in {job, NoJob}
    BY <1>9 DEF Crash, WriteFails, LeavesTorn, Ended
  <2> QED
    BY <1>3, <2>1
<1> QED
  BY <1>4, <1>5, <1>6, <1>7, <1>8, <1>9 DEF Next, Run

\* buildResult is reached with every step completed.
LEMMA NonePending ==
    ASSUME NEW w, Pending(w) = {}
    PROVE  "server-config" \in w.completed
<1>1. \A j \in 1 .. 5 : \/ WIZARD_INIT_STEPS[j] \in w.completed
                        \/ \E k \in 1 .. j - 1 : WIZARD_INIT_STEPS[k] \notin w.completed
  BY StepNames DEF Pending
<1>2. WIZARD_INIT_STEPS[1] \in w.completed
  BY <1>1
<1>3. WIZARD_INIT_STEPS[2] \in w.completed
  BY <1>1, <1>2
<1>4. WIZARD_INIT_STEPS[3] \in w.completed
  BY <1>1, <1>2, <1>3
<1>5. WIZARD_INIT_STEPS[4] \in w.completed
  BY <1>1, <1>2, <1>3, <1>4
<1>6. WIZARD_INIT_STEPS[5] \in w.completed
  BY <1>1, <1>2, <1>3, <1>4, <1>5
<1> QED
  BY <1>6 DEF WIZARD_INIT_STEPS

\* A .env made from the answers has the Redis group the gateway will ask for.
LEMMA RedisWritten ==
    ASSUME NEW d \in WizardData, Told(d), d.server # {}
    PROVE  RedisRequired(EnvOf(d).good \cup SemanticOn(operator.shell)) => WritesRedis(d)
<1>1. \A i \in DOMAIN d.providers : d.providers[i] \in Provider
  BY DEF WizardData
<1> DEFINE vals == UNION {{v \in d.providers[i].typed \cap Refs(d.providers[i]) :
                              \A j \in DOMAIN d.providers :
                                  i < j => v \notin Refs(d.providers[j])} :
                          i \in DOMAIN d.providers}
           numbers == {"MASTER_KEY", "CACHE_TTL"}
                         \cup (IF WritesRedis(d) THEN {"REDIS_PORT"} ELSE {})
<1>2. vals \subseteq Secrets
  BY <1>1, RefsTyped
<1>3. vals \cap Switches = {}
  BY <1>2, InitAssumption DEF Settings
<1>4. EnvOf(d).good = numbers \cup (d.server \cap (Switches \ {"semantic"})) \cup vals
  BY DEF EnvOf
<1>5. numbers \cap Switches = {}
  BY DEF Switches
<1> HIDE DEF vals, numbers
<1>6. EnvOf(d).good \cap Switches \subseteq d.server \ {"semantic"}
  BY <1>3, <1>4, <1>5
<1>7. SemanticOn(operator.shell) \subseteq d.server \cap {"semantic"}
  BY DEF SemanticOn, Told
<1> QED
  BY <1>6, <1>7 DEF RedisRequired, WritesRedis, Switches

\* What a provider of an accepted structure needs is in the .env if it was typed:
\* no later row sets the variable again.
LEMMA TypedIsWritten ==
    ASSUME NEW d \in WizardData, Structured(d), NEW p \in Enabled(d), Needs(p) \in p.typed
    PROVE  Needs(p) \in EnvOf(d).good
<1>1. PICK i \in DOMAIN d.providers :
          /\ p = d.providers[i]
          /\ \A j \in DOMAIN d.providers : d.providers[j].id = p.id => j <= i
  BY DEF Enabled, Rows
<1>2. \A j \in DOMAIN d.providers : d.providers[j] \in Provider /\ d.providers[j].id \in Ids
  <2>1. d.providers \in Seq(Provider)
    BY DEF WizardData
  <2>2. \A q \in Provider : q.id \in Ids
    BY DEF Provider
  <2> QED
    BY <2>1, <2>2
<1>3. DOMAIN d.providers \subseteq Nat
  BY DEF WizardData
<1>4. \A j \in DOMAIN d.providers : i < j => Needs(p) \notin Refs(d.providers[j])
  <2> SUFFICES ASSUME NEW j \in DOMAIN d.providers, i < j, Needs(p) \in Refs(d.providers[j])
               PROVE  FALSE
    OBVIOUS
  <2>1. ApiKeyRef[p.id] = ApiKeyRef[d.providers[j].id]
    <3>1. /\ Needs(p) \in {ApiKeyRef[p.id], BaseUrlRef[p.id]}
          /\ Needs(p) \in {ApiKeyRef[d.providers[j].id], BaseUrlRef[d.providers[j].id]}
      BY DEF Needs, Refs
    <3>2. p.id \in Ids /\ d.providers[j].id \in Ids
      BY <1>1, <1>2
    <3> QED
      BY <3>1, <3>2, InitAssumption
  <2>2. d.providers[j].id = p.id
    BY <1>1, <2>1 DEF Structured, ToSet
  <2> QED
    BY <1>1, <1>3, <2>2
<1>5. Needs(p) \in p.typed \cap Refs(p)
  BY <1>1, <1>2, RefsTyped
<1>6. Needs(p) \in {v \in d.providers[i].typed \cap Refs(d.providers[i]) :
                      \A j \in DOMAIN d.providers : i < j => v \notin Refs(d.providers[j])}
  BY <1>1, <1>4, <1>5
<1> DEFINE vals == UNION {{v \in d.providers[k].typed \cap Refs(d.providers[k]) :
                              \A j \in DOMAIN d.providers :
                                  k < j => v \notin Refs(d.providers[j])} :
                          k \in DOMAIN d.providers}
<1>7. Needs(p) \in vals
  BY <1>6
<1>8. vals \subseteq EnvOf(d).good
  BY DEF EnvOf
<1> QED
  BY <1>7, <1>8

\* A variable the new .env sets well, and which the check against an older
\* environment found well, is well in the shell the gateway starts in.
LEMMA SeenByGateway ==
    ASSUME NEW shell \in Env, NEW env \in Env, NEW file \in Env, NEW v,
           shell.names \subseteq env.names, env.good \cap shell.names = shell.good,
           v \in Merge(env, file).good, v \in file.good
    PROVE  v \in Merge(shell, file).good
  BY DEF Merge, Env

\* Answers that the check accepts leave files that the gateway boots from, in
\* spite of what the process had loaded from the .env before.
LEMMA AcceptedBoots ==
    ASSUME Base, Started, NEW d \in WizardData, Told(d), d.server # {},
           NEW missing \in BOOLEAN, missing => Deferred(d),
           Validates(d, Merge(penv, EnvOf(d)), missing)
    PROVE  Boots(d)
<1>1. operator.shell \in Env /\ penv \in Env /\ EnvOf(d) \in Env
  BY InitAssumption, EnvOfTyped DEF Base, TypeOK
<1>2. PICK shell \in Env : shell = operator.shell
  BY <1>1
<1>3. PICK file \in Env : file = EnvOf(d)
  BY <1>1
<1>4. shell.names \subseteq penv.names /\ penv.good \cap shell.names = shell.good
  BY <1>2 DEF Started
<1>5. "MASTER_KEY" \in file.good /\ "CACHE_TTL" \in file.good
  BY <1>3 DEF EnvOf
<1>6. "REDIS_PORT" \in file.names => "REDIS_PORT" \in file.good
  <2>1. \A i \in DOMAIN d.providers : Refs(d.providers[i]) \subseteq Secrets
    BY RefsTyped DEF WizardData
  <2>2. "REDIS_PORT" \notin Secrets
    BY InitAssumption DEF Settings
  <2> QED
    BY <1>3, <2>1, <2>2 DEF EnvOf, Switches
<1>7. /\ Structured(d) /\ "MASTER_KEY" \in Merge(penv, file).good
      /\ EnvironmentValid(Merge(penv, file))
      /\ missing \/ \A p \in Enabled(d) : Needs(p) \in Merge(penv, file).good
  BY <1>3 DEF Validates
<1>8. "MASTER_KEY" \in Merge(shell, file).good
  BY <1>1, <1>4, <1>5, <1>7, SeenByGateway
<1>9. "CACHE_TTL" \in Merge(shell, file).good
  <2>1. "CACHE_TTL" \in Merge(penv, file).names
    BY <1>1, <1>5 DEF Merge, Env
  <2>2. "CACHE_TTL" \in Merge(penv, file).good
    BY <1>7, <2>1 DEF EnvironmentValid
  <2> QED
    BY <1>1, <1>4, <1>5, <2>2, SeenByGateway
<1>10. \/ "REDIS_PORT" \in shell.names \ shell.good
       \/ "REDIS_PORT" \in Merge(shell, file).names => "REDIS_PORT" \in Merge(shell, file).good
  BY <1>6 DEF Merge
<1>11. EnvironmentValid(Merge(shell, file)) \/ "REDIS_PORT" \in shell.names \ shell.good
  BY <1>9, <1>10 DEF EnvironmentValid
<1>12. ASSUME NEW p \in Enabled(d), Needs(p) \in p.typed PROVE Needs(p) \in Merge(shell, file).good
  <2>1. Needs(p) \in file.good
    BY <1>3, <1>7, <1>12, TypedIsWritten
  <2>2. ~missing
    <3>1. PICK i \in DOMAIN d.providers : p = d.providers[i]
      BY DEF Enabled, Rows
    <3> QED
      BY <1>12, <3>1 DEF Deferred
  <2>3. Needs(p) \in Merge(penv, file).good
    BY <1>7, <2>2
  <2>4. PICK v : v = Needs(p)
    OBVIOUS
  <2> QED
    BY <1>1, <1>4, <2>1, <2>3, <2>4, SeenByGateway
<1>13. RedisRequired(EnvOf(d).good \cup SemanticOn(operator.shell)) => WritesRedis(d)
  BY RedisWritten
<1> QED
  BY <1>2, <1>3, <1>7, <1>8, <1>11, <1>12, <1>13 DEF Boots

\* An agent writes the answers it came with and asks nobody.
AgentWrites ==
    job.agent => /\ pc \notin {"step", "save", "saveFailed"}
                 /\ pc \in Writing \cup Written => wiz.data = job.answers

\* With an answers file the wizard asks nothing: the answers are what it writes.
LEMMA AgentWritesStep == Base /\ AgentWrites /\ [Next]_vars => AgentWrites'
<1> SUFFICES ASSUME Base, AgentWrites, [Next]_vars PROVE AgentWrites'
  OBVIOUS
<1>0. wiz \in WizardState
  BY DEF Base, TypeOK
<1>1. ASSUME pc' \in {"idle", "backupYaml", "backupEnv", "load", "rollback"} PROVE AgentWrites'
  BY <1>1 DEF AgentWrites, Writing, Written
<1>2. ASSUME job' = job, ~job.agent PROVE AgentWrites'
  BY <1>2 DEF AgentWrites
<1>3. ASSUME job' = job, wiz'.data = wiz.data, pc \in Writing \cup Written,
             pc' \in Writing \cup Written
      PROVE  AgentWrites'
  BY <1>3 DEF AgentWrites, Writing, Written
<1>4. CASE StartInteractive \/ BackupYaml \/ BackupEnv \/ LoadTornState \/ RejectSession
           \/ RefuseSession \/ SaveFailedState \/ GiveUp \/ Rollback \/ ClearState \/ Crash
           \/ WriteFails
  BY <1>1, <1>4 DEF StartInteractive, BackupYaml, BackupEnv, LoadTornState, RejectSession,
     RefuseSession, SaveFailedState, GiveUp, Rollback, ClearState, Crash, WriteFails, Ended
<1>5. ASSUME NEW d \in AgentAnswers \cap InitAnswers, NEW force \in BOOLEAN,
             NEW overwrite \in BOOLEAN, StartAgent(d, force, overwrite)
      PROVE  AgentWrites'
  BY <1>1, <1>5 DEF StartAgent
<1>6. CASE LoadNoState
  <2>1. /\ job' = job /\ pc' = IF job.agent THEN "writeYaml" ELSE "step"
        /\ wiz' = NewSession(last + 1)
    BY <1>6 DEF LoadNoState
  <2>2. job.agent => wiz'.data = job.answers
    BY <2>1 DEF NewSession, NewWizard, NoWizard
  <2> QED
    BY <2>1, <2>2 DEF AgentWrites
<1>7. CASE ResumeSession \/ ExecuteStep \/ StepThrows \/ SaveState \/ BuildResult
  BY <1>2, <1>7 DEF ResumeSession, ExecuteStep, StepThrows, SaveState, BuildResult, AgentWrites
<1>8. CASE WriteYaml \/ WriteEnv \/ \E f \in PromptFiles : WritePrompt(f)
  <2>1. /\ job' = job /\ \E c : wiz' = [wiz EXCEPT !.files.created = c]
        /\ pc \in Writing \cup Written /\ pc' \in Writing \cup Written
    BY <1>8 DEF WriteYaml, WriteEnv, WritePrompt, Writing, Written
  <2>2. wiz'.data = wiz.data
    BY <1>0, <2>1 DEF WizardState
  <2> QED
    BY <1>3, <2>1, <2>2
<1>9. CASE WriteExample \/ PromptsWritten \/ ValidateOk \/ FixByHand
  BY <1>3, <1>9 DEF WriteExample, PromptsWritten, ValidateOk, FixByHand, Writing, Written
<1>10. CASE UNCHANGED vars
  BY <1>10 DEF vars, AgentWrites
<1> QED
  BY <1>4, <1>5, <1>6, <1>7, <1>8, <1>9, <1>10 DEF Next, Run

\* A prompt is cut short only by a killed process or a failed write.
TornKnown == crashes \in Nat /\ (prompts["master"] = Torn => crashes > 0)

\* Only a write that was cut short leaves an empty master prompt.
LEMMA TornStep == Base /\ TornKnown /\ [Next]_vars => TornKnown'
<1> SUFFICES ASSUME Base, TornKnown, [Next]_vars PROVE TornKnown'
  OBVIOUS
<1>0. prompts \in [PromptFiles -> Content] /\ "master" \in PromptFiles
  BY DEF Base, TypeOK, PromptFiles
<1>1. ASSUME UNCHANGED <<prompts, crashes>> PROVE TornKnown'
  BY <1>1 DEF TornKnown
<1>2. ASSUME prompts'["master"] # Torn, crashes' = crashes PROVE TornKnown'
  BY <1>2 DEF TornKnown
<1>3. CASE Crash \/ WriteFails
  BY <1>3 DEF Crash, WriteFails, TornKnown
<1>4. CASE RejectSession \/ Rollback
  BY <1>0, <1>4, Contents DEF RejectSession, Rollback, RollbackPrompts, TornKnown
<1>5. ASSUME NEW f \in PromptFiles, WritePrompt(f) PROVE TornKnown'
  <2>1. wiz.id \in Sessions /\ wiz.id # Torn
    BY <1>5, Contents DEF WritePrompt, Base, InSession, Writing
  <2> QED
    BY <1>0, <1>5, <2>1 DEF WritePrompt, TornKnown
<1>6. CASE StartInteractive \/ BackupYaml \/ BackupEnv \/ LoadTornState \/ LoadNoState
           \/ ResumeSession \/ RefuseSession \/ ExecuteStep \/ StepThrows \/ SaveState
           \/ SaveFailedState \/ BuildResult \/ WriteYaml \/ WriteExample \/ WriteEnv
           \/ PromptsWritten \/ ValidateOk \/ FixByHand \/ GiveUp \/ ClearState
           \/ UNCHANGED vars
  BY <1>1, <1>6 DEF StartInteractive, BackupYaml, BackupEnv, LoadTornState, LoadNoState,
     ResumeSession, RefuseSession, ExecuteStep, StepThrows, SaveState, SaveFailedState,
     BuildResult, WriteYaml, WriteExample, WriteEnv, PromptsWritten, ValidateOk, FixByHand,
     GiveUp, ClearState, vars
<1>7. ASSUME NEW d \in AgentAnswers \cap InitAnswers, NEW force \in BOOLEAN,
             NEW overwrite \in BOOLEAN, StartAgent(d, force, overwrite)
      PROVE  TornKnown'
  BY <1>1, <1>7 DEF StartAgent
<1> QED
  BY <1>3, <1>4, <1>5, <1>6, <1>7 DEF Next, Run

\* Every step keeps the files of the session where generateFullConfig has put them.
LEMMA ProgressStep == Base /\ Progress /\ [Next]_vars => Progress'
<1> SUFFICES ASSUME Base, Progress, [Next]_vars PROVE Progress'
  OBVIOUS
<1>0. /\ disk \in [Files -> Content] /\ wiz \in WizardState
      /\ pc \in Writing => wiz.id \in Sessions
      /\ DOMAIN made = Sessions
  BY DEF Base, TypeOK, InSession, Progress
<1> DEFINE Early == {"idle", "backupYaml", "backupEnv", "load", "step", "save",
                     "saveFailed", "rollback"}
\* Outside the writing of files only the report is at stake.
<1>1. ASSUME pc' \in Early, made' = made, report' = "success" => pc' = "idle" PROVE Progress'
  BY <1>0, <1>1 DEF Progress, Writing, Written
<1>2. CASE StartInteractive \/ BackupYaml \/ BackupEnv \/ LoadTornState
           \/ ResumeSession \/ RejectSession \/ RefuseSession \/ ExecuteStep \/ StepThrows
           \/ SaveState \/ SaveFailedState \/ GiveUp \/ Rollback \/ ClearState
           \/ Crash
  BY <1>1, <1>2 DEF StartInteractive, BackupYaml, BackupEnv, LoadTornState, ResumeSession,
     RejectSession, RefuseSession, ExecuteStep, StepThrows, SaveState, SaveFailedState,
     GiveUp, Rollback, ClearState, Crash, Ended, Progress
<1>3. ASSUME NEW d \in AgentAnswers \cap InitAnswers, NEW force \in BOOLEAN,
             NEW overwrite \in BOOLEAN, StartAgent(d, force, overwrite)
      PROVE  Progress'
  BY <1>1, <1>3 DEF StartAgent
<1>4. CASE WriteFails
  BY <1>1, <1>4 DEF WriteFails, Ended, FileAt, Progress
<1>5. CASE LoadNoState
  <2>1. /\ pc' \in {"writeYaml", "step"} /\ made' = made /\ report' # "success"
        /\ pc' = "writeYaml" => wiz'.completed = Steps
    BY <1>5 DEF LoadNoState, NewSession, NewWizard, NoWizard, Progress
  <2> QED
    BY <1>0, <2>1, StepNames DEF Progress, Writing, Written
<1>6. CASE BuildResult
  <2>1. /\ pc' = "writeYaml" /\ made' = made /\ report' # "success" /\ wiz' = wiz
        /\ "server-config" \in wiz.completed
    BY <1>6, NonePending DEF BuildResult, Progress
  <2> QED
    BY <1>0, <2>1 DEF Progress, Writing, Written
<1>7. CASE WriteYaml
  <2>1. /\ pc = "writeYaml" /\ pc' = "writeExample" /\ report' = report
        /\ disk' = [disk EXCEPT !.yaml = wiz.id]
        /\ made' = [made EXCEPT ![wiz.id] = wiz.data]
        /\ wiz' = [wiz EXCEPT !.files.created = @ \cup {"yaml"}]
    BY <1>7 DEF WriteYaml
  <2>2. wiz'.id = wiz.id /\ wiz'.data = wiz.data /\ wiz'.completed = wiz.completed
    BY <1>0, <2>1 DEF WizardState
  <2>3. wiz.id \in Sessions
    BY <1>0, <2>1 DEF Writing
  <2>4. DOMAIN made' = Sessions /\ made'[wiz.id] = wiz.data /\ disk'.yaml = wiz.id
    BY <1>0, <2>1, <2>3 DEF Files
  <2> QED
    BY <2>1, <2>2, <2>4 DEF Progress, Writing, Written
<1>8. CASE WriteExample
  <2>1. /\ pc = "writeExample" /\ pc' = "writeEnv" /\ UNCHANGED <<report, made, wiz, prompts>>
        /\ disk' = [disk EXCEPT !.example = wiz.id]
    BY <1>8 DEF WriteExample
  <2>2. disk'.example = wiz.id /\ disk'.yaml = disk.yaml
    BY <1>0, <2>1 DEF Files
  <2> QED
    BY <2>1, <2>2 DEF Progress, Writing, Written
<1>9. CASE WriteEnv
  <2>1. /\ pc = "writeEnv" /\ pc' = "writePrompts" /\ UNCHANGED <<report, made, prompts>>
        /\ disk' = [disk EXCEPT !.env = wiz.id]
        /\ wiz' = [wiz EXCEPT !.files.created = @ \cup {"example", "env"}]
    BY <1>9 DEF WriteEnv
  <2>2. disk'.env = wiz.id /\ disk'.yaml = disk.yaml /\ disk'.example = disk.example
    BY <1>0, <2>1 DEF Files
  <2>3. wiz'.id = wiz.id /\ wiz'.data = wiz.data /\ wiz'.completed = wiz.completed
    BY <1>0, <2>1 DEF WizardState
  <2> QED
    BY <2>1, <2>2, <2>3 DEF Progress, Writing, Written
<1>10. ASSUME NEW f \in PromptFiles, WritePrompt(f) PROVE Progress'
  <2>1. /\ pc = "writePrompts" /\ pc' = pc /\ UNCHANGED <<report, made, disk>>
        /\ wiz' = [wiz EXCEPT !.files.created = @ \cup {f}]
    BY <1>10 DEF WritePrompt
  <2>2. wiz'.id = wiz.id /\ wiz'.data = wiz.data /\ wiz'.completed = wiz.completed
    BY <1>0, <2>1 DEF WizardState
  <2> QED
    BY <2>1, <2>2 DEF Progress, Writing, Written
<1>11. CASE PromptsWritten
  <2>1. /\ pc = "writePrompts" /\ pc' = "validate"
        /\ UNCHANGED <<report, made, disk, prompts, wiz>>
        /\ \A f \in WantedPrompts(wiz.data) : prompts[f] # Absent
    BY <1>11 DEF PromptsWritten, MissingPrompts
  <2> QED
    BY <2>1 DEF Progress, Writing, Written
<1>12. CASE ValidateOk
  <2>1. /\ pc = "validate" /\ pc' = "clear" /\ usable
        /\ UNCHANGED <<report, made, disk, prompts, wiz, fixed, penv, job>>
    BY <1>12 DEF ValidateOk
  <2>2. usable'
    BY <2>1 DEF usable
  <2> QED
    BY <2>1, <2>2 DEF Progress, Writing, Written
<1>13. CASE FixByHand
  <2>1. pc = "validate" /\ UNCHANGED <<pc, report, made, disk, prompts, wiz>>
    BY <1>13 DEF FixByHand
  <2> QED
    BY <2>1 DEF Progress, Writing, Written
<1>14. CASE UNCHANGED vars
  BY <1>14 DEF vars, Progress, usable
<1> QED
  BY <1>2, <1>3, <1>4, <1>5, <1>6, <1>7, <1>8, <1>9, <1>10, <1>11, <1>12, <1>13, <1>14
  DEF Next, Run

\* Success is reported by ClearState alone, with everything in its place, and the
\* next process starts with another report.
LEMMA SuccessStep ==
    /\ Base /\ Resumes /\ AnswersTold /\ AgentWrites /\ TornKnown /\ Progress
    /\ SuccessIsComplete /\ [Next]_vars
    => SuccessIsComplete'
<1> SUFFICES ASSUME Base, Resumes, AnswersTold, AgentWrites, TornKnown, Progress,
                    SuccessIsComplete, [Next]_vars
             PROVE  SuccessIsComplete'
  OBVIOUS
<1>1. CASE ClearState
  <2>1. /\ pc = "clear" /\ saved' = NoWizard
        /\ UNCHANGED <<disk, prompts, made, fixed, crashes, operator>>
    BY <1>1 DEF ClearState
  <2>2. /\ wiz.id \in Sessions /\ disk.yaml = wiz.id
        /\ made[wiz.id] = wiz.data
        /\ disk.example = wiz.id /\ disk.env = wiz.id
        /\ \A f \in WantedPrompts(wiz.data) : prompts[f] # Absent
        /\ "server-config" \in wiz.completed
        /\ usable
    BY <2>1 DEF Progress, Writing, Written, Base, InSession
  <2>3. wiz.data.server # {}
    BY <2>2 DEF Resumes, Sound, Resumable, Answered
  <2>4. wiz.id \in fixed \/ Boots(wiz.data)
    <3> SUFFICES ASSUME wiz.id \notin fixed PROVE Boots(wiz.data)
      OBVIOUS
    <3>1. Validates(wiz.data, Merge(penv, EnvOf(wiz.data)), job.agent)
      BY <2>2 DEF usable
    <3>2. job.agent => Deferred(wiz.data)
      BY <2>1 DEF AgentWrites, Written, Base, AgentReady
    <3>3. wiz.data \in WizardData /\ Started /\ Told(wiz.data)
      BY <2>1 DEF Base, TypeOK, WizardState, EnvStarted, AnswersTold
    <3>4. PICK missing \in BOOLEAN : missing <=> job.agent
      OBVIOUS
    <3>5. Validates(wiz.data, Merge(penv, EnvOf(wiz.data)), missing)
      BY <3>1, <3>4 DEF Validates
    <3>6. missing => Deferred(wiz.data)
      BY <3>2, <3>4
    <3>7. PICK d \in WizardData : d = wiz.data
      BY <3>3
    <3>8. /\ Told(d) /\ d.server # {} /\ (missing => Deferred(d))
          /\ Validates(d, Merge(penv, EnvOf(d)), missing)
      BY <2>3, <3>3, <3>5, <3>6, <3>7, Zenon
    <3>9. Boots(d)
      BY <3>3, <3>8, AcceptedBoots
    <3> QED
      BY <3>7, <3>9, Zenon
  <2>5. \A f \in Files : disk[f] = wiz.id
    BY <2>2 DEF Files
  <2>6. PICK d : d = wiz.data
    OBVIOUS
  <2>7. made'[disk'.yaml] = d /\ disk'.yaml = wiz.id /\ made[disk.yaml] = d
    BY <2>1, <2>2, <2>6
  <2>8. disk'.yaml \in fixed' \/ Boots(made[disk.yaml])'
    <3>1. CASE wiz.id \in fixed
      BY <2>1, <2>7, <3>1
    <3>2. CASE Boots(wiz.data)
      <4>1. Boots(d)
        BY <2>6, <3>2, Zenon
      <4> QED
        BY <2>1, <2>7, <4>1 DEF Boots
    <3> QED
      BY <2>4, <3>1, <3>2
  <2>9. prompts'["master"] = Torn => crashes' > 0
    BY <2>1 DEF TornKnown
  <2>10. \A f \in WantedPrompts(made'[disk'.yaml]) : prompts'[f] # Absent
    BY <2>1, <2>2, <2>7, <2>6
  <2>11. disk'.yaml \in Sessions /\ \A f \in Files : disk'[f] = disk'.yaml
    BY <2>1, <2>2, <2>5
  <2> QED
    BY <2>1, <2>8, <2>9, <2>10, <2>11, Zenon DEF SuccessIsComplete
<1>2. ASSUME report' # "success" PROVE SuccessIsComplete'
  BY <1>2 DEF SuccessIsComplete
<1>3. CASE StartInteractive
  BY <1>2, <1>3 DEF StartInteractive
<1>4. ASSUME NEW d \in AgentAnswers \cap InitAnswers, NEW force \in BOOLEAN,
             NEW overwrite \in BOOLEAN, StartAgent(d, force, overwrite)
      PROVE  SuccessIsComplete'
  BY <1>2, <1>4 DEF StartAgent
<1>5. CASE BackupYaml \/ BackupEnv \/ LoadTornState \/ LoadNoState \/ ResumeSession
           \/ RejectSession \/ RefuseSession \/ ExecuteStep \/ StepThrows \/ SaveState
           \/ SaveFailedState \/ BuildResult \/ WriteYaml \/ WriteExample \/ WriteEnv
           \/ PromptsWritten \/ ValidateOk \/ FixByHand \/ GiveUp \/ Rollback
           \/ \E f \in PromptFiles : WritePrompt(f)
  <2>1. pc # "idle" /\ report' \in {report, "unreadable state", "refused",
                                    "progress saved", "rolled back"}
    BY <1>5 DEF BackupYaml, BackupEnv, LoadTornState, LoadNoState, ResumeSession,
       RejectSession, RefuseSession, ExecuteStep, StepThrows, SaveState, SaveFailedState,
       BuildResult, WriteYaml, WriteExample, WriteEnv, WritePrompt, PromptsWritten,
       ValidateOk, FixByHand, GiveUp, Rollback, Ended
  <2> QED
    BY <1>2, <2>1 DEF Progress
<1>6. CASE Crash \/ WriteFails
  <2>1. pc # "idle" /\ report' \in {report, "killed", "failed"}
    BY <1>6 DEF Crash, WriteFails, Ended, FileAt
  <2> QED
    BY <1>2, <2>1 DEF Progress
<1>7. CASE UNCHANGED vars
  BY <1>7 DEF vars, SuccessIsComplete, Boots
<1> QED
  BY <1>1, <1>3, <1>4, <1>5, <1>6, <1>7 DEF Next, Run

\* Whatever was killed, rejected or torn before it, and whatever the process had
\* loaded from the .env it replaces, a run that reports success leaves the three
\* files of one session in place; the gateway boots from them, or they were
\* repaired by hand; every prompt is there, and no state file.
THEOREM SuccessLeavesAll == Spec => []SuccessIsComplete
<1> DEFINE All == Resumes /\ AnswersTold /\ AgentWrites /\ TornKnown /\ Progress
                      /\ SuccessIsComplete
<1>1. Init => All
  <2> SUFFICES ASSUME Init PROVE All
    OBVIOUS
  <2>1. Resumes
    BY NothingSound DEF Init, Resumes
  <2>2. AnswersTold /\ AgentWrites
    BY DEF Init, AnswersTold, Told, NoWizard, NoData, NoJob, AgentWrites
  <2>3. pc = "idle" /\ report = "none" /\ DOMAIN made = Sessions
    BY DEF Init
  <2>4. TornKnown
    BY Contents DEF Init, TornKnown, PromptFiles
  <2> QED
    BY <2>1, <2>2, <2>3, <2>4 DEF Progress, Writing, Written, SuccessIsComplete
<1>2. Base /\ All /\ [Next]_vars => All'
  BY ResumesStep, ToldStep, AgentWritesStep, TornStep, ProgressStep, SuccessStep
<1>3. All => SuccessIsComplete
  OBVIOUS
<1> HIDE DEF All
<1> QED
  BY <1>1, <1>2, <1>3, AlwaysKept, PTL DEF Spec
=============================================================================
