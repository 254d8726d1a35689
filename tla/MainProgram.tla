----------------------------- MODULE MainProgram -----------------------------
(***************************************************************************)
(* main.py and main_utils.py: a run of the program from the command line   *)
(* to the demo, with the configuration of config_parser.py, the checkout,  *)
(* the patchers, the builds of build_runner.py and the selection of the    *)
(* programs.  The program may be started again, also with another          *)
(* configuration; the repositories and images on disk stay.                *)
(***************************************************************************)
EXTENDS DemoConfiguration, Checkout

CONSTANTS
    UENames,      \* the names of UEs
    FirstRuns,    \* how the program is called: [request, setup, dialog]
    LaterRuns,    \* the same, when it is started again
    DemoFiles,    \* contents of the demo configuration file
    Machines,     \* operating system, and what is installed
    MaxRuns       \* bound: how often the program is started

(***************************************************************************)
(* A request: whether there are arguments at all, what they say of help    *)
(* and API, the file ("none", "missing" or "exists"), and the three steps  *)
(* that may be left out, which are on by default.                          *)
(*                                                                         *)
(* A setup: sections are the keys of the file, env its environment section *)
(* ("none" without a key, "invalid" for a value that is not in the         *)
(* enumeration), configs the four lists, names those of the UEs, native    *)
(* the entries <<kind, number>> whose build_type is native.                *)
(*                                                                         *)
(* dialog are the components to build, which only somebody who gives no    *)
(* arguments is asked for.                                                 *)
(***************************************************************************)
Request ==
    [arguments : BOOLEAN, help : BOOLEAN, api : BOOLEAN, file : {"none", "missing", "exists"},
     patching : BOOLEAN, build : BOOLEAN, run_demo : BOOLEAN]

EnvironmentCfg ==
    [selected : [{"near_rt_ric", "5gc", "gnb"} -> Folders \cup {"none", "invalid"}],
     log_level : STRING, log_dir : BOOLEAN, build_dir : BOOLEAN, push : BOOLEAN]

SetupCfg ==
    [sections : SUBSET STRING, env : EnvironmentCfg, configs : [Configurable -> Seq(Config)],
     names : Seq(UENames), native : SUBSET (Configurable \X (Nat \ {0}))]

Calls == FirstRuns \cup LaterRuns

(***************************************************************************)
(* UEImplementation has one member.  What is built for a UE is not taken   *)
(* for another component, whatever its name.                               *)
(***************************************************************************)
ASSUME MainAssumption ==
    /\ MaxRuns \in Nat \ {0}
    /\ UENames \cap Configurable = {}
    /\ Calls \subseteq [request : Request, setup : SetupCfg, dialog : [Configurable -> BOOLEAN]]
    /\ \A r \in Calls :
          /\ DOMAIN r.setup.names = DOMAIN r.setup.configs["ue"]
          /\ \A n \in DOMAIN r.setup.configs["ue"] : r.setup.configs["ue"][n].folder = "srsRAN_4G"
          /\ r.request.arguments => \A k \in Configurable : r.dialog[k]
    /\ DemoFiles \subseteq ProgramDescriptionCfg
    /\ Machines \subseteq [system : STRING, installed : SUBSET STRING]

VARIABLES
    stage,       \* where main.py is
    request,     \* CommandLineConfig, and what it was parsed from
    dialog,      \* DialogConfig: the components to build
    setup,       \* the build configuration file
    demoFile,    \* the demo configuration file
    machine,
    at,          \* the kind whose checkout is next
    todo,        \* the builds that are left: <<kind, number>>
    toPush,      \* whether there are images to push
    images,      \* what has been built, on disk: folder and commit
    terminal,    \* the terminal in use
    pool,        \* the programs of the DemoRunner
    code,        \* how the run has ended
    runs,
    found        \* history: the folders as the run found them

mainVars == <<stage, request, dialog, setup, demoFile, machine, at, todo, toPush, images,
              terminal, pool, code, runs, found>>
vars == <<mainVars, checkoutVars>>

CheckedOutKinds == <<"near_rt_ric", "5gc", "gnb", "ue">>
Components == {"near_rt_ric", "5gc", "gnb"} \cup UENames

Init ==
    /\ CheckoutInit
    /\ stage = "start"
    /\ \E r \in FirstRuns : request = r.request /\ setup = r.setup /\ dialog = r.dialog
    /\ demoFile \in DemoFiles /\ machine \in Machines
    /\ at = 1 /\ todo = <<>> /\ toPush = FALSE
    /\ images = [c \in Components |-> Nothing]
    /\ terminal = NoTerminal /\ pool = <<>> /\ code = "none" /\ runs = 1
    /\ found = folders

-----------------------------------------------------------------------------
\* The run ends: exit code 0 or 1, or an exception nobody catches.
End(c) == stage' = "ended" /\ code' = c
Enter(s) == stage' = s /\ UNCHANGED code

\* The start of main.py, up to the choice of a configuration file.
Start ==
    /\ stage = "start"
    /\ CASE request.help -> End("ok")
         [] ~request.help /\ request.file = "missing" -> End("raised")
         [] request.arguments /\ ~request.help /\ request.file # "missing" /\ request.api ->
                Enter("api")
         [] request.arguments /\ ~request.help /\ request.file = "none" /\ ~request.api ->
                End("failed")
         [] OTHER -> Enter("load")
    /\ UNCHANGED <<request, dialog, setup, demoFile, machine, at, todo, toPush, images,
                   terminal, pool, runs, found, checkoutVars>>

Sections == {"environment", "near_rt_ric", "5gc", "gnb", "ue", "zmq_proxy"}
HasSection(s) == s \in setup.sections

\* _parse_environment_cfg
EnvironmentRaises(env) ==
    \/ "invalid" \in {env.selected["near_rt_ric"], env.selected["5gc"], env.selected["gnb"],
                      env.log_level}
    \/ ~env.build_dir

(***************************************************************************)
(* parse_config_file.  The lists are empty without their sections, the     *)
(* environment and the UEs None.                                           *)
(***************************************************************************)
Load ==
    /\ stage = "load"
    /\ IF (~(setup.sections \subseteq Sections))
          \/ (HasSection("environment") /\ EnvironmentRaises(setup.env))
       THEN End("raised") /\ UNCHANGED <<configs, selected>>
       ELSE /\ Enter(IF request.run_demo THEN "read demo" ELSE "checkout")
            /\ configs' = [k \in Configurable |-> IF HasSection(k) THEN setup.configs[k] ELSE <<>>]
            /\ selected' = [k \in Configurable |->
                   CASE k = "ue" -> IF configs'[k] = <<>> THEN "none" ELSE configs'[k][1].folder
                     [] k # "ue" /\ HasSection("environment") -> setup.env.selected[k]
                     [] OTHER -> "none"]
    /\ UNCHANGED <<request, dialog, setup, demoFile, machine, at, todo, toPush, images,
                   terminal, pool, runs, found, folders>>

\* verify_consistency: paths that are None are joined, UEs that are None looked through.
VerifyRaises ==
    \/ ~HasLogDir(demoFile) \/ ~setup.env.log_dir
    \/ /\ ~HasSection("ue")
       /\ \E g \in DOMAIN demoFile.groups :
             GroupType(demoFile.groups[g].key) = "run_ue" /\ demoFile.groups[g].programs # <<>>

(***************************************************************************)
(* parse_program_setup_config and verify_consistency.  What they find      *)
(* wrong is logged, and the run goes on.                                   *)
(***************************************************************************)
ReadDemoFile ==
    /\ stage = "read demo"
    /\ LET searches == SearchesTerminal(demoFile)
       IN  IF \/ ~HasSection("environment") \/ ParseRaises(demoFile) \/ VerifyRaises
              \/ (searches /\ TerminalRaises(demoFile, machine.system))
           THEN End("raised") /\ UNCHANGED terminal
           ELSE /\ Enter("checkout")
                /\ terminal' = IF searches
                               THEN UsedTerminal(demoFile, machine.system, machine.installed)
                               ELSE ParsedTerminal(demoFile)
    /\ UNCHANGED <<request, dialog, setup, demoFile, machine, at, todo, toPush, images,
                   pool, runs, found, checkoutVars>>

-----------------------------------------------------------------------------
(***************************************************************************)
(* checkout_repositories: RIC, core, gNB and UE, in this order.  The proxy *)
(* is not checked out, and a kind that is not configured only logged.      *)
(***************************************************************************)
Kind == CheckedOutKinds[at]

\* Mutant of NextKind: the index is not checked against the end of the list.
NextKindPastEnd ==
    /\ at' = at + 1
    /\ IF at <= Len(CheckedOutKinds) THEN Enter("checkout")
       ELSE IF request.patching THEN Enter("patch") ELSE End("ok")

\* The kind at hand is done with: the next one, or what follows the checkout.
NextKind ==
    /\ at' = IF at < Len(CheckedOutKinds) THEN at + 1 ELSE 1
    /\ CASE at < Len(CheckedOutKinds) -> Enter("checkout")
         [] at = Len(CheckedOutKinds) /\ request.patching -> Enter("patch")
         [] OTHER -> End("ok")

CheckoutKind ==
    /\ stage = "checkout"
    /\ CASE ~HasSection("environment") \/ (Kind = "ue" /\ ~HasSection("ue")) ->
                End("raised") /\ UNCHANGED <<at, folders>>
         [] HasSection("environment") /\ (Kind = "ue" => HasSection("ue"))
                /\ NothingToClone(Used(Kind)) ->
                NextKind /\ UNCHANGED folders
         [] OTHER -> /\ Enter("clone") /\ BeginsToClone(Used(Kind).folder)
                     /\ UNCHANGED at
    /\ UNCHANGED <<request, dialog, setup, demoFile, machine, todo, toPush, images,
                   terminal, pool, runs, found, configs, selected>>

EndsClone(result) == IF result.ok THEN NextKind ELSE End("failed") /\ UNCHANGED at

Clone ==
    /\ stage = "clone"
    /\ \E result \in CloneResults(Used(Kind)) :
          /\ folders' = [folders EXCEPT ![Used(Kind).folder] = result.content]
          /\ EndsClone(result)
    /\ UNCHANGED <<request, dialog, setup, demoFile, machine, todo, toPush, images,
                   terminal, pool, runs, found, configs, selected>>

-----------------------------------------------------------------------------
\* The number of the configuration in use, and its build type.
UsedNumber(k) == CHOOSE n \in DOMAIN configs[k] : IsUsed(k, n)
IsNative(k, n) == <<k, n>> \in setup.native

\* patch_single_docker_compose needs all three, and RIC and core built by docker.
CanPatch ==
    /\ \A k \in {"near_rt_ric", "5gc", "gnb"} : Used(k) # Nothing
    /\ \A k \in {"near_rt_ric", "5gc"} : ~IsNative(k, UsedNumber(k))

(***************************************************************************)
(* What build_firmware builds: a component of each kind the dialog asks    *)
(* for, the type being the component's own; of the UEs that are native the *)
(* first only, as they share one tree.                                     *)
(***************************************************************************)
FirstNative(n) == IsNative("ue", n) /\ \A m \in 1..(n - 1) : ~IsNative("ue", m)

Builds ==
    LET components == [i \in 1..3 |-> <<CheckedOutKinds[i], UsedNumber(CheckedOutKinds[i])>>]
        ues        == [n \in DOMAIN configs["ue"] |-> <<"ue", n>>]
    IN     Filtered(components, {i \in 1..3 : dialog[CheckedOutKinds[i]]})
        \o Filtered(ues, {n \in DOMAIN ues :
                             dialog["ue"] /\ (~IsNative("ue", n) \/ FirstNative(n))})

\* The demo, if one is asked for.
Finish == IF request.run_demo THEN Enter("select") ELSE End("ok")

(***************************************************************************)
(* patch_firmware: the patchers report a failure, whatever it is, and then *)
(* the copying raises one.                                                 *)
(***************************************************************************)
Patch ==
    /\ stage = "patch"
    /\ \/ End("failed") /\ UNCHANGED <<folders, todo, toPush>>
       \/ CanPatch /\ CopyFiles /\ End("raised") /\ UNCHANGED <<todo, toPush>>
       \/ /\ CanPatch /\ CopyFiles
          /\ IF request.build
             THEN Enter("build") /\ todo' = Builds /\ toPush' \in BOOLEAN
             ELSE Finish /\ UNCHANGED <<todo, toPush>>
    /\ UNCHANGED <<request, dialog, setup, demoFile, machine, at, images,
                   terminal, pool, runs, found, configs, selected>>

-----------------------------------------------------------------------------
(***************************************************************************)
(* A docker daemon may be down, a command may fail; natively, gNB and UEs  *)
(* are for Linux.  Nothing is built without sources, or without the folder *)
(* its log goes to.                                                        *)
(***************************************************************************)
BuildResults(k, n) ==
    IF IsNative(k, n)
    THEN IF machine.system = "linux" THEN {"built", "raised"}
         ELSE IF machine.system = "unknown" THEN {"raised"} ELSE {"failed"}
    ELSE {"built", "raised", "failed"}

\* The components whose binaries or images a build makes.
BuiltBy(k, n) ==
    CASE k # "ue" -> {k}
      [] k = "ue" /\ IsNative(k, n) -> {setup.names[m] : m \in {m \in DOMAIN setup.names : IsNative(k, m)}}
      [] OTHER -> {setup.names[n]}

\* Mutant of EndsBuild: a builder that returns False is not told from one that returns True.
EndsBuildAnyway(result) == IF result = "raised" THEN End("raised") /\ UNCHANGED todo
                           ELSE Enter("build") /\ todo' = Tail(todo)

EndsBuild(result) ==
    CASE result = "built"  -> Enter("build") /\ todo' = Tail(todo)
      [] result = "failed" -> End("ok") /\ UNCHANGED todo
      [] result = "raised" -> End("raised") /\ UNCHANGED todo

Build ==
    /\ stage = "build" /\ todo # <<>>
    /\ LET k == Head(todo)[1]
           n == Head(todo)[2]
           f == configs[k][n].folder
       IN  \E result \in BuildResults(k, n) :
             /\ result = "built" => HasRepository(configs[k][n]) /\ setup.env.log_dir
             /\ EndsBuild(result)
             /\ images' = IF result # "built" THEN images
                          ELSE [c \in Components |->
                                  IF c \in BuiltBy(k, n) THEN [folder |-> f, commit |-> folders[f]]
                                  ELSE images[c]]
    /\ UNCHANGED <<request, dialog, setup, demoFile, machine, at, toPush,
                   terminal, pool, runs, found, checkoutVars>>

\* push_images, which the environment may leave out; a failure is the build's.
Push ==
    /\ stage = "build" /\ todo = <<>>
    /\ Finish \/ (toPush /\ setup.env.push /\ End("ok"))
    /\ UNCHANGED <<request, dialog, setup, demoFile, machine, at, todo, toPush, images,
                   terminal, pool, runs, found, checkoutVars>>

-----------------------------------------------------------------------------
UsedUEs == [n \in DOMAIN configs["ue"] |->
                [name |-> setup.names[n], folder |-> configs["ue"][n].folder]]

(***************************************************************************)
(* create_programs, and the LiveView, which has no manager for an output   *)
(* mode that is None.  From here on SubprocManager or TmuxManager runs.    *)
(***************************************************************************)
Select ==
    /\ stage = "select"
    /\ pool' = SelectedPrograms(demoFile, Used("near_rt_ric").folder, Used("5gc").folder,
                                Used("gnb").folder, UsedUEs)
    /\ IF demoFile.output.mode = "none" THEN End("raised") ELSE Enter("demo")
    /\ UNCHANGED <<request, dialog, setup, demoFile, machine, at, todo, toPush, images,
                   terminal, runs, found, checkoutVars>>

\* The program is started again, with what the user then wants.
Again ==
    /\ stage \in {"demo", "ended"} /\ runs < MaxRuns
    /\ runs' = runs + 1 /\ stage' = "start" /\ found' = folders
    /\ \E r \in LaterRuns : request' = r.request /\ setup' = r.setup /\ dialog' = r.dialog
    /\ at' = 1 /\ todo' = <<>> /\ toPush' = FALSE
    /\ terminal' = NoTerminal /\ pool' = <<>> /\ code' = "none"
    /\ configs' = [k \in Configurable |-> <<>>]
    /\ selected' = [k \in Configurable |-> "none"]
    /\ UNCHANGED <<demoFile, machine, images, folders>>

Next ==
    \/ Start \/ Load \/ ReadDemoFile
    \/ CheckoutKind \/ Clone \/ Patch \/ Build \/ Push \/ Select
    \/ Again

Spec == Init /\ [][Next]_vars

-----------------------------------------------------------------------------
Stages == {"start", "api", "load", "read demo", "checkout", "clone", "patch", "build",
           "select", "demo", "ended"}

TypeOK ==
    /\ stage \in Stages
    /\ [request |-> request, setup |-> setup, dialog |-> dialog] \in Calls
    /\ demoFile \in DemoFiles /\ machine \in Machines
    /\ at \in DOMAIN CheckedOutKinds
    /\ todo \in Seq(Configurable \X (Nat \ {0})) /\ toPush \in BOOLEAN
    /\ images \in [Components -> {Nothing} \cup [folder : Folders, commit : Content]]
    /\ terminal \in Elements(demoFile.terminals) \cup {NoTerminal}
    /\ Elements(pool) \subseteq
           UNION {Elements(demoFile.groups[g].programs) : g \in DOMAIN demoFile.groups}
    /\ code \in {"none", "ok", "failed", "raised"} /\ runs \in 1..MaxRuns
    /\ configs \in [Configurable -> Seq(Config)]
    /\ selected \in [Configurable -> Folders \cup {"none"}]
    /\ folders \in [Folders -> Content] /\ found \in [Folders -> Content]

IsValid(file) == OutputIsValid(file.output) /\ ProgramsAreValid(file)

PoolNames == [i \in DOMAIN pool |-> pool[i].name]

(***************************************************************************)
(* The managers look programs up by name: of a configuration that passes   *)
(* the checks no two selected programs share one, although alternatives of *)
(* a core, RIC or gNB may.                                                 *)
(***************************************************************************)
PoolIsUnique == (stage = "demo" /\ IsValid(demoFile)) => ~HasDuplicates(PoolNames)

Group(type) == {g \in DOMAIN demoFile.groups : GroupType(demoFile.groups[g].key) = type}

KindOf(type) ==
    CASE type = "run_ric" -> "near_rt_ric" [] type = "run_core" -> "5gc"
      [] type = "run_gnb" -> "gnb" [] type = "run_ue" -> "ue"

(***************************************************************************)
(* A file that fits the build: no second group of a type, alternatives     *)
(* that share a name and one of which is for what is used, and programs    *)
(* for UEs that are built.                                                 *)
(***************************************************************************)
FitsTheBuild ==
    /\ \A type \in ProgramGroupIdentifier : \A g, h \in Group(type) : g = h
    /\ \A type \in {"run_ric", "run_core", "run_gnb"} : \A g \in Group(type) :
          LET programs == demoFile.groups[g].programs
          IN  /\ \A i, j \in DOMAIN programs : programs[i].name = programs[j].name
              /\ \E i \in DOMAIN programs : Implementation(type, programs[i]) = Used(KindOf(type)).folder
    /\ \A g \in Group("run_ue") : \A i \in DOMAIN demoFile.groups[g].programs :
          /\ demoFile.groups[g].programs[i].name \in Elements(setup.names)
          /\ Implementation("run_ue", demoFile.groups[g].programs[i]) # "none"

(***************************************************************************)
(* Then every program that a selected one depends on, running or           *)
(* initialised, is selected as well; otherwise its starter would wait for  *)
(* ever (BlockedNeverStart of SubprocManager).                             *)
(***************************************************************************)
PoolIsClosed ==
    (stage = "demo" /\ IsValid(demoFile) /\ FitsTheBuild) =>
        \A i \in DOMAIN pool : Dependencies(pool[i]) \subseteq Elements(PoolNames)

\* The commit a folder is cloned with: that of the first kind that uses it.
AskedFor(f) ==
    LET k == CheckedOutKinds[CHOOSE i \in DOMAIN CheckedOutKinds :
                /\ Used(CheckedOutKinds[i]).folder = f
                /\ \A j \in 1..(i - 1) : Used(CheckedOutKinds[j]).folder # f]
    IN  Used(k).commit

(***************************************************************************)
(* A demo starts only when nothing before it has failed.  A folder in use  *)
(* that the run did not find has been cloned, at the commit asked for; one *)
(* that it found is as it was, and may hold anything, also only what the   *)
(* patchers of an earlier run have copied.  But if the run builds, what    *)
(* the dialog asked for is an image or binary made of a repository: of the *)
(* implementation in use, at the commit the run found or else cloned, and  *)
(* not what an earlier run with another configuration has left.            *)
(***************************************************************************)
DemoIsEarned ==
    stage = "demo" =>
        /\ request.patching
        /\ \A k \in Configurable :
              LET f     == Used(k).folder
                  there == IF found[f] # "absent" THEN found[f] ELSE AskedFor(f)
              IN  Used(k) # Nothing =>
                    /\ folders[f] = there
                    /\ (request.build /\ dialog[k]) =>
                          /\ there \in Commits \cup {"latest"}
                          /\ \A c \in (IF k = "ue" THEN Elements(setup.names) ELSE {k}) :
                                images[c] = [folder |-> f, commit |-> there]

(***************************************************************************)
(* On Linux the configured terminal is used if it is installed and is one  *)
(* for Linux, and another such terminal otherwise, if there is any.  On    *)
(* other systems some terminal for the system is, if there is any.         *)
(***************************************************************************)
TerminalIsUsable ==
    (stage = "demo" /\ IsValid(demoFile) /\ machine.system # "unknown") =>
        LET usable == {t \in Elements(demoFile.terminals) :
                          /\ t.system = machine.system
                          /\ machine.system = "linux" => IsInstalled(t, machine.installed)}
        IN  usable # {} =>
              /\ terminal \in usable
              /\ (machine.system = "linux" /\ \E t \in usable : t.name = demoFile.default) =>
                    terminal.name = demoFile.default

(***************************************************************************)
(* Of the core, RIC and gNB groups "Only the first program in the program  *)
(* list is executed", and of run_misc "All programs in the program list    *)
(* are executed" (README.md:138-142).                                      *)
(***************************************************************************)
GroupsRunAsDocumented ==
    (stage = "demo" /\ IsValid(demoFile)) =>
        \A g \in DOMAIN demoFile.groups :
            LET programs == demoFile.groups[g].programs
            IN  /\ demoFile.groups[g].key \in {"run_core", "run_ric", "run_gnb"} =>
                       Elements(pool) \cap Elements(programs) \subseteq {First(programs)}
                /\ demoFile.groups[g].key = "run_misc" =>
                       Elements(programs) \subseteq Elements(pool)

=============================================================================
