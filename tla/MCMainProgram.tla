---------------------------- MODULE MCMainProgram ----------------------------
(***************************************************************************)
(* Small instances of MainProgram: the shipped configurations reduced to   *)
(* what is modelled, and variations of them that reach every check.        *)
(***************************************************************************)
EXTENDS MainProgram, TLC

AllOf(folder, commit) == [folder |-> folder, commit |-> commit]

NothingOnDisk == [f \in Folders |-> "absent"]

-----------------------------------------------------------------------------
CommandLine(path, patching, building, demo) ==
    [arguments |-> TRUE, help |-> FALSE, api |-> FALSE, file |-> path,
     patching |-> patching, build |-> building, run_demo |-> demo]

WithFile == CommandLine("exists", TRUE, TRUE, TRUE)
Requests ==
    {CommandLine("exists", patching, building, demo) : patching, building, demo \in BOOLEAN}
    \cup {CommandLine("none", TRUE, TRUE, TRUE), CommandLine("missing", TRUE, TRUE, TRUE)}
    \cup {[WithFile EXCEPT !.help = TRUE], [WithFile EXCEPT !.api = TRUE]}
NoArguments == [WithFile EXCEPT !.arguments = FALSE, !.file = "none"]

-----------------------------------------------------------------------------
Environment(ric, core, gnb) ==
    [selected |-> ("near_rt_ric" :> ric @@ "5gc" :> core @@ "gnb" :> gnb),
     log_level |-> "INFO", log_dir |-> TRUE, build_dir |-> TRUE, push |-> TRUE]

Lists(rics, cores, gnbs, ues) ==
    "near_rt_ric" :> rics @@ "5gc" :> cores @@ "gnb" :> gnbs @@ "ue" :> ues

\* Two RICs and two cores; the core of srsRAN shares its folder with the gNB.
Sample ==
    [sections |-> {"environment", "near_rt_ric", "5gc", "gnb", "ue", "zmq_proxy"},
     env |-> Environment("flexric", "srsRAN_Project", "srsRAN_Project"),
     configs |-> Lists(<<AllOf("oran-sc-ric", "latest"), AllOf("flexric", "v1")>>,
                       <<AllOf("open5gs", "latest"), AllOf("srsRAN_Project", "latest")>>,
                       <<AllOf("srsRAN_Project", "v1")>>,
                       <<AllOf("srsRAN_4G", "v1"), AllOf("srsRAN_4G", "v1"),
                         AllOf("srsRAN_4G", "latest")>>),
     names |-> <<"ue1", "ue2", "ue3">>,
     native |-> {}]

OtherRIC == [Sample EXCEPT !.env = Environment("oran-sc-ric", "open5gs", "srsRAN_Project"),
                           !.native = {<<"gnb", 1>>, <<"ue", 1>>, <<"ue", 3>>}]

Broken ==
    { [Sample EXCEPT !.sections = @ \cup {"core"}],
      [Sample EXCEPT !.sections = @ \ {"environment"}],
      [Sample EXCEPT !.sections = @ \ {"ue"}],
      [Sample EXCEPT !.sections = @ \ {"5gc"}],
      [Sample EXCEPT !.env.log_level = "invalid"],
      [Sample EXCEPT !.env.log_dir = FALSE],
      [Sample EXCEPT !.env.selected["gnb"] = "none"],
      [Sample EXCEPT !.native = {<<"near_rt_ric", 2>>}] }

Call(file, line, kinds) ==
    [setup |-> file, request |-> line, dialog |-> [k \in Configurable |-> k \in kinds]]

AllCalls ==
    {Call(Sample, line, Configurable) : line \in Requests}
    \cup {Call(file, WithFile, Configurable) : file \in {OtherRIC} \cup Broken}
    \cup {Call(file, CommandLine("exists", TRUE, TRUE, FALSE), Configurable) : file \in Broken}
    \cup {Call(OtherRIC, NoArguments, kinds) : kinds \in {{}, {"gnb", "ue"}}}
BothSetups == {Call(file, WithFile, Configurable) : file \in {Sample, OtherRIC}}

\* Also without a build, which the programs then take from an earlier run.
WithoutBuild == {Call(OtherRIC, CommandLine("exists", TRUE, FALSE, TRUE), Configurable)}
LaterCalls == BothSetups \cup WithoutBuild
OneCall == {Call(Sample, WithFile, Configurable)}

-----------------------------------------------------------------------------
Terminal(name, system, prefix) == [name |-> name, system |-> system, prefix |-> prefix]
Terminals ==
    << Terminal("linux_gnome", "linux", "gnome-terminal"),
       Terminal("linux_alacritty", "linux", "alacritty"),
       Terminal("apple_terminal", "apple", "osascript"),
       Terminal("apple_iterm", "apple", "osascript") >>

Tmux == [mode |-> "tmux", settings |-> TRUE, log_dir |-> TRUE, section |-> TRUE,
         prefix |-> TRUE, number |-> 4]

Program(name, implementation, depends_on, depends_on_init) ==
    [name |-> name, implementation |-> implementation, depends_on |-> depends_on,
     depends_on_init |-> depends_on_init]

Programs(key, programs) == [key |-> key, timeout |-> 30, restarts |-> 3, programs |-> programs]

Core == Programs("run_core", << Program("5G_core", "open5gs", {}, {}),
                                Program("5G_core", "open5gs_srs", {}, {}) >>)
RIC  == Programs("run_ric", << Program("ric", "oran_sc_ric", {"5G_core"}, {}),
                               Program("ric", "flexric", {"5G_core"}, {}),
                               Program("ric", "flexric", {}, {}) >>)
GNB  == Programs("run_gnb", << Program("gnb", "srs", {"ric"}, {}) >>)
UE   == Programs("run_ue", << Program("ue1", "srs_4g", {"gnb"}, {}),
                              Program("ue2", "srs_4g", {"gnb"}, {}) >>)
Misc == Programs("run_misc", << Program("xapp_simple", "none", {"gnb", "ue1"}, {}),
                                Program("zmq_proxy", "grc", {"ric"}, {"ue1", "ue2"}) >>)
Proxy == Programs("run_zmq_proxy", << Program("zmq_proxy", "grc", {"ric"}, {"ue1", "ue2"}) >>)
XApp == Programs("run_misc", << Program("xapp_simple", "none", {"gnb", "ue1"}, {}) >>)

Fitting == [default |-> "linux_gnome", terminals |-> Terminals, output |-> Tmux,
            groups |-> <<Core, RIC, GNB, UE, Misc>>]

\* The groups of the file that is shipped.
Shipped == [Fitting EXCEPT !.groups = <<Core, RIC, GNB, UE, Proxy, XApp>>]

WithUE(program) == [Fitting EXCEPT !.groups[4].programs = Append(@, program)]

Invalid ==
    { [Fitting EXCEPT !.groups[1].timeout = 0],
      [Fitting EXCEPT !.groups[3].programs[1].name = "blank"],
      WithUE(Program("ue1", "srs_4g", {}, {})),
      WithUE(Program("gnb", "srs_4g", {}, {})),
      [Fitting EXCEPT !.groups[5].programs[1].name = "gnb"],
      [Fitting EXCEPT !.groups[5].programs[1].depends_on = {"ue4"}],
      [Fitting EXCEPT !.groups[5].programs[2].depends_on_init = {"ue4"}],
      [Fitting EXCEPT !.output.number = 0],
      [Fitting EXCEPT !.output.section = FALSE],
      [Fitting EXCEPT !.output.log_dir = FALSE],
      [Fitting EXCEPT !.output.settings = FALSE],
      [Fitting EXCEPT !.output.mode = "none"] }

Unfitting ==
    { Shipped, WithUE(Program("ue4", "srs_4g", {}, {})), WithUE(Program("ue3", "srs_5g", {}, {})),
      [Fitting EXCEPT !.groups[2].programs[1].name = "sc_ric"],
      [Fitting EXCEPT !.groups[3].programs = <<>>],
      [Fitting EXCEPT !.output.mode = "python", !.output.prefix = FALSE] }

OtherTerminals ==
    { [Fitting EXCEPT !.default = "apple_iterm"], [Fitting EXCEPT !.default = "none"],
      [Fitting EXCEPT !.default = "linux_alacritty"], [Fitting EXCEPT !.terminals = <<>>],
      [Fitting EXCEPT !.terminals[1].prefix = "missing"],
      [Fitting EXCEPT !.terminals[2].name = "linux_gnome"],
      [Fitting EXCEPT !.terminals[1].prefix = "empty"] }

AllDemoFiles == {Fitting} \cup Invalid \cup Unfitting \cup OtherTerminals
ShippedFile  == {Shipped}

Machine(system, installed) == [system |-> system, installed |-> installed]
AllMachines ==
    { Machine("linux", {"gnome-terminal", "alacritty", "osascript"}),
      Machine("linux", {"alacritty"}), Machine("linux", {}),
      Machine("apple", {}), Machine("windows", {}), Machine("unknown", {}) }
OneMachine == {Machine("linux", {"gnome-terminal"})}

=============================================================================
