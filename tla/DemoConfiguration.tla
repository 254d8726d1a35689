-------------------------- MODULE DemoConfiguration --------------------------
(***************************************************************************)
(* The demo configuration: program_config_parser.py, the checks and        *)
(* lookups of program_descr_config.py, and the selection of programs in    *)
(* demo_runner.py, as operators on the contents of the file.               *)
(*                                                                         *)
(* A file is a record                                                      *)
(*   default    the name of the default terminal, "none" without the key   *)
(*   terminals  sequence of [name, system, prefix]: what the name begins   *)
(*              with, and the command of subprocess_prefix ("missing"      *)
(*              without the key, "empty" for an empty list)                *)
(*   output     [mode, settings, log_dir, section, prefix, number]: the    *)
(*              mode ("none" if it is not one), which keys there are, if   *)
(*              the session prefix is one word, and show_num_lines or      *)
(*              panes_per_session, 0 without the key                       *)
(*   groups     sequence of [key, timeout, restarts, programs], a program  *)
(*              being [name, implementation, depends_on, depends_on_init]; *)
(*              "blank" is a name that is missing, empty or not one word   *)
(***************************************************************************)
EXTENDS Integers, Sequences, FiniteSets

First(s) == s[1]

(***************************************************************************)
(* The elements of s at the indices in I, in their order: what SelectSeq   *)
(* makes of a condition, in a form that can be reasoned about.  The m-th   *)
(* index is the one that has m indices up to itself.                       *)
(***************************************************************************)
Rank(I, i) == Cardinality({j \in I : j <= i})
Filtered(s, I) == [m \in 1..Cardinality(I) |-> s[CHOOSE i \in I : Rank(I, i) = m]]

HasDuplicates(s) == \E i, j \in DOMAIN s : i < j /\ s[i] = s[j]
Elements(s) == {s[i] : i \in DOMAIN s}

TerminalDescription == [name : STRING, system : STRING, prefix : STRING]
ProgramDescription  == [name : STRING, implementation : STRING, depends_on : SUBSET STRING,
                        depends_on_init : SUBSET STRING]
ProgramGroup        == [key : STRING, timeout : Int, restarts : Int,
                        programs : Seq(ProgramDescription)]
OutputSettings      == [mode : STRING, settings : BOOLEAN, log_dir : BOOLEAN, section : BOOLEAN,
                        prefix : BOOLEAN, number : Int]
ProgramDescriptionCfg ==
    [default : STRING, terminals : Seq(TerminalDescription), output : OutputSettings,
     groups : Seq(ProgramGroup)]

NoTerminal == [name |-> "none", system |-> "none", prefix |-> "missing"]

-----------------------------------------------------------------------------
(***************************************************************************)
(* Parsing.                                                                *)
(***************************************************************************)

\* _parse_terminal_data: the default terminal, if it is in the list.
ParsedTerminal(file) ==
    LET named == Filtered(file.terminals,
                          {i \in DOMAIN file.terminals : file.terminals[i].name = file.default})
    IN  IF named = <<>> THEN NoTerminal ELSE First(named)

\* _parse_output_data indexes the section of the mode without asking for it.
ParseRaises(file) ==
    file.output.mode # "none" /\ file.output.settings /\ ~file.output.section

HasLogDir(file) == file.output.settings /\ file.output.log_dir

ProgramGroupIdentifier == {"run_core", "run_ric", "run_gnb", "run_ue", "run_misc"}

\* Every other key of the section is a group of the type MISC.
GroupType(key) == IF key \in ProgramGroupIdentifier THEN key ELSE "run_misc"

(***************************************************************************)
(* The implementations, and the folder of each, which stands for it in     *)
(* Checkout.  update_group_data leaves None for any other string, and      *)
(* ignores what a MISC program says.                                       *)
(***************************************************************************)
Implementations ==
    [ run_ric  |-> [oran_sc_ric |-> "oran-sc-ric", flexric |-> "flexric"],
      run_core |-> [open5gs |-> "open5gs", open5gs_srs |-> "srsRAN_Project"],
      run_gnb  |-> [srs |-> "srsRAN_Project"],
      run_ue   |-> [srs_4g |-> "srsRAN_4G"] ]

Implementation(type, program) ==
    IF type \in DOMAIN Implementations /\ program.implementation \in DOMAIN Implementations[type]
    THEN Implementations[type][program.implementation]
    ELSE "none"

-----------------------------------------------------------------------------
(***************************************************************************)
(* check_validity.  The terminal is looked for only if all else is valid.  *)
(***************************************************************************)
OutputIsValid(output) ==
    /\ output.mode \in {"python", "tmux"}
    /\ output.settings /\ output.number > 0
    /\ output.mode = "tmux" => output.prefix

NamesOf(group) == {group.programs[i].name : i \in DOMAIN group.programs}
AllNames(file) == UNION {NamesOf(file.groups[g]) : g \in DOMAIN file.groups}

GroupIsValid(group) ==
    /\ group.timeout > 0 /\ group.restarts >= 0
    /\ "blank" \notin NamesOf(group)
    /\ GroupType(group.key) \in {"run_ue", "run_misc"} =>
           ~HasDuplicates([i \in DOMAIN group.programs |-> group.programs[i].name])

Dependencies(program) == program.depends_on \cup program.depends_on_init

\* Mutant of ProgramsAreValid: only depends_on is looked at.
ProgramsAreValidPartly(file) ==
    \A g \in DOMAIN file.groups :
        /\ GroupIsValid(file.groups[g])
        /\ \A h \in DOMAIN file.groups :
               g # h => NamesOf(file.groups[g]) \cap NamesOf(file.groups[h]) = {}
        /\ \A i \in DOMAIN file.groups[g].programs :
               file.groups[g].programs[i].depends_on \subseteq AllNames(file)

ProgramsAreValid(file) ==
    \A g \in DOMAIN file.groups :
        /\ GroupIsValid(file.groups[g])
        /\ \A h \in DOMAIN file.groups :
               g # h => NamesOf(file.groups[g]) \cap NamesOf(file.groups[h]) = {}
        /\ \A i \in DOMAIN file.groups[g].programs :
               Dependencies(file.groups[g].programs[i]) \subseteq AllNames(file)

Suitable(file, system) ==
    Filtered(file.terminals, {i \in DOMAIN file.terminals : file.terminals[i].system = system})

IsInstalled(terminal, installed) == terminal.prefix \in installed

\* The length of a prefix that is None, or the name of a terminal that is.
TerminalRaises(file, system) ==
    IF system = "linux"
    THEN \E t \in Elements(Suitable(file, system)) : t.prefix = "missing"
    ELSE system # "unknown" /\ ParsedTerminal(file) = NoTerminal

(***************************************************************************)
(* _check_valid_terminal and _set_terminal_by_name_pref, for a list that   *)
(* is not empty.  What is installed is known on Linux only; elsewhere the  *)
(* first suitable terminal replaces the configured one, suitable or not.   *)
(***************************************************************************)
Fallback(file, system) ==
    CASE ParsedTerminal(file) # NoTerminal -> ParsedTerminal(file)
      [] ParsedTerminal(file) = NoTerminal /\ Suitable(file, system) # <<>> ->
            First(Suitable(file, system))
      [] OTHER -> First(file.terminals)

\* Mutant of LinuxTerminal: an installed terminal need not be a suitable one.
LinuxTerminalAny(file, installed) ==
    LET candidates == {i \in DOMAIN file.terminals : IsInstalled(file.terminals[i], installed)}
    IN  IF candidates # {} THEN First(Filtered(file.terminals, candidates))
        ELSE Fallback(file, "linux")

\* The first that is installed and has the name of the configured one, or is installed.
LinuxTerminal(file, installed) ==
    LET candidates == {i \in DOMAIN file.terminals :
                          /\ file.terminals[i].system = "linux"
                          /\ IsInstalled(file.terminals[i], installed)}
        preferred == {i \in candidates : file.terminals[i].name = ParsedTerminal(file).name}
    IN  CASE preferred # {} -> First(Filtered(file.terminals, preferred))
          [] preferred = {} /\ candidates # {} -> First(Filtered(file.terminals, candidates))
          [] OTHER -> Fallback(file, "linux")

UsedTerminal(file, system, installed) ==
    CASE system = "unknown" -> First(file.terminals)
      [] system = "linux"   -> LinuxTerminal(file, installed)
      [] OTHER -> IF Suitable(file, system) # <<>> THEN First(Suitable(file, system))
                  ELSE Fallback(file, system)

SearchesTerminal(file) ==
    OutputIsValid(file.output) /\ ProgramsAreValid(file) /\ file.terminals # <<>>

-----------------------------------------------------------------------------
(***************************************************************************)
(* The selection of DemoRunner.                                            *)
(***************************************************************************)

\* _get_programs_of_group: the first group of the type.
ProgramsOf(file, type) ==
    LET groups == {g \in DOMAIN file.groups : GroupType(file.groups[g].key) = type}
    IN  IF groups = {} THEN <<>> ELSE First(Filtered(file.groups, groups)).programs

\* The programs of the implementation whose folder is given.
Matching(file, type, folder) ==
    LET programs == ProgramsOf(file, type)
    IN  Filtered(programs, {i \in DOMAIN programs : Implementation(type, programs[i]) = folder})

\* Mutant of FirstMatching: ric_added and its likes are never set.
FirstMatchingAll(file, type, folder) == Matching(file, type, folder)

\* _create_ric, _create_core and _create_gnb: the first of them, or none with a warning.
FirstMatching(file, type, folder) ==
    LET matching == Matching(file, type, folder)
    IN  IF matching = <<>> THEN <<>> ELSE <<First(matching)>>

\* _create_ues: those with name and implementation of a UE that is built.
MatchingUEs(file, ues) ==
    LET programs == ProgramsOf(file, "run_ue")
    IN  Filtered(programs, {i \in DOMAIN programs :
                               \E n \in DOMAIN ues :
                                   /\ programs[i].name = ues[n].name
                                   /\ Implementation("run_ue", programs[i]) = ues[n].folder})

(***************************************************************************)
(* create_programs, given the folders of the implementations in use and    *)
(* the UEs of the build configuration.                                     *)
(***************************************************************************)
SelectedPrograms(file, ric, core, gnb, ues) ==
       FirstMatching(file, "run_ric", ric)
    \o FirstMatching(file, "run_core", core)
    \o FirstMatching(file, "run_gnb", gnb)
    \o MatchingUEs(file, ues)
    \o ProgramsOf(file, "run_misc")

=============================================================================
